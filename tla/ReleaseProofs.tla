---------------------------- MODULE ReleaseProofs ----------------------------
(* What holds of every sequence of release commands, for any versions,       *)
(* identities, orders and dates: types, logged revisions, links, tombstones, *)
(* and the line that repair makes.  In the second part, an import of tags    *)
(* beside the other commands implements ReleaseLifecycle, so that all of it  *)
(* holds of imports too; alone, on a ledger in line, an import keeps the     *)
(* line.                                                                     *)
EXTENDS TagImport, FiniteSetTheorems, WellFoundedInduction, TLAPS

-----------------------------------------------------------------------------
(* What the lookups return.                                                *)

\* An explicit predecessor is a version, stored or not.
LEMMA ExplicitPreviousType == ExplicitPrevious \subseteq Versions
BY DEF ExplicitPrevious, CanonicalPrevious, Stored

\* An inferred predecessor is a version or none.
LEMMA InferredPreviousType ==
    ASSUME NEW v \in Versions, NEW d
    PROVE  InferredPrevious(v, d) \subseteq Versions \cup {None}
BY DEF InferredPrevious, Eligible, Stored

\* The predecessor that repair computes is a version or none.
LEMMA ExpectedPreviousType ==
    ASSUME NEW r
    PROVE  ExpectedPrevious(r) \in Versions \cup {None}
<1>1. ImmediatelyBefore(r) \subseteq Versions
  BY DEF ImmediatelyBefore, Chain, Stored
<1>2. QED
  BY <1>1 DEF ExpectedPrevious

\* A date or none is a natural number's worth of type.
LEMMA AbsentType == AbsentRecord \in ReleaseRecord
BY DEF AbsentRecord, ReleaseRecord, NoDate

\* An edit of a good record is a good record.
LEMMA EditedType ==
    ASSUME NEW r \in ReleaseRecord,
           NEW status \in RELEASE_STATUSES \cup {"absent"}, status # "absent",
           NEW prev \in Versions \cup {None}, NEW date \in Dates \cup {NoDate}
    PROVE  LET e == Edited(r, status, prev, date)
           IN  e \in ReleaseRecord /\ e.status # "absent" /\ e.revision > 0
BY DEF Edited, ReleaseRecord

-----------------------------------------------------------------------------
(* The inductive invariant.  Both conjuncts are needed together: that a    *)
(* revision is logged is kept because a step writes only records that its  *)
(* event names, which the types of the records let the provers see.        *)

Records ==
    /\ rel \in [Versions -> ReleaseRecord]
    /\ \A v \in Versions :
        IF v \in Stored THEN rel[v].revision > 0 ELSE rel[v] = AbsentRecord

LogTypes ==
    /\ logged \in [Versions -> Nat]
    /\ events \in Nat
    /\ last \in [event : EventKinds, version : Versions \cup {None}]
    /\ torn \subseteq Versions

LEMMA TypeParts == TypeOK <=> Records /\ LogTypes
BY DEF TypeOK, Records, LogTypes

\* A step that logs keeps the types of the log and logs what it wrote: it is
\* enough that the records it wrote are among those the event names.
LEMMA LogStep ==
    ASSUME LogTypes, Records, Records', RevisionsLogged,
           NEW kind \in EventKinds, NEW v \in Versions \cup {None}, NEW S,
           Log(kind, v, S),
           \A w \in Versions \ S : rel'[w] = rel[w] \/ rel'[w].status = "absent"
    PROVE  LogTypes' /\ RevisionsLogged'
<1>1. \A w \in Versions : rel'[w].revision \in Nat
  BY DEF Records, ReleaseRecord
<1>2. LogTypes'
  BY <1>1 DEF LogTypes, Log
<1>3. ASSUME NEW w \in Stored'
      PROVE  w \in torn' \/ rel'[w].revision = logged'[w]
  <2>1. w \in Versions /\ rel'[w].status # "absent"
    BY <1>3 DEF Stored
  <2>2. CASE w \in S
    BY <2>1, <2>2 DEF Log
  <2>3. CASE w \notin S
    <3>1. rel'[w] = rel[w] /\ w \in Stored
      BY <2>1, <2>3 DEF Stored
    <3>2. w \in torn \/ rel[w].revision = logged[w]
      BY <3>1 DEF RevisionsLogged
    <3>3. QED
      BY <2>1, <2>3, <3>1, <3>2 DEF Log
  <2>4. QED
    BY <2>2, <2>3
<1>4. QED
  BY <1>2, <1>3 DEF RevisionsLogged

IInv == Records /\ LogTypes /\ RevisionsLogged

\* Writing one record, new or edited, and naming it in the event.
LEMMA WriteOne ==
    ASSUME IInv,
           NEW v \in Versions, NEW rec \in ReleaseRecord,
           rec.status # "absent", rec.revision > 0,
           NEW kind \in EventKinds,
           rel' = [rel EXCEPT ![v] = rec],
           Log(kind, v, {v})
    PROVE  IInv'
<1>1. rel' \in [Versions -> ReleaseRecord]
  BY DEF IInv, Records
<1>2. \A w \in Versions : rel'[w] = IF w = v THEN rec ELSE rel[w]
  BY DEF IInv, Records
<1>3. Records'
  BY <1>1, <1>2 DEF IInv, Records, Stored
<1>4. LogTypes' /\ RevisionsLogged'
  BY <1>2, <1>3, LogStep DEF IInv
<1>5. QED
  BY <1>3, <1>4 DEF IInv

\* An edited record: its status, predecessor and date are of their types.
LEMMA SaveReleaseInv ==
    ASSUME IInv,
           NEW v \in Stored, NEW status \in RELEASE_STATUSES,
           NEW prev \in Versions \cup {None}, NEW date \in Dates \cup {NoDate},
           NEW kind \in EventKinds,
           SaveRelease(v, status, prev, date, kind)
    PROVE  IInv'
<1> DEFINE rec == Edited(rel[v], status, prev, date)
<1>1. v \in Versions
  BY DEF Stored
<1>2. rel[v] \in ReleaseRecord /\ status # "absent"
  BY <1>1 DEF IInv, Records, RELEASE_STATUSES, Open, Terminal
<1>3. rec \in ReleaseRecord /\ rec.status # "absent" /\ rec.revision > 0
  BY <1>2, EditedType
<1>4. rel' = [rel EXCEPT ![v] = rec] /\ Log(kind, v, {v})
  BY DEF SaveRelease
<1> HIDE DEF rec
<1>5. QED
  BY <1>1, <1>3, <1>4, WriteOne

LEMMA PersistNewInv ==
    ASSUME IInv,
           NEW v \in Versions, NEW status \in RELEASE_STATUSES,
           NEW prev \in Versions \cup {None}, NEW date \in Dates \cup {NoDate},
           NEW kind \in EventKinds,
           PersistNew(v, status, prev, date, kind)
    PROVE  IInv'
<1> DEFINE rec == [status |-> status, previous_version |-> prev,
                   released_at |-> date, revision |-> 1]
<1>1. rec \in ReleaseRecord /\ rec.status # "absent" /\ rec.revision > 0
  BY DEF ReleaseRecord, RELEASE_STATUSES, Open, Terminal
<1>2. rel' = [rel EXCEPT ![v] = rec] /\ Log(kind, v, {v})
  BY DEF PersistNew
<1> HIDE DEF rec
<1>3. QED
  BY <1>1, <1>2, WriteOne

\* Relinking stored releases keeps them stored, with a larger revision.
LEMMA RelinkType ==
    ASSUME Records, NEW S \in SUBSET Stored, NEW t \in Versions, NEW w \in S
    PROVE  /\ Relink(S, t)[w] \in ReleaseRecord
           /\ Relink(S, t)[w].status # "absent"
           /\ Relink(S, t)[w].revision > 0
<1>1. w \in Versions /\ rel[w] \in ReleaseRecord /\ rel[w].status # "absent"
  BY DEF Records, Stored
<1>2. Relink(S, t)[w] = Edited(rel[w], rel[w].status, t, rel[w].released_at)
  BY <1>1 DEF Relink, Relinked
<1>3. /\ rel[w].status \in RELEASE_STATUSES \cup {"absent"}
      /\ rel[w].released_at \in Dates \cup {NoDate}
  BY <1>1 DEF ReleaseRecord
<1>4. QED
  BY <1>1, <1>2, <1>3, EditedType

\* Records that a step leaves: each one untouched, cleared, or a good record.
LEMMA RecordsStep ==
    ASSUME Records,
           rel' = [w \in Versions |-> rel'[w]],
           \A w \in Versions :
              \/ rel'[w] = rel[w]
              \/ rel'[w] = AbsentRecord
              \/ /\ rel'[w] \in ReleaseRecord
                 /\ rel'[w].status # "absent"
                 /\ rel'[w].revision > 0
    PROVE  Records'
<1>1. \A w \in Versions : rel'[w] \in ReleaseRecord
  BY AbsentType DEF Records
<1>2. rel' \in [Versions -> ReleaseRecord]
  BY <1>1
<1>3. ASSUME NEW w \in Versions
      PROVE  IF w \in Stored' THEN rel'[w].revision > 0 ELSE rel'[w] = AbsentRecord
  BY <1>3 DEF Records, Stored, AbsentRecord
<1>4. QED
  BY <1>2, <1>3 DEF Records

-----------------------------------------------------------------------------
(* One lemma per command that writes several records.                      *)

LEMMA CancelInv ==
    ASSUME IInv, NEW v \in Versions, CancelRelease(v)
    PROVE  IInv'
<1> DEFINE succ == Successors(v)
<1>1. succ \in SUBSET Stored /\ v \in Stored /\ v \notin succ
  BY DEF Successors, CancelRelease
<1>2. PICK t \in RelinkTargets(v) \cup {None} :
        /\ succ = {} <=> t = None
        /\ rel' = [Relink(succ, t) EXCEPT
                    ![v] = Edited(@, "canceled", @.previous_version, @.released_at)]
        /\ Log("release.canceled", v, CanceledRecords(v))
  BY DEF CancelRelease
<1>3. Records /\ LogTypes /\ RevisionsLogged
  BY DEF IInv
<1>4. /\ rel' = [w \in Versions |-> rel'[w]]
      /\ \A w \in Versions \ (succ \cup {v}) : rel'[w] = rel[w]
      /\ \A w \in succ : rel'[w] = Relink(succ, t)[w]
      /\ rel'[v] = Edited(rel[v], "canceled", rel[v].previous_version, rel[v].released_at)
  BY <1>1, <1>2, <1>3 DEF Relink, Stored, Records
<1>5. rel'[v] \in ReleaseRecord /\ rel'[v].status # "absent" /\ rel'[v].revision > 0
  <2>1. rel[v] \in ReleaseRecord
    BY <1>3 DEF Records
  <2>2. /\ rel[v].previous_version \in Versions \cup {None}
        /\ rel[v].released_at \in Dates \cup {NoDate}
        /\ "canceled" \in RELEASE_STATUSES \cup {"absent"}
    BY <2>1 DEF ReleaseRecord, RELEASE_STATUSES, Terminal
  <2>3. "canceled" # "absent"
    OBVIOUS
  <2>4. rel'[v] = Edited(rel[v], "canceled", rel[v].previous_version, rel[v].released_at)
    BY <1>4
  <2>5. QED
    BY <2>1, <2>2, <2>3, <2>4, EditedType
<1>6. ASSUME NEW w \in succ
      PROVE  rel'[w] \in ReleaseRecord /\ rel'[w].status # "absent" /\ rel'[w].revision > 0
  <2>1. t \in Versions
    BY <1>2, <1>6 DEF RelinkTargets, Stored
  <2>2. w \in Stored
    BY <1>1, <1>6
  <2>3. QED
    BY <1>1, <1>3, <1>4, <1>6, <2>1, <2>2, RelinkType DEF Stored
<1>7. Records'
  BY <1>3, <1>4, <1>5, <1>6, RecordsStep
<1>8. CanceledRecords(v) = succ \cup {v}
  BY DEF CanceledRecords
<1>9. "release.canceled" \in EventKinds
  BY DEF EventKinds
<1> HIDE DEF succ
<1>10. LogTypes' /\ RevisionsLogged'
  BY <1>2, <1>3, <1>4, <1>7, <1>8, <1>9, LogStep
<1>11. QED
  BY <1>7, <1>10 DEF IInv

\* The record a rename stores under the new version is a good record.
LEMMA RenamedRecordType ==
    ASSUME Records, NEW old \in Stored,
           NEW prev \in {rel[old].previous_version} \cup ExplicitPrevious,
           NEW date \in {rel[old].released_at} \cup Dates
    PROVE  LET rec == RenamedRecord(old, prev, date)
           IN  rec \in ReleaseRecord /\ rec.status # "absent" /\ rec.revision > 0
<1>1. old \in Versions /\ rel[old] \in ReleaseRecord /\ rel[old].status # "absent"
  BY DEF Records, Stored
<1>2. prev \in Versions \cup {None} /\ date \in Dates \cup {NoDate}
  BY <1>1, ExplicitPreviousType DEF ReleaseRecord
<1>3. rel[old].status \in RELEASE_STATUSES \cup {"absent"}
  BY <1>1 DEF ReleaseRecord
<1>4. QED
  BY <1>1, <1>2, <1>3, EditedType DEF RenamedRecord

\* The records a rename leaves, completed or not.
LEMMA RenamedRecords ==
    ASSUME Records, NEW old \in Stored, NEW new \in Versions, old # new,
           NEW rec \in ReleaseRecord, rec.status # "absent", rec.revision > 0,
           NEW S \in SUBSET Successors(old),
           rel' = Renamed(old, new, rec, S)
    PROVE  /\ Records'
           /\ \A w \in Versions \ (S \cup {new}) :
                rel'[w] = rel[w] \/ rel'[w].status = "absent"
<1>1. S \in SUBSET Stored /\ old \notin S
  BY DEF Successors
<1>2. /\ rel' = [w \in Versions |-> rel'[w]]
      /\ \A w \in Versions : rel'[w] = IF w \in S THEN Relink(S, new)[w]
                                       ELSE IF w = new THEN rec
                                       ELSE IF w = old THEN AbsentRecord
                                       ELSE rel[w]
  BY DEF Renamed
<1>3. \A w \in S : /\ Relink(S, new)[w] \in ReleaseRecord
                   /\ Relink(S, new)[w].status # "absent"
                   /\ Relink(S, new)[w].revision > 0
  BY <1>1, RelinkType DEF Stored
<1>4. Records'
  BY <1>2, <1>3, RecordsStep
<1>5. QED
  BY <1>2, <1>4 DEF AbsentRecord

LEMMA RenameInv ==
    ASSUME IInv, NEW old \in Versions, NEW new \in Versions, RenameRelease(old, new)
    PROVE  IInv'
<1>1. old \in Stored /\ old # new
  BY DEF RenameRelease
<1>2. PICK prev \in {rel[old].previous_version} \cup ExplicitPrevious,
           date \in {rel[old].released_at} \cup Dates :
        /\ rel' = Renamed(old, new, RenamedRecord(old, prev, date), Successors(old))
        /\ Log("release.renamed", new, Successors(old) \cup {new})
  BY DEF RenameRelease
<1> DEFINE rec == RenamedRecord(old, prev, date)
<1>3. rec \in ReleaseRecord /\ rec.status # "absent" /\ rec.revision > 0
  BY <1>1, RenamedRecordType DEF IInv
<1>4. rel' = Renamed(old, new, rec, Successors(old))
  BY <1>2
<1> HIDE DEF rec
<1>5. /\ Records'
      /\ \A w \in Versions \ (Successors(old) \cup {new}) :
            rel'[w] = rel[w] \/ rel'[w].status = "absent"
  BY <1>1, <1>3, <1>4, RenamedRecords DEF IInv
<1>6. "release.renamed" \in EventKinds
  BY DEF EventKinds
<1>7. LogTypes' /\ RevisionsLogged'
  BY <1>2, <1>5, <1>6, LogStep DEF IInv
<1>8. QED
  BY <1>5, <1>7 DEF IInv

LEMMA RenameFailsInv ==
    ASSUME IInv, NEW old \in Versions, NEW new \in Versions, RenameReleaseFails(old, new)
    PROVE  IInv'
<1> DEFINE saved == {s \in Successors(old) : ListedBefore(s, new)}
<1>1. /\ old \in Stored /\ old # new
      /\ UNCHANGED <<logged, events, last>>
  BY DEF RenameReleaseFails
<1>2. PICK prev \in {rel[old].previous_version} \cup ExplicitPrevious,
           date \in {rel[old].released_at} \cup Dates :
        /\ rel' = Renamed(old, new, RenamedRecord(old, prev, date), saved)
        /\ torn' = torn \cup saved \cup {new}
  BY DEF RenameReleaseFails
<1> DEFINE rec == RenamedRecord(old, prev, date)
<1>3. rec \in ReleaseRecord /\ rec.status # "absent" /\ rec.revision > 0
  BY <1>1, RenamedRecordType DEF IInv
<1>4. rel' = Renamed(old, new, rec, saved) /\ saved \in SUBSET Successors(old)
  BY <1>2
<1>5. saved \subseteq Versions
  BY DEF Successors, Stored
<1> HIDE DEF rec, saved
<1>6. /\ Records'
      /\ \A w \in Versions \ (saved \cup {new}) :
            rel'[w] = rel[w] \/ rel'[w].status = "absent"
  BY <1>1, <1>3, <1>4, RenamedRecords DEF IInv
<1>7. LogTypes'
  BY <1>1, <1>2, <1>5 DEF IInv, LogTypes
<1>8. ASSUME NEW w \in Stored'
      PROVE  w \in torn' \/ rel'[w].revision = logged'[w]
  <2>1. w \in Versions /\ rel'[w].status # "absent"
    BY <1>8 DEF Stored
  <2>2. CASE w \in saved \cup {new}
    BY <1>2, <2>2
  <2>3. CASE w \notin saved \cup {new}
    <3>1. rel'[w] = rel[w] /\ w \in Stored
      BY <1>6, <2>1, <2>3 DEF Stored
    <3>2. QED
      BY <1>1, <1>2, <3>1 DEF IInv, RevisionsLogged
  <2>4. QED
    BY <2>2, <2>3
<1>9. QED
  BY <1>6, <1>7, <1>8 DEF IInv, RevisionsLogged

LEMMA RepairInv ==
    ASSUME IInv, RepairReleaseChain
    PROVE  IInv'
<1> DEFINE changed == {r \in Chain : rel[r].previous_version # ExpectedPrevious(r)}
<1>1. /\ rel' = [w \in Versions |->
                  IF w \in changed THEN Relinked(rel[w], ExpectedPrevious(w))
                  ELSE rel[w]]
      /\ Log("release.chain_repaired", None, changed)
  BY DEF RepairReleaseChain
<1>2. changed \in SUBSET Stored
  BY DEF Chain
<1> HIDE DEF changed
<1>3. rel' = [w \in Versions |-> rel'[w]] /\ \A w \in Versions \ changed : rel'[w] = rel[w]
  BY <1>1
<1>4. ASSUME NEW w \in changed
      PROVE  rel'[w] \in ReleaseRecord /\ rel'[w].status # "absent" /\ rel'[w].revision > 0
  <2>1. w \in Versions /\ rel[w] \in ReleaseRecord /\ rel[w].status # "absent"
    BY <1>2, <1>4 DEF IInv, Records, Stored
  <2>2. rel'[w] = Edited(rel[w], rel[w].status, ExpectedPrevious(w), rel[w].released_at)
    BY <1>1, <1>4, <2>1 DEF Relinked
  <2>3. /\ rel[w].status \in RELEASE_STATUSES \cup {"absent"}
        /\ rel[w].released_at \in Dates \cup {NoDate}
    BY <2>1 DEF ReleaseRecord
  <2>4. ExpectedPrevious(w) \in Versions \cup {None}
    BY ExpectedPreviousType
  <2>5. QED
    BY <2>1, <2>2, <2>3, <2>4, EditedType
<1>5. Records'
  BY <1>3, <1>4, RecordsStep DEF IInv
<1>6. "release.chain_repaired" \in EventKinds
  BY DEF EventKinds
<1>7. LogTypes' /\ RevisionsLogged'
  BY <1>1, <1>3, <1>5, <1>6, LogStep DEF IInv
<1>8. QED
  BY <1>5, <1>7 DEF IInv

-----------------------------------------------------------------------------
LEMMA InitInv == Init => IInv
BY AbsentType DEF Init, IInv, Records, LogTypes, RevisionsLogged, Stored,
                  AbsentRecord, EventKinds

LEMMA NextInv == IInv /\ [Next]_vars => IInv'
<1> SUFFICES ASSUME IInv, [Next]_vars PROVE IInv'
  OBVIOUS
<1>1. ASSUME NEW v \in Versions, NEW status \in CreateStatuses,
             NEW date \in Dates \cup {NoDate}, CreateRelease(v, status, date)
      PROVE  IInv'
  <2>1. PICK prev \in InferredPrevious(v, date) \cup ExplicitPrevious :
            PersistNew(v, status, prev, date, "release.created")
    BY <1>1 DEF CreateRelease
  <2>2. prev \in Versions \cup {None}
    BY ExplicitPreviousType, InferredPreviousType
  <2>3. status \in RELEASE_STATUSES /\ "release.created" \in EventKinds
    BY InputAssumption DEF EventKinds
  <2>4. QED
    BY <2>1, <2>2, <2>3, PersistNewInv
<1>2. ASSUME NEW v \in Versions, NEW date \in Dates, TagRelease(v, date)
      PROVE  IInv'
  <2>1. PICK prev \in InferredPrevious(v, date) \cup ExplicitPrevious :
            PersistNew(v, "released", prev, date, "release.tagged")
    BY <1>2 DEF TagRelease
  <2>2. prev \in Versions \cup {None}
    BY ExplicitPreviousType, InferredPreviousType
  <2>3. "released" \in RELEASE_STATUSES /\ "release.tagged" \in EventKinds
    BY DEF EventKinds, RELEASE_STATUSES, Terminal
  <2>4. QED
    BY <2>1, <2>2, <2>3, PersistNewInv
<1>3. ASSUME NEW v \in Stored
      PROVE  rel[v].previous_version \in Versions \cup {None}
  BY <1>3 DEF IInv, Records, Stored, ReleaseRecord
<1>4. ASSUME NEW sel \in Versions, OnSelected(sel)
      PROVE  IInv'
  <2>1. PICK v \in Resolve(sel) :
        \/ \E status \in RELEASE_STATUSES, date \in Dates \cup {NoDate}, other \in BOOLEAN :
                UpdateRelease(v, status, date, other)
        \/ \E date \in Dates : FinalizeRelease(v, date)
        \/ \E status \in RELEASE_STATUSES, date \in Dates \cup {NoDate} :
                RestoreRelease(v, status, date)
    BY <1>4 DEF OnSelected
  <2>2. v \in Stored
    BY DEF Resolve
  <2>3. ASSUME NEW status \in RELEASE_STATUSES, NEW date \in Dates \cup {NoDate},
               NEW other \in BOOLEAN, UpdateRelease(v, status, date, other)
        PROVE  IInv'
    <3>1. PICK prev \in {rel[v].previous_version, None} \cup ExplicitPrevious :
              SaveRelease(v, status, prev, date, "release.updated")
      BY <2>3 DEF UpdateRelease
    <3>2. prev \in Versions \cup {None} /\ "release.updated" \in EventKinds
      BY <1>3, <2>2, ExplicitPreviousType DEF EventKinds
    <3>3. QED
      BY <2>2, <3>1, <3>2, SaveReleaseInv
  <2>4. ASSUME NEW date \in Dates, FinalizeRelease(v, date)
        PROVE  IInv'
    <3>1. SaveRelease(v, "released", rel[v].previous_version, date, "release.finalized")
      BY <2>4 DEF FinalizeRelease
    <3>2. "released" \in RELEASE_STATUSES /\ "release.finalized" \in EventKinds
      BY DEF EventKinds, RELEASE_STATUSES, Terminal
    <3>3. QED
      BY <1>3, <2>2, <3>1, <3>2, SaveReleaseInv
  <2>5. ASSUME NEW status \in RELEASE_STATUSES, NEW date \in Dates \cup {NoDate},
               RestoreRelease(v, status, date)
        PROVE  IInv'
    <3>1. PICK prev \in {rel[v].previous_version, None} \cup ExplicitPrevious :
              SaveRelease(v, status, prev, date, "release.restored")
      BY <2>5 DEF RestoreRelease
    <3>2. prev \in Versions \cup {None} /\ "release.restored" \in EventKinds
      BY <1>3, <2>2, ExplicitPreviousType DEF EventKinds
    <3>3. QED
      BY <2>2, <3>1, <3>2, SaveReleaseInv
  <2>6. QED
    BY <2>1, <2>3, <2>4, <2>5
<1>5. ASSUME NEW v \in Versions, NEW status \in Open, SetReleaseStatus(v, status)
      PROVE  IInv'
  <2>1. /\ v \in Stored
        /\ SaveRelease(v, status, rel[v].previous_version, rel[v].released_at,
                       "release.updated")
    BY <1>5 DEF SetReleaseStatus
  <2>2. /\ status \in RELEASE_STATUSES
        /\ rel[v].released_at \in Dates \cup {NoDate}
        /\ "release.updated" \in EventKinds
    BY <2>1 DEF RELEASE_STATUSES, EventKinds, IInv, Records, Stored, ReleaseRecord
  <2>3. QED
    BY <1>3, <2>1, <2>2, SaveReleaseInv
<1>6. ASSUME NEW v \in Versions, CancelRelease(v)
      PROVE  IInv'
  BY <1>6, CancelInv
<1>7. ASSUME NEW old \in Versions, NEW new \in Versions, RenameRelease(old, new)
      PROVE  IInv'
  BY <1>7, RenameInv
<1>8. ASSUME NEW old \in Versions, NEW new \in Versions, RenameReleaseFails(old, new)
      PROVE  IInv'
  BY <1>8, RenameFailsInv
<1>9. CASE RepairReleaseChain
  BY <1>9, RepairInv
<1>10. CASE UNCHANGED vars
  BY <1>10 DEF vars, IInv, Records, LogTypes, RevisionsLogged, Stored
<1>11. QED
  BY <1>1, <1>2, <1>4, <1>5, <1>6, <1>7, <1>8, <1>9, <1>10 DEF Next

\* The state of the ledger has its types in every behaviour, and the directory
\* of a version holds a record with a positive revision or nothing at all.
THEOREM TypeCorrect == Spec => []TypeOK
<1>1. IInv => TypeOK
  BY DEF IInv, TypeOK, Records, LogTypes
<1>2. QED
  BY <1>1, InitInv, NextInv, PTL DEF Spec

\* append_event keeps up with save_release: the newest event that names a
\* stored release has the revision of its file, unless a failed rename wrote it.
THEOREM RevisionsAreLogged == Spec => []RevisionsLogged
<1>1. IInv => RevisionsLogged
  BY DEF IInv
<1>2. QED
  BY <1>1, InitInv, NextInv, PTL DEF Spec

-----------------------------------------------------------------------------
(* What a step never does.  Cancel, rename and repair write several records; *)
(* each other command writes one, and only restore takes one out of canceled. *)

OneWritten(v, kind) ==
    /\ rel' = [rel EXCEPT ![v] = rel'[v]]
    /\ rel'[v].status # "absent"
    /\ Log(kind, v, {v})
    /\ v \in Stored /\ rel[v].status = "canceled" /\ rel'[v].status # "canceled"
            => kind = "release.restored"

\* The event of a completed command is the one that the command appended.
LEMMA LogCompletes ==
    ASSUME LogTypes, NEW kind, NEW v, NEW S, Log(kind, v, S)
    PROVE  /\ events' # events /\ last'.version = v
           /\ \A k : Completed(k) <=> k = kind
BY DEF LogTypes, Log, Completed

LEMMA SaveWritesOne ==
    ASSUME Records, NEW v \in Stored, NEW status \in RELEASE_STATUSES, NEW prev, NEW date,
           NEW kind, SaveRelease(v, status, prev, date, kind),
           rel[v].status = "canceled" => status = "canceled" \/ kind = "release.restored"
    PROVE  OneWritten(v, kind)
<1>1. v \in Versions /\ rel' = [rel EXCEPT ![v] = Edited(rel[v], status, prev, date)]
  BY DEF SaveRelease, Stored
<1>2. rel'[v] = Edited(rel[v], status, prev, date)
  BY <1>1 DEF Records
<1>3. rel'[v].status = status /\ status # "absent"
  BY <1>2 DEF Edited, RELEASE_STATUSES, Open, Terminal
<1>4. QED
  BY <1>1, <1>2, <1>3 DEF OneWritten, SaveRelease

LEMMA NewWritesOne ==
    ASSUME Records, NEW v \in Versions, NEW status \in RELEASE_STATUSES, NEW prev, NEW date,
           NEW kind, PersistNew(v, status, prev, date, kind)
    PROVE  OneWritten(v, kind)
<1> DEFINE rec == [status |-> status, previous_version |-> prev,
                   released_at |-> date, revision |-> 1]
<1>1. v \notin Stored /\ rel' = [rel EXCEPT ![v] = rec] /\ rec.status = status
  BY DEF PersistNew
<1>2. status # "absent"
  BY DEF RELEASE_STATUSES, Open, Terminal
<1> HIDE DEF rec
<1>3. rel'[v] = rec
  BY <1>1 DEF Records
<1>4. QED
  BY <1>1, <1>2, <1>3 DEF OneWritten, PersistNew

SingleKinds == EventKinds \ {"release.canceled", "release.chain_repaired"}

SingleStep ==
    \/ \E v \in Versions, status \in CreateStatuses, date \in Dates \cup {NoDate} :
            CreateRelease(v, status, date)
    \/ \E v \in Versions, date \in Dates : TagRelease(v, date)
    \/ \E sel \in Versions : OnSelected(sel)
    \/ \E v \in Versions, status \in Open : SetReleaseStatus(v, status)

LEMMA SingleWritesOne ==
    ASSUME IInv, SingleStep
    PROVE  \E v \in Versions, kind \in SingleKinds : OneWritten(v, kind)
<1>1. Records
  BY DEF IInv
<1> USE DEF SingleKinds, EventKinds
<1>2. ASSUME NEW v \in Versions, NEW status \in CreateStatuses,
             NEW date \in Dates \cup {NoDate}, CreateRelease(v, status, date)
      PROVE  OneWritten(v, "release.created")
  <2>1. PICK prev : PersistNew(v, status, prev, date, "release.created")
    BY <1>2 DEF CreateRelease
  <2>2. status \in RELEASE_STATUSES
    BY InputAssumption
  <2>3. QED
    BY <1>1, <2>1, <2>2, NewWritesOne
<1>3. ASSUME NEW v \in Versions, NEW date \in Dates, TagRelease(v, date)
      PROVE  OneWritten(v, "release.tagged")
  <2>1. PICK prev : PersistNew(v, "released", prev, date, "release.tagged")
    BY <1>3 DEF TagRelease
  <2>2. "released" \in RELEASE_STATUSES
    BY DEF RELEASE_STATUSES, Terminal
  <2>3. QED
    BY <1>1, <2>1, <2>2, NewWritesOne
<1>4. ASSUME NEW v \in Stored, NEW status \in RELEASE_STATUSES,
             NEW date \in Dates \cup {NoDate}, NEW other \in BOOLEAN,
             UpdateRelease(v, status, date, other)
      PROVE  OneWritten(v, "release.updated")
  <2>1. PICK prev : SaveRelease(v, status, prev, date, "release.updated")
    BY <1>4 DEF UpdateRelease
  <2>2. rel[v].status = "canceled" => status = "canceled"
    BY <1>4 DEF UpdateRelease, GenericTransition, Open
  <2>3. QED
    BY <1>1, <2>1, <2>2, SaveWritesOne
<1>5. ASSUME NEW v \in Stored, NEW date \in Dates, FinalizeRelease(v, date)
      PROVE  OneWritten(v, "release.finalized")
  <2>1. /\ SaveRelease(v, "released", rel[v].previous_version, date, "release.finalized")
        /\ rel[v].status \in Open
    BY <1>5 DEF FinalizeRelease
  <2>2. rel[v].status # "canceled" /\ "released" \in RELEASE_STATUSES
    BY <2>1 DEF Open, RELEASE_STATUSES, Terminal
  <2>3. QED
    BY <1>1, <2>1, <2>2, SaveWritesOne
<1>6. ASSUME NEW v \in Stored, NEW status \in RELEASE_STATUSES,
             NEW date \in Dates \cup {NoDate}, RestoreRelease(v, status, date)
      PROVE  OneWritten(v, "release.restored")
  <2>1. PICK prev : SaveRelease(v, status, prev, date, "release.restored")
    BY <1>6 DEF RestoreRelease
  <2>2. QED
    BY <1>1, <2>1, SaveWritesOne
<1>7. ASSUME NEW v \in Versions, NEW status \in Open, SetReleaseStatus(v, status)
      PROVE  OneWritten(v, "release.updated")
  <2>1. /\ SaveRelease(v, status, rel[v].previous_version, rel[v].released_at,
                       "release.updated")
        /\ v \in Stored /\ rel[v].status # "canceled"
    BY <1>7 DEF SetReleaseStatus, Terminal
  <2>2. status \in RELEASE_STATUSES
    BY DEF RELEASE_STATUSES
  <2>3. QED
    BY <1>1, <2>1, <2>2, SaveWritesOne
<1>8. \A sel : Resolve(sel) \subseteq Stored
  BY DEF Resolve
<1>9. QED
  BY <1>2, <1>3, <1>4, <1>5, <1>6, <1>7, <1>8 DEF SingleStep, OnSelected, Stored

LEMMA NextKinds ==
    Next <=> \/ SingleStep
             \/ \E v \in Versions : CancelRelease(v)
             \/ \E old, new \in Versions : RenameRelease(old, new)
             \/ \E old, new \in Versions : RenameReleaseFails(old, new)
             \/ RepairReleaseChain
BY DEF Next, SingleStep

\* What a cancel leaves in each record.
LEMMA CancelEffect ==
    ASSUME IInv, NEW v \in Versions, CancelRelease(v)
    PROVE  \E t \in RelinkTargets(v) \cup {None} :
             /\ Successors(v) = {} <=> t = None
             /\ Log("release.canceled", v, CanceledRecords(v))
             /\ v \in Stored /\ rel[v].status # "canceled"
             /\ rel'[v].status = "canceled"
             /\ \A w \in Versions \ {v} :
                    /\ rel'[w].status = rel[w].status
                    /\ rel'[w].previous_version =
                          IF w \in Successors(v) THEN t ELSE rel[w].previous_version
<1> DEFINE succ == Successors(v)
<1>1. PICK t \in RelinkTargets(v) \cup {None} :
        /\ succ = {} <=> t = None
        /\ rel' = [Relink(succ, t) EXCEPT
                    ![v] = Edited(@, "canceled", @.previous_version, @.released_at)]
        /\ Log("release.canceled", v, CanceledRecords(v))
  BY DEF CancelRelease
<1>2. \A w \in Versions \ {v} :
        rel'[w] = IF w \in succ THEN Edited(rel[w], rel[w].status, t, rel[w].released_at)
                  ELSE rel[w]
  BY <1>1 DEF Relink, Relinked
<1>3. rel'[v].status = "canceled"
  BY <1>1 DEF Relink, Edited
<1>4. v \in Stored /\ rel[v].status # "canceled"
  BY DEF CancelRelease
<1> HIDE DEF succ
<1>5. ASSUME NEW w \in Versions \ {v}
      PROVE  /\ rel'[w].status = rel[w].status
             /\ rel'[w].previous_version = IF w \in succ THEN t ELSE rel[w].previous_version
  <2>1. CASE w \in succ
    <3>1. rel'[w] = Edited(rel[w], rel[w].status, t, rel[w].released_at)
      BY <1>2, <2>1
    <3>2. QED
      BY <2>1, <3>1 DEF Edited
  <2>2. CASE w \notin succ
    BY <1>2, <2>2
  <2>3. QED
    BY <2>1, <2>2
<1>6. QED
  BY <1>1, <1>3, <1>4, <1>5 DEF succ

\* What a rename leaves in each record, when it has saved the successors in S.
LEMMA RenameEffect ==
    ASSUME IInv, NEW old \in Stored, NEW new \in Versions, old # new,
           NEW prev, NEW date, NEW S \in SUBSET Successors(old),
           rel' = Renamed(old, new, RenamedRecord(old, prev, date), S)
    PROVE  /\ rel'[old].status = "absent"
           /\ \A w \in S : /\ rel'[w].status = rel[w].status
                           /\ rel'[w].previous_version = new
           /\ new \notin S => rel'[new].status = rel[old].status
           /\ \A w \in Versions \ (S \cup {old, new}) : rel'[w] = rel[w]
<1>1. old \in Versions /\ old \notin S /\ S \subseteq Versions
  BY DEF Successors, Stored
<1>2. \A w \in S : rel'[w] = Edited(rel[w], rel[w].status, new, rel[w].released_at)
  BY <1>1 DEF Renamed, Relink, Relinked
<1>3. new \notin S => rel'[new].status = rel[old].status
  BY <1>1 DEF Renamed, RenamedRecord, Edited
<1>4. rel'[old] = AbsentRecord
  BY <1>1 DEF Renamed
<1>5. \A w \in Versions \ (S \cup {old, new}) : rel'[w] = rel[w]
  BY DEF Renamed
<1>6. ASSUME NEW w \in S
      PROVE  rel'[w].status = rel[w].status /\ rel'[w].previous_version = new
  <2>1. rel'[w] = Edited(rel[w], rel[w].status, new, rel[w].released_at)
    BY <1>2
  <2>2. QED
    BY <2>1 DEF Edited
<1>7. rel'[old].status = "absent"
  BY <1>4 DEF AbsentRecord
<1>8. QED
  BY <1>3, <1>5, <1>6, <1>7

\* What a repair leaves: the statuses are those it found.
LEMMA RepairEffect ==
    ASSUME IInv, RepairReleaseChain
    PROVE  /\ \A w \in Versions : rel'[w].status = rel[w].status
           /\ \E S : Log("release.chain_repaired", None, S)
<1> DEFINE changed == {r \in Chain : rel[r].previous_version # ExpectedPrevious(r)}
<1>1. /\ rel' = [w \in Versions |->
                  IF w \in changed THEN Relinked(rel[w], ExpectedPrevious(w))
                  ELSE rel[w]]
      /\ Log("release.chain_repaired", None, changed)
  BY DEF RepairReleaseChain
<1> HIDE DEF changed
<1>2. \A w \in Versions : rel'[w].status = rel[w].status
  BY <1>1 DEF Relinked, Edited
<1>3. QED
  BY <1>1, <1>2

-----------------------------------------------------------------------------
LEMMA CancelsRelink ==
    ASSUME IInv, Next, NEW v \in Versions
    PROVE  Relinks(v)
<1>1. SUFFICES ASSUME Completed("release.canceled"), last'.version = v
               PROVE  /\ Successors(v)' = {}
                      /\ \A s \in Successors(v) :
                            /\ rel'[s].previous_version \in Stored'
                            /\ rel'[rel'[s].previous_version].status # "canceled"
  BY DEF Relinks
<1>2. LogTypes
  BY DEF IInv
<1>3. ASSUME SingleStep
      PROVE  FALSE
  <2>1. PICK w \in Versions, kind \in SingleKinds : Log(kind, w, {w})
    BY <1>3, SingleWritesOne DEF OneWritten
  <2>2. kind = "release.canceled"
    BY <1>1, <1>2, <2>1, LogCompletes
  <2>3. QED
    BY <2>1, <2>2 DEF SingleKinds
<1>4. ASSUME NEW old \in Versions, NEW new \in Versions
      PROVE  ~RenameRelease(old, new)
  BY <1>1, <1>2, LogCompletes DEF RenameRelease
<1>5. ASSUME NEW old \in Versions, NEW new \in Versions
      PROVE  ~RenameReleaseFails(old, new)
  BY <1>1 DEF RenameReleaseFails, Completed
<1>6. ~RepairReleaseChain
  BY <1>1, <1>2, RepairEffect, LogCompletes
<1>7. CancelRelease(v)
  BY <1>1, <1>2, <1>3, <1>4, <1>5, <1>6, NextKinds, LogCompletes DEF CancelRelease
<1>8. PICK t \in RelinkTargets(v) \cup {None} :
        /\ Successors(v) = {} <=> t = None
        /\ rel'[v].status = "canceled"
        /\ \A w \in Versions \ {v} :
            /\ rel'[w].status = rel[w].status
            /\ rel'[w].previous_version =
                  IF w \in Successors(v) THEN t ELSE rel[w].previous_version
  BY <1>7, CancelEffect
<1>9. t # None => t \in Stored /\ rel[t].status # "canceled" /\ ~SameRelease(t, v)
  BY <1>8 DEF RelinkTargets
<1>10. \A s \in Successors(v) : t # None /\ s \in Versions \ {v}
  BY <1>8 DEF Successors, Stored
<1>11. t # None => t # v
  BY <1>9 DEF SameRelease
<1>12. ASSUME NEW s \in Successors(v)
       PROVE  /\ rel'[s].previous_version \in Stored'
              /\ rel'[rel'[s].previous_version].status # "canceled"
  <2>1. rel'[s].previous_version = t /\ t \in Stored /\ t \in Versions \ {v}
    BY <1>8, <1>9, <1>10, <1>11 DEF Stored
  <2>2. rel'[t].status = rel[t].status
    BY <1>8, <2>1
  <2>3. QED
    BY <1>9, <1>10, <2>1, <2>2 DEF Stored
<1>13. ASSUME NEW w \in Successors(v)'
       PROVE  FALSE
  <2>1. w \in Versions \ {v} /\ rel'[w].status # "absent"
    BY <1>13 DEF Successors, Stored
  <2>2. /\ rel'[w].previous_version # None
        /\ SameRelease(rel'[w].previous_version, v)
    BY <1>13 DEF Successors, PointsAt
  <2>3. CASE w \in Successors(v)
    BY <1>8, <1>9, <1>10, <2>1, <2>2, <2>3
  <2>4. CASE w \notin Successors(v)
    <3>1. rel[w].previous_version = rel'[w].previous_version /\ w \in Stored
      BY <1>8, <2>1, <2>4 DEF Stored
    <3>2. QED
      BY <2>1, <2>2, <2>4, <3>1 DEF Successors, PointsAt
  <2>5. QED
    BY <2>3, <2>4
<1>14. QED
  BY <1>12, <1>13

LEMMA RenameTombstones ==
    ASSUME IInv, NEW old \in Stored, NEW new \in Versions, old # new,
           NEW prev, NEW date, NEW S \in SUBSET Successors(old),
           rel' = Renamed(old, new, RenamedRecord(old, prev, date), S),
           NEW v \in Stored, rel[v].status = "canceled",
           rel'[v].status \notin {"canceled", "absent"}
    PROVE  \E o \in Stored \ Stored' : rel'[v].status = rel[o].status
<1>1. rel'[old].status = "absent" /\ old \in Stored \ Stored'
  BY RenameEffect DEF Stored
<1>2. v \notin S /\ v # old
  BY <1>1, RenameEffect
<1>3. v \in Versions
  BY DEF Stored
<1>4. v = new
  BY <1>2, <1>3, RenameEffect
<1>5. rel'[v].status = rel[old].status
  BY <1>2, <1>4, RenameEffect
<1>6. QED
  BY <1>1, <1>5

LEMMA CanceledStays ==
    ASSUME IInv, Next, NEW v \in Stored
    PROVE  StaysCanceled(v)
<1>1. SUFFICES ASSUME rel[v].status = "canceled", rel'[v].status \notin {"canceled", "absent"}
               PROVE  \/ Completed("release.restored") /\ last'.version = v
                      \/ \E old \in Stored \ Stored' : rel'[v].status = rel[old].status
  BY DEF StaysCanceled
<1>2. LogTypes /\ Records /\ v \in Versions
  BY DEF IInv, Stored
<1>3. CASE SingleStep
  <2>1. PICK w \in Versions, kind \in SingleKinds : OneWritten(w, kind)
    BY <1>3, SingleWritesOne
  <2>2. w = v
    BY <1>1, <1>2, <2>1 DEF OneWritten, Records
  <2>3. kind = "release.restored" /\ Log(kind, v, {v})
    BY <1>1, <2>1, <2>2 DEF OneWritten
  <2>4. QED
    BY <1>2, <2>3, LogCompletes
<1>4. ASSUME NEW w \in Versions, CancelRelease(w)
      PROVE  FALSE
  BY <1>1, <1>2, <1>4, CancelEffect
<1>5. ASSUME NEW old \in Versions, NEW new \in Versions, RenameRelease(old, new)
      PROVE  \E o \in Stored \ Stored' : rel'[v].status = rel[o].status
  <2>1. PICK prev, date :
          rel' = Renamed(old, new, RenamedRecord(old, prev, date), Successors(old))
    BY <1>5 DEF RenameRelease
  <2>2. old \in Stored /\ old # new
    BY <1>5 DEF RenameRelease
  <2>3. QED
    BY <1>1, <2>1, <2>2, RenameTombstones
<1>6. ASSUME NEW old \in Versions, NEW new \in Versions, RenameReleaseFails(old, new)
      PROVE  \E o \in Stored \ Stored' : rel'[v].status = rel[o].status
  <2>1. PICK prev, date :
          rel' = Renamed(old, new, RenamedRecord(old, prev, date),
                         {s \in Successors(old) : ListedBefore(s, new)})
    BY <1>6 DEF RenameReleaseFails
  <2>2. old \in Stored /\ old # new
    BY <1>6 DEF RenameReleaseFails
  <2>3. QED
    BY <1>1, <2>1, <2>2, RenameTombstones
<1>7. CASE RepairReleaseChain
  BY <1>1, <1>2, <1>7, RepairEffect
<1>8. QED
  BY <1>3, <1>4, <1>5, <1>6, <1>7, NextKinds

\* A record that matches p and stays stored goes on matching it.
LEMMA StoredMatches ==
    ASSUME NEW p, NEW q \in Matches(p), q \in Stored'
    PROVE  \E w \in Stored' : SameRelease(w, p)
BY DEF Matches

LEMMA RenameLinks ==
    ASSUME IInv, NEW old \in Versions, NEW new \in Versions, RenameRelease(old, new),
           NEW r \in Stored \cap Stored', rel[r].previous_version # None,
           rel'[r].previous_version = rel[r].previous_version,
           NEW q \in Matches(rel[r].previous_version)
    PROVE  \E w \in Stored' : SameRelease(w, rel[r].previous_version)
<1> DEFINE p == rel[r].previous_version
<1>1. PICK prev, date :
        rel' = Renamed(old, new, RenamedRecord(old, prev, date), Successors(old))
  BY DEF RenameRelease
<1>2. old \in Stored /\ old # new
  BY DEF RenameRelease
<1>3. /\ rel'[old].status = "absent"
      /\ \A w \in Successors(old) : /\ rel'[w].status = rel[w].status
                                    /\ rel'[w].previous_version = new
      /\ new \notin Successors(old) => rel'[new].status = rel[old].status
      /\ \A w \in Versions \ (Successors(old) \cup {old, new}) : rel'[w] = rel[w]
  BY <1>1, <1>2, RenameEffect
<1>4. q \in Stored /\ SameRelease(q, p)
  BY DEF Matches
<1>5. \A w \in Stored \ {old} : w \in Stored'
  BY <1>2, <1>3 DEF Stored
<1>6. new \in Stored'
  <2>1. CASE new \in Successors(old)
    BY <1>3, <2>1 DEF Successors, Stored
  <2>2. CASE new \notin Successors(old)
    BY <1>2, <1>3, <2>2 DEF Stored
  <2>3. QED
    BY <2>1, <2>2
<1>7. CASE q # old
  BY <1>4, <1>5, <1>7
<1>8. CASE q = old
  <2>1. r # old
    BY <1>3 DEF Stored
  <2>2. r \in Successors(old)
    BY <1>4, <1>8, <2>1 DEF Successors, PointsAt, SameRelease
  <2>3. p = new
    BY <1>3, <2>2
  <2>4. QED
    BY <1>6, <2>3 DEF SameRelease
<1>9. QED
  BY <1>7, <1>8

LEMMA LinkKept ==
    ASSUME IInv, Next, NEW r \in Stored \cap Stored'
    PROVE  LinkStaysResolved(r)
<1> DEFINE p == rel[r].previous_version
<1>1. SUFFICES ASSUME events' # events, p # None, rel'[r].previous_version = p,
                      NEW q \in Matches(p)
               PROVE  \E w \in Stored' : SameRelease(w, p)
  BY DEF LinkStaysResolved, Matches, SameRelease
<1>2. LogTypes /\ Records /\ q \in Stored /\ q \in Versions
  BY DEF IInv, Matches, Stored
<1>3. CASE q \in Stored'
  BY <1>3, StoredMatches
<1>4. ASSUME NEW old \in Versions, NEW new \in Versions, RenameRelease(old, new)
      PROVE  \E w \in Stored' : SameRelease(w, p)
  BY <1>1, <1>4, RenameLinks
<1>5. CASE SingleStep
  <2>1. PICK v \in Versions, kind \in SingleKinds : OneWritten(v, kind)
    BY <1>5, SingleWritesOne
  <2>2. q \in Stored'
    BY <1>2, <2>1 DEF OneWritten, Records, Stored
  <2>3. QED
    BY <1>3, <2>2
<1>6. ASSUME NEW v \in Versions, CancelRelease(v)
      PROVE  q \in Stored'
  BY <1>2, <1>6, CancelEffect DEF Stored
<1>7. CASE RepairReleaseChain
  <2>1. q \in Stored'
    BY <1>2, <1>7, RepairEffect DEF Stored
  <2>2. QED
    BY <1>3, <2>1
<1>8. ASSUME NEW old \in Versions, NEW new \in Versions
      PROVE  ~RenameReleaseFails(old, new)
  BY <1>1 DEF RenameReleaseFails
<1>9. QED
  BY <1>3, <1>4, <1>5, <1>6, <1>7, <1>8, NextKinds

-----------------------------------------------------------------------------
(* The line of the releases.  A ledger has finitely many records, so its    *)
(* chain has a first and, before each release, a last one.                  *)

FInv == IInv /\ IsFiniteSet(Stored)

LEMMA FiniteInit == Init => FInv
<1> SUFFICES ASSUME Init PROVE FInv
  OBVIOUS
<1>1. Stored = {}
  BY DEF Init, Stored, AbsentRecord
<1>2. QED
  BY <1>1, InitInv, FS_EmptySet DEF FInv

LEMMA RenameStored ==
    ASSUME IInv, NEW old \in Stored, NEW new \in Versions, old # new,
           NEW prev, NEW date, NEW S \in SUBSET Successors(old),
           rel' = Renamed(old, new, RenamedRecord(old, prev, date), S)
    PROVE  Stored' \subseteq Stored \cup {new}
BY RenameEffect DEF Stored, Successors

LEMMA FiniteStep == FInv /\ [Next]_vars => FInv'
<1> SUFFICES ASSUME FInv, [Next]_vars PROVE FInv'
  OBVIOUS
<1>1. IInv /\ IInv' /\ Records
  BY NextInv DEF FInv, IInv
<1>2. SUFFICES \E v : Stored' \subseteq Stored \cup {v}
  <2>1. \A v : IsFiniteSet(Stored \cup {v})
    BY FS_AddElement DEF FInv
  <2>2. QED
    BY <1>1, <1>2, <2>1, FS_Subset DEF FInv
<1>3. CASE SingleStep
  <2>1. PICK v \in Versions, kind \in SingleKinds : OneWritten(v, kind)
    BY <1>1, <1>3, SingleWritesOne
  <2>2. Stored' \subseteq Stored \cup {v}
    BY <1>1, <2>1 DEF OneWritten, Records, Stored
  <2>3. QED
    BY <2>2
<1>4. ASSUME NEW v \in Versions, CancelRelease(v)
      PROVE  Stored' \subseteq Stored \cup {v}
  BY <1>1, <1>4, CancelEffect DEF Stored
<1>5. ASSUME NEW old \in Versions, NEW new \in Versions, RenameRelease(old, new)
      PROVE  Stored' \subseteq Stored \cup {new}
  <2>1. PICK prev, date :
          rel' = Renamed(old, new, RenamedRecord(old, prev, date), Successors(old))
    BY <1>5 DEF RenameRelease
  <2>2. old \in Stored /\ old # new
    BY <1>5 DEF RenameRelease
  <2>3. QED
    BY <1>1, <2>1, <2>2, RenameStored
<1>6. ASSUME NEW old \in Versions, NEW new \in Versions, RenameReleaseFails(old, new)
      PROVE  Stored' \subseteq Stored \cup {new}
  <2>1. PICK prev, date :
          rel' = Renamed(old, new, RenamedRecord(old, prev, date),
                         {s \in Successors(old) : ListedBefore(s, new)})
    BY <1>6 DEF RenameReleaseFails
  <2>2. old \in Stored /\ old # new
    BY <1>6 DEF RenameReleaseFails
  <2>3. QED
    BY <1>1, <2>1, <2>2, RenameStored
<1>7. CASE RepairReleaseChain
  BY <1>1, <1>7, RepairEffect DEF Stored
<1>8. CASE UNCHANGED vars
  BY <1>8 DEF vars, Stored
<1>9. QED
  BY <1>3, <1>4, <1>5, <1>6, <1>7, <1>8, NextKinds

-----------------------------------------------------------------------------
(* The orders.                                                               *)

\* No two versions share a place in the sort key (semver is None, semver, version).
LEMMA SemverOrder ==
    /\ \A v \in Versions : ~SemverBefore(v, v)
    /\ \A v, w \in Versions : v # w => SemverBefore(v, w) \/ SemverBefore(w, v)
    /\ \A u, v, w \in Versions :
            SemverBefore(u, v) /\ SemverBefore(v, w) => SemverBefore(u, w)
<1> USE VersionAssumption DEF SemverBefore, BothSemver
<1>1. \A v \in Versions : Semver[v] \in Nat /\ NameOrder[v] \in Nat
  OBVIOUS
<1>2. ASSUME NEW v \in Versions PROVE ~SemverBefore(v, v)
  BY <1>1
<1>3. ASSUME NEW v \in Versions, NEW w \in Versions, v # w
      PROVE  SemverBefore(v, w) \/ SemverBefore(w, v)
  <2>1. NameOrder[v] # NameOrder[w]
    BY <1>3
  <2>2. QED
    BY <1>1, <2>1
<1>4. ASSUME NEW u \in Versions, NEW v \in Versions, NEW w \in Versions,
             SemverBefore(u, v), SemverBefore(v, w)
      PROVE  SemverBefore(u, w)
  BY <1>1, <1>4
<1>5. QED
  BY <1>2, <1>3, <1>4

LEMMA ChainTypes ==
    ASSUME Records, NEW r \in Chain
    PROVE  r \in Versions /\ r \in Stored /\ rel[r].released_at \in Nat
<1>1. r \in Versions /\ r \in Stored
  BY DEF Chain, Stored
<1>2. rel[r] \in ReleaseRecord
  BY <1>1 DEF Records
<1>3. rel[r].released_at \in Dates \cup {NoDate}
  BY <1>2 DEF ReleaseRecord
<1>4. Dates \cup {NoDate} \subseteq Nat
  BY InputAssumption DEF NoDate
<1>5. QED
  BY <1>1, <1>3, <1>4

LEMMA ReleasedOrder ==
    ASSUME Records
    PROVE  /\ \A v \in Chain : ~ReleasedBefore(v, v)
           /\ \A v, w \in Chain : v # w => ReleasedBefore(v, w) \/ ReleasedBefore(w, v)
           /\ \A u, v, w \in Chain :
                    ReleasedBefore(u, v) /\ ReleasedBefore(v, w) => ReleasedBefore(u, w)
<1>1. \A r \in Chain : r \in Versions /\ rel[r].released_at \in Nat
  BY ChainTypes
<1> USE DEF ReleasedBefore, NoDate
<1>2. ASSUME NEW v \in Chain PROVE ~ReleasedBefore(v, v)
  BY <1>1, SemverOrder
<1>3. ASSUME NEW v \in Chain, NEW w \in Chain, v # w
      PROVE  ReleasedBefore(v, w) \/ ReleasedBefore(w, v)
  <2>1. SemverBefore(v, w) \/ SemverBefore(w, v)
    BY <1>1, <1>3, SemverOrder
  <2>2. QED
    BY <1>1, <2>1
<1>4. ASSUME NEW u \in Chain, NEW v \in Chain, NEW w \in Chain,
             ReleasedBefore(u, v), ReleasedBefore(v, w)
      PROVE  ReleasedBefore(u, w)
  <2>1. SemverBefore(u, v) /\ SemverBefore(v, w) => SemverBefore(u, w)
    BY <1>1, SemverOrder
  <2>2. QED
    BY <1>1, <1>4, <2>1
<1>5. QED
  BY <1>2, <1>3, <1>4

\* The sort key of chain repair orders the releases in one line.
LEMMA ChainOrder ==
    ASSUME Records
    PROVE  /\ \A v \in Chain : ~ChainBefore(v, v)
           /\ \A v, w \in Chain : v # w => ChainBefore(v, w) \/ ChainBefore(w, v)
           /\ \A u, v, w \in Chain :
                    ChainBefore(u, v) /\ ChainBefore(v, w) => ChainBefore(u, w)
<1>1. Chain \subseteq Versions
  BY ChainTypes
<1> USE DEF ChainBefore
<1>2. ASSUME NEW v \in Chain PROVE ~ChainBefore(v, v)
  BY <1>1, SemverOrder, ReleasedOrder
<1>3. ASSUME NEW v \in Chain, NEW w \in Chain, v # w
      PROVE  ChainBefore(v, w) \/ ChainBefore(w, v)
  <2>1. /\ SemverBefore(v, w) \/ SemverBefore(w, v)
        /\ ReleasedBefore(v, w) \/ ReleasedBefore(w, v)
    BY <1>1, <1>3, SemverOrder, ReleasedOrder
  <2>2. QED
    BY <2>1
<1>4. ASSUME NEW u \in Chain, NEW v \in Chain, NEW w \in Chain,
             ChainBefore(u, v), ChainBefore(v, w)
      PROVE  ChainBefore(u, w)
  <2>1. /\ SemverBefore(u, v) /\ SemverBefore(v, w) => SemverBefore(u, w)
        /\ ReleasedBefore(u, v) /\ ReleasedBefore(v, w) => ReleasedBefore(u, w)
    BY <1>1, SemverOrder, ReleasedOrder
  <2>2. QED
    BY <1>4, <2>1
<1>5. QED
  BY <1>2, <1>3, <1>4

LEMMA ChainFinite == ASSUME FInv PROVE IsFiniteSet(Chain)
<1>1. Chain \subseteq Stored
  BY DEF Chain
<1>2. QED
  BY <1>1, FS_Subset DEF FInv

\* Some of the releases: one is the first of them, one the last.
LEMMA FirstOfChain ==
    ASSUME FInv, NEW S \in SUBSET Chain, S # {}
    PROVE  \E r \in S : \A s \in S : ~ChainBefore(s, r)
<1> DEFINE Before(r) == {s \in S : ChainBefore(s, r)}
           All == {Before(r) : r \in S}
<1>1. IsFiniteSet(S) /\ Records
  BY ChainFinite, FS_Subset DEF FInv, IInv
<1>2. \A r \in S : Before(r) \in FiniteSubsetsOf(S)
  <2>1. \A r \in S : Before(r) \in SUBSET S
    OBVIOUS
  <2>2. \A r \in S : IsFiniteSet(Before(r))
    BY <1>1, <2>1, FS_Subset
  <2>3. QED
    BY <2>1, <2>2 DEF FiniteSubsetsOf
<1>3. All \subseteq FiniteSubsetsOf(S) /\ All # {}
  BY <1>2
<1>4. PICK B \in All : \A C \in All : ~(<<C, B>> \in StrictSubsetOrdering(S))
  BY <1>3, FS_StrictSubsetOrderingWellFounded, WFMin
<1>5. PICK r \in S : B = Before(r)
  BY <1>4
<1>6. ASSUME NEW s \in S, ChainBefore(s, r) PROVE FALSE
  <2>1. Before(s) \subseteq Before(r)
    BY <1>1, <1>6, ChainOrder
  <2>2. s \in Before(r) /\ s \notin Before(s)
    BY <1>1, <1>6, ChainOrder
  <2>3. <<Before(s), B>> \in StrictSubsetOrdering(S)
    BY <1>5, <2>1, <2>2 DEF StrictSubsetOrdering
  <2>4. QED
    BY <1>4, <2>3
<1>7. QED
  BY <1>6

LEMMA LastOfChain ==
    ASSUME FInv, NEW S \in SUBSET Chain, S # {}
    PROVE  \E r \in S : \A s \in S : ~ChainBefore(r, s)
<1> DEFINE After(r) == {s \in S : ChainBefore(r, s)}
           All == {After(r) : r \in S}
<1>1. IsFiniteSet(S) /\ Records
  BY ChainFinite, FS_Subset DEF FInv, IInv
<1>2. \A r \in S : After(r) \in FiniteSubsetsOf(S)
  <2>1. \A r \in S : After(r) \in SUBSET S
    OBVIOUS
  <2>2. \A r \in S : IsFiniteSet(After(r))
    BY <1>1, <2>1, FS_Subset
  <2>3. QED
    BY <2>1, <2>2 DEF FiniteSubsetsOf
<1>3. All \subseteq FiniteSubsetsOf(S) /\ All # {}
  BY <1>2
<1>4. PICK A \in All : \A C \in All : ~(<<C, A>> \in StrictSubsetOrdering(S))
  BY <1>3, FS_StrictSubsetOrderingWellFounded, WFMin
<1>5. PICK r \in S : A = After(r)
  BY <1>4
<1>6. ASSUME NEW s \in S, ChainBefore(r, s) PROVE FALSE
  <2>1. After(s) \subseteq After(r)
    BY <1>1, <1>6, ChainOrder
  <2>2. s \in After(r) /\ s \notin After(s)
    BY <1>1, <1>6, ChainOrder
  <2>3. <<After(s), A>> \in StrictSubsetOrdering(S)
    BY <1>5, <2>1, <2>2 DEF StrictSubsetOrdering
  <2>4. QED
    BY <1>4, <2>3
<1>7. QED
  BY <1>6

\* The predecessor that repair computes is the release right before, or there is
\* none and the release is the first.
LEMMA ExpectedPreviousIs ==
    ASSUME FInv, NEW r \in Chain
    PROVE  LET p == ExpectedPrevious(r) IN
           \/ p = None /\ \A q \in Chain : ~ChainBefore(q, r)
           \/ /\ p \in Chain /\ p # None /\ ChainBefore(p, r)
              /\ \A q \in Chain : ~(ChainBefore(p, q) /\ ChainBefore(q, r))
<1>1. Records /\ None \notin Versions
  BY VersionAssumption DEF FInv, IInv
<1> DEFINE earlier == {q \in Chain : ChainBefore(q, r)}
<1>2. CASE earlier = {}
  <2>1. ImmediatelyBefore(r) = {}
    BY <1>2 DEF ImmediatelyBefore
  <2>2. QED
    BY <1>2, <2>1 DEF ExpectedPrevious
<1>3. CASE earlier # {}
  <2>1. PICK p \in earlier : \A q \in earlier : ~ChainBefore(p, q)
    BY <1>3, LastOfChain
  <2>2. p \in ImmediatelyBefore(r)
    BY <2>1 DEF ImmediatelyBefore
  <2>3. ExpectedPrevious(r) \in ImmediatelyBefore(r)
    BY <2>2 DEF ExpectedPrevious
  <2>4. ExpectedPrevious(r) \in Versions
    BY <1>1, <2>3, ChainTypes DEF ImmediatelyBefore
  <2>5. QED
    BY <1>1, <2>3, <2>4 DEF ImmediatelyBefore
<1>4. QED
  BY <1>2, <1>3

\* What a repair leaves in each release, the canceled ones untouched.
LEMMA RepairLinks ==
    ASSUME FInv, RepairReleaseChain
    PROVE  /\ Chain' = Chain /\ Stored' = Stored
           /\ \A r \in Chain : rel'[r].previous_version = ExpectedPrevious(r)
<1> DEFINE changed == {r \in Chain : rel[r].previous_version # ExpectedPrevious(r)}
<1>1. rel' = [w \in Versions |->
                  IF w \in changed THEN Relinked(rel[w], ExpectedPrevious(w))
                  ELSE rel[w]]
  BY DEF RepairReleaseChain
<1>2. \A w \in Versions : rel'[w].status = rel[w].status
  BY RepairEffect DEF FInv
<1>3. Chain' = Chain /\ Stored' = Stored
  BY <1>2 DEF Chain, Stored
<1>4. ASSUME NEW r \in Chain
      PROVE  rel'[r].previous_version = ExpectedPrevious(r)
  <2>1. r \in Versions
    BY ChainTypes DEF FInv, IInv
  <2>2. CASE r \in changed
    <3>1. rel'[r] = Edited(rel[r], rel[r].status, ExpectedPrevious(r), rel[r].released_at)
      BY <1>1, <2>1, <2>2 DEF Relinked
    <3>2. QED
      BY <3>1 DEF Edited
  <2>3. CASE r \notin changed
    BY <1>1, <2>1, <2>3
  <2>4. QED
    BY <2>2, <2>3
<1>5. QED
  BY <1>3, <1>4

\* Where the predecessors are those that repair computes, the check finds none of
\* the problems that repair is for.
Linked(r) ==
    r \in Chain /\ (rel[r].previous_version # None => rel[r].previous_version \in Chain)
        => (LinkProblems(r) \cup RootProblems(r)) \cap Repairable = {}

LEMMA LinkedProblems == \A s \in Versions : Linked(s)
<1> SUFFICES ASSUME NEW r \in Chain,
                    rel[r].previous_version # None => rel[r].previous_version \in Chain
             PROVE  (LinkProblems(r) \cup RootProblems(r)) \cap Repairable = {}
  BY DEF Linked
<1> DEFINE p == rel[r].previous_version
<1>1. CASE p = None
  BY <1>1 DEF LinkProblems, RootProblems
<1>2. CASE p # None
  <2>1. p \in Stored /\ rel[p].status # "canceled"
    BY <1>2 DEF Chain
  <2>2. Resolve(p) = {p}
    BY <2>1 DEF Resolve
  <2>3. OrderProblems(p, r) \subseteq {"ambiguous_previous_order", "future_previous"}
    BY <2>1 DEF OrderProblems
  <2>4. LinkProblems(r) \subseteq
            {"self_previous", "ambiguous_previous_order", "future_previous"}
    BY <1>2, <2>2, <2>3 DEF LinkProblems
  <2>5. RootProblems(r) \subseteq {"root_has_previous"}
    BY <1>2, <2>2 DEF RootProblems
  <2>6. QED
    BY <2>4, <2>5 DEF Repairable
<1>3. QED
  BY <1>1, <1>2

\* Repair, from any records, leaves one line.
Linear ==
    LET prev(r) == rel'[r].previous_version IN
    /\ \A r \in Versions :
        (r \in Chain => (LinkProblems(r) \cup RootProblems(r)) \cap Repairable = {})'
    /\ \A r, s \in Chain' : prev(r) = prev(s) => r = s
    /\ \A S \in (SUBSET Chain') \ {{}} : \E r \in S : prev(r) \notin S

LEMMA RepairsLinear ==
    ASSUME FInv, RepairReleaseChain
    PROVE  Linear
<1> DEFINE prev(r) == rel'[r].previous_version
<1>1. Records /\ None \notin Versions /\ Chain \subseteq Versions
  BY ChainTypes, VersionAssumption DEF FInv, IInv
<1>2. Chain' = Chain /\ \A r \in Chain : prev(r) = ExpectedPrevious(r)
  BY RepairLinks
<1>3. ASSUME NEW r \in Chain
      PROVE  \/ prev(r) = None /\ \A q \in Chain : ~ChainBefore(q, r)
             \/ /\ prev(r) \in Chain /\ prev(r) # None /\ ChainBefore(prev(r), r)
                /\ \A q \in Chain : ~(ChainBefore(prev(r), q) /\ ChainBefore(q, r))
  BY <1>2, ExpectedPreviousIs
<1>4. ASSUME NEW r \in Versions
      PROVE  (r \in Chain => (LinkProblems(r) \cup RootProblems(r)) \cap Repairable = {})'
  <2>1. (\A s \in Versions : Linked(s))'
    BY LinkedProblems, PTL
  <2>2. Linked(r)'
    BY <2>1
  <2>3. (r \in Chain
            => (rel[r].previous_version # None => rel[r].previous_version \in Chain))'
    BY <1>2, <1>3
  <2>4. QED
    BY <2>2, <2>3 DEF Linked
<1> HIDE DEF prev
<1>5. ASSUME NEW r \in Chain, NEW s \in Chain, prev(r) = prev(s)
      PROVE  r = s
  <2>1. r # s => ChainBefore(r, s) \/ ChainBefore(s, r)
    BY <1>1, ChainOrder
  <2>2. QED
    BY <1>3, <1>5, <2>1
<1>6. ASSUME NEW S \in (SUBSET Chain) \ {{}}
      PROVE  \E r \in S : prev(r) \notin S
  <2>1. PICK r \in S : \A s \in S : ~ChainBefore(s, r)
    <3>1. S \in SUBSET Chain /\ S # {}
      OBVIOUS
    <3>2. QED
      BY <3>1, FirstOfChain
  <2>2. prev(r) \notin S
    BY <1>1, <1>3, <2>1
  <2>3. QED
    BY <2>2
<1>7. QED
  BY <1>2, <1>4, <1>5, <1>6 DEF Linear, prev

\* chain_repaired is the event of a repair alone.
LEMMA RepairCompletes ==
    ASSUME IInv, Next, Completed("release.chain_repaired")
    PROVE  RepairReleaseChain
<1>1. LogTypes
  BY DEF IInv
<1>2. ASSUME SingleStep PROVE FALSE
  <2>1. PICK w \in Versions, kind \in SingleKinds : Log(kind, w, {w})
    BY <1>2, SingleWritesOne DEF OneWritten
  <2>2. kind = "release.chain_repaired"
    BY <1>1, <2>1, LogCompletes
  <2>3. QED
    BY <2>1, <2>2 DEF SingleKinds
<1>3. ASSUME NEW v \in Versions PROVE ~CancelRelease(v)
  BY <1>1, LogCompletes DEF CancelRelease
<1>4. ASSUME NEW old \in Versions, NEW new \in Versions PROVE ~RenameRelease(old, new)
  BY <1>1, LogCompletes DEF RenameRelease
<1>5. ASSUME NEW old \in Versions, NEW new \in Versions PROVE ~RenameReleaseFails(old, new)
  BY DEF RenameReleaseFails, Completed
<1>6. QED
  BY <1>2, <1>3, <1>4, <1>5, NextKinds

-----------------------------------------------------------------------------
\* cancel_release looks for every successor, under all spellings of the release
\* it cancels, and relinks all of them to a release that stays.
THEOREM CancelsAlwaysRelink == Spec => CancelRelinks
<1>1. IInv /\ [Next]_vars => [\A v \in Versions : Relinks(v)]_vars
  BY CancelsRelink
<1>2. QED
  BY <1>1, InitInv, NextInv, PTL DEF Spec, CancelRelinks

\* The status checks of all commands together leave restore_release the only
\* way out of canceled.
THEOREM TombstonesStay == Spec => TombstonesKept
<1>1. IInv /\ [Next]_vars => [\A v \in Stored : StaysCanceled(v)]_vars
  BY CanceledStays
<1>2. QED
  BY <1>1, InitInv, NextInv, PTL DEF Spec, TombstonesKept

\* The successors that rename and cancel rewrite are all whose link would be
\* lost, whatever aliases are stored.
THEOREM LinksStay == Spec => LinksStayResolved
<1>1. IInv /\ [Next]_vars => [\A r \in Stored \cap Stored' : LinkStaysResolved(r)]_vars
  BY LinkKept
<1>2. QED
  BY <1>1, InitInv, NextInv, PTL DEF Spec, LinksStayResolved

\* chain repair makes one line of the active releases, from whatever records,
\* aliases, dates and predecessors it finds: one first release, no release named
\* twice as predecessor, no cycle, and nothing left for the check to repair.
THEOREM RepairsMakeALine == Spec => RepairLinearizes
<1>1. FInv /\ [Next]_vars => [Completed("release.chain_repaired") => Linear]_vars
  BY RepairCompletes, RepairsLinear DEF FInv
<1>2. QED
  BY <1>1, FiniteInit, FiniteStep, PTL DEF Spec, RepairLinearizes, Linear

-----------------------------------------------------------------------------
(* The variables of the import.                                            *)

ImportTypes ==
    /\ pending \subseteq Tagged
    /\ planned \in [Versions -> Versions \cup {None}]
    /\ ranging \in Tagged \cup {None} /\ earliest \in Tagged \cup {None}
    /\ smooth \in BOOLEAN /\ commands \in Nat

ImportIInv == IInv /\ ImportTypes

\* A planned predecessor is a version or none.
LEMMA PlannedPreviousType ==
    ASSUME NEW i
    PROVE  PlannedPrevious(i) \in Versions \cup {None}
<1>1. \A j : Owner(j) \subseteq Versions
  BY DEF Owner, FirstListed, Active, Matches, Stored
<1>2. UNION {Owner(j) : j \in Last(Preceding(i))} \subseteq Versions
  BY <1>1
<1>3. QED
  BY <1>2 DEF PlannedPrevious

\* What --version, --since and --until select is tagged.
LEMMA SelectionsType == \A selected \in Selections : selected \subseteq Tagged
BY DEF Selections

\* The predecessor that create_release is given or infers is one that create
\* may be given or infers.
LEMMA PreviousForImportType ==
    ASSUME ImportTypes, NEW v \in Tagged
    PROVE  /\ PreviousForImport(v) \subseteq InferredPrevious(v, TagDate[v]) \cup ExplicitPrevious
           /\ PreviousForImport(v) \subseteq Versions \cup {None}
<1>1. v \in Versions
  BY ImportAssumption
<1>2. CASE planned[v] = None
  BY <1>1, <1>2, InferredPreviousType DEF PreviousForImport
<1>3. CASE planned[v] # None
  <2>1. planned[v] \in Versions
    BY <1>1, <1>3 DEF ImportTypes
  <2>2. CanonicalPrevious(planned[v]) \subseteq ExplicitPrevious
    BY <2>1 DEF ExplicitPrevious
  <2>3. QED
    BY <1>3, <2>2, ExplicitPreviousType DEF PreviousForImport
<1>4. QED
  BY <1>2, <1>3

-----------------------------------------------------------------------------
(* Each step of an import is a step of ReleaseLifecycle.                   *)

\* The create call of an import is a release create.
LEMMA CreateImportedIsCreate ==
    ASSUME ImportTypes, CreateImported
    PROVE  \E v \in Versions, date \in Dates : CreateRelease(v, "released", date)
<1>1. PICK v \in First(pending) :
        \E prev \in PreviousForImport(v) :
            PersistNew(v, "released", prev, TagDate[v], "release.created")
  BY DEF CreateImported
<1>2. v \in Tagged /\ v \in Versions /\ TagDate[v] \in Dates
  BY ImportAssumption DEF First, ImportTypes
<1>3. Bounded
  BY DEF CreateImported
<1>4. CreateRelease(v, "released", TagDate[v])
  BY <1>1, <1>2, <1>3, PreviousForImportType DEF CreateRelease
<1>5. QED
  BY <1>2, <1>4

\* The second call, with the git range, is an update of another field.
LEMMA RangeImportedIsUpdate ==
    ASSUME IInv, ImportTypes, RangeImported
    PROVE  \E sel \in Versions : OnSelected(sel)
<1>1. ranging \in Versions
  BY ImportAssumption DEF RangeImported, ImportTypes
<1>2. PICK v \in Resolve(ranging) :
        SaveRelease(v, rel[v].status, rel[v].previous_version, rel[v].released_at,
                    "release.updated")
  BY DEF RangeImported
<1>3. v \in Stored /\ v \in Versions
  BY DEF Resolve, Stored
<1>4. rel[v].status \in RELEASE_STATUSES /\ rel[v].released_at \in Dates \cup {NoDate}
  BY <1>3 DEF IInv, Records, Stored, ReleaseRecord
<1>5. Bounded
  BY DEF RangeImported
<1>6. UpdateRelease(v, rel[v].status, rel[v].released_at, TRUE)
  BY <1>2, <1>3, <1>5 DEF UpdateRelease, GenericTransition, DateAllowed
<1>7. OnSelected(ranging)
  BY <1>2, <1>4, <1>6 DEF OnSelected
<1>8. QED
  BY <1>1, <1>7

LEMMA ImportStepRefines == ImportIInv /\ [ImportNext]_importVars => [Next]_vars
<1> SUFFICES ASSUME ImportIInv, [ImportNext]_importVars
             PROVE  [Next]_vars
  OBVIOUS
<1>1. ASSUME NEW selected \in Selections, BeginImport(selected)
      PROVE  UNCHANGED vars
  BY <1>1 DEF BeginImport
<1>2. CASE CreateImported
  <2>1. PICK v \in Versions, date \in Dates : CreateRelease(v, "released", date)
    BY <1>2, CreateImportedIsCreate DEF ImportIInv
  <2>2. "released" \in CreateStatuses
    BY ImportAssumption
  <2>3. QED
    BY <2>1, <2>2 DEF Next
<1>3. CASE RangeImported
  BY <1>3, RangeImportedIsUpdate DEF ImportIInv, Next
<1>4. CASE RangeRefused
  BY <1>4 DEF RangeRefused
<1>5. CASE ImportStops
  BY <1>5 DEF ImportStops
<1>6. CASE OtherCommand
  BY <1>6 DEF OtherCommand
<1>7. CASE UNCHANGED importVars
  BY <1>7 DEF importVars
<1>8. QED
  BY <1>1, <1>2, <1>3, <1>4, <1>5, <1>6, <1>7 DEF ImportNext

-----------------------------------------------------------------------------
LEMMA ImportInitInv == ImportInit => ImportIInv
<1> SUFFICES ASSUME ImportInit PROVE ImportIInv
  OBVIOUS
<1>1. IInv
  BY InitInv DEF ImportInit
<1>2. ImportTypes
  BY DEF ImportInit, ImportTypes, NoPlan
<1>3. QED
  BY <1>1, <1>2 DEF ImportIInv

LEMMA ImportTypesStep == ImportIInv /\ [ImportNext]_importVars => ImportTypes'
<1> SUFFICES ASSUME ImportTypes, [ImportNext]_importVars
             PROVE  ImportTypes'
  BY DEF ImportIInv
<1>1. ASSUME NEW selected \in Selections, BeginImport(selected)
      PROVE  ImportTypes'
  <2>1. selected \subseteq Tagged
    BY SelectionsType
  <2>2. pending' \subseteq Tagged /\ earliest' \in Tagged
    BY <1>1, <2>1 DEF BeginImport, Missing, First
  <2>3. planned' \in [Versions -> Versions \cup {None}]
    BY <1>1, PlannedPreviousType DEF BeginImport
  <2>4. smooth' \in BOOLEAN
    BY <1>1, Zenon DEF BeginImport
  <2>5. ranging' = ranging /\ commands' \in Nat
    BY <1>1 DEF BeginImport, ImportTypes
  <2>6. QED
    BY <2>2, <2>3, <2>4, <2>5 DEF ImportTypes
<1>2. CASE CreateImported
  <2>1. PICK v \in First(pending) :
        /\ pending' = pending \ {v}
        /\ ranging' = IF v = earliest \/ planned[v] # None THEN v ELSE None
    BY <1>2 DEF CreateImported
  <2>2. v \in Tagged
    BY DEF First, ImportTypes
  <2>3. QED
    BY <1>2, <2>1, <2>2 DEF CreateImported, ImportTypes
<1>3. CASE RangeImported
  BY <1>3 DEF RangeImported, ImportTypes
<1>4. CASE RangeRefused
  BY <1>4 DEF RangeRefused, ImportTypes
<1>5. CASE ImportStops
  BY <1>5 DEF ImportStops, Done, NoPlan, ImportTypes
<1>6. CASE OtherCommand
  <2>1. UNCHANGED import /\ commands' = commands + 1
    BY <1>6 DEF OtherCommand
  <2>2. smooth' \in BOOLEAN
    BY <1>6, Zenon DEF OtherCommand
  <2>3. QED
    BY <2>1, <2>2 DEF import, ImportTypes
<1>7. CASE UNCHANGED importVars
  BY <1>7 DEF importVars, import, ImportTypes
<1>8. QED
  BY <1>1, <1>2, <1>3, <1>4, <1>5, <1>6, <1>7 DEF ImportNext

LEMMA ImportStepInv == ImportIInv /\ [ImportNext]_importVars => ImportIInv'
<1> SUFFICES ASSUME ImportIInv, [ImportNext]_importVars
             PROVE  ImportIInv'
  OBVIOUS
<1>1. IInv'
  BY ImportStepRefines, NextInv DEF ImportIInv
<1>2. ImportTypes'
  BY ImportTypesStep
<1>3. QED
  BY <1>1, <1>2 DEF ImportIInv

-----------------------------------------------------------------------------
(* The line that a smooth import keeps.  While it runs alone, the records   *)
(* are released and dated, one of each identity, in one order of versions   *)
(* and dates; the releases still to come are behind them; and a predecessor *)
(* is planned for the very next release at most, which is the last record.  *)

AllReleased == \A r \in Stored : rel[r].status = "released" /\ rel[r].released_at # NoDate

OneSpelling == \A r, s \in Stored : SameRelease(r, s) => r = s

OneOrder ==
    \A r, s \in Stored : SemverBefore(r, s) => rel[r].released_at <= rel[s].released_at

PendingFollow ==
    /\ \A r \in Stored, i \in pending :
        SemverBefore(r, i) /\ rel[r].released_at <= TagDate[i] /\ ~SameRelease(r, i)
    /\ \A i, j \in pending : SemverBefore(i, j) => TagDate[i] <= TagDate[j]

IsLatest(p, S) == p \in S /\ \A r \in S \ {p} : SemverBefore(r, p)

PlanFits ==
    \A v \in pending :
        planned[v] # None => IsLatest(planned[v], Stored) /\ v \in First(pending)

OnLine == AllReleased /\ OneSpelling /\ OneOrder /\ PendingFollow /\ PlanFits /\ InLine

LineInv == ImportIInv /\ (smooth => OnLine)

-----------------------------------------------------------------------------
(* Where dates follow versions, repair orders by version.                   *)

RightBefore(S, r) ==
    {p \in S : SemverBefore(p, r) /\ ~\E q \in S : SemverBefore(p, q) /\ SemverBefore(q, r)}

VersionLine ==
    Records /\ AllReleased /\ OneOrder =>
        /\ Chain = Stored
        /\ \A r \in Stored : ImmediatelyBefore(r) = RightBefore(Stored, r)

LEMMA OrderedByVersion == VersionLine
<1> SUFFICES ASSUME Records, AllReleased, OneOrder
             PROVE  /\ Chain = Stored
                    /\ \A r \in Stored : ImmediatelyBefore(r) = RightBefore(Stored, r)
  BY DEF VersionLine
<1>1. Chain = Stored
  BY DEF Chain, AllReleased
<1>2. ASSUME NEW a \in Stored, NEW b \in Stored
      PROVE  ChainBefore(a, b) <=> SemverBefore(a, b)
  <2>1. a \in Versions /\ b \in Versions
    BY DEF Stored
  <2>2. rel[a].released_at \in Nat /\ rel[b].released_at \in Nat
    BY <1>1, ChainTypes
  <2>3. /\ SemverBefore(a, b) => rel[a].released_at <= rel[b].released_at
        /\ SemverBefore(b, a) => rel[b].released_at <= rel[a].released_at
    BY DEF OneOrder
  <2>4. /\ a # b => SemverBefore(a, b) \/ SemverBefore(b, a)
        /\ ~SemverBefore(a, a)
    BY <2>1, SemverOrder
  <2>5. ChainBefore(a, b) <=> ReleasedBefore(a, b)
    BY DEF ChainBefore, AllReleased
  <2>6. ReleasedBefore(a, b) <=>
            \/ rel[a].released_at < rel[b].released_at
            \/ rel[a].released_at = rel[b].released_at /\ SemverBefore(a, b)
    BY DEF ReleasedBefore, AllReleased
  <2> HIDE DEF SemverBefore
  <2>7. QED
    BY <2>2, <2>3, <2>4, <2>5, <2>6
<1>3. ASSUME NEW r \in Stored
      PROVE  ImmediatelyBefore(r) = RightBefore(Stored, r)
  BY <1>1, <1>2 DEF ImmediatelyBefore, RightBefore
<1>4. QED
  BY <1>1, <1>3

\* The release before, of those right before it.
OnePrevious(S) == IF S = {} THEN None ELSE CHOOSE p \in S : TRUE

ExpectedOne == \A r \in Versions : ExpectedPrevious(r) = OnePrevious(ImmediatelyBefore(r))

LEMMA ExpectedIsOne == ExpectedOne
BY DEF ExpectedOne, ExpectedPrevious, OnePrevious

\* The line is one of statuses, dates and predecessors, not of revisions.
LEMMA SameLine ==
    ASSUME Stored' = Stored, InLine,
           \A w \in Versions :
                /\ rel'[w].status = rel[w].status
                /\ rel'[w].previous_version = rel[w].previous_version
                /\ rel'[w].released_at = rel[w].released_at
    PROVE  InLine'
<1>1. Stored \subseteq Versions
  BY DEF Stored
<1>2. Chain' = Chain /\ Chain \subseteq Versions
  BY <1>1 DEF Chain
<1>3. ASSUME NEW a \in Chain, NEW b \in Chain
      PROVE  ChainBefore(a, b)' <=> ChainBefore(a, b)
  BY <1>2 DEF ChainBefore, ReleasedBefore
<1>4. ASSUME NEW r \in Chain
      PROVE  ImmediatelyBefore(r)' = ImmediatelyBefore(r)
  BY <1>2, <1>3 DEF ImmediatelyBefore
<1>5. ExpectedOne /\ ExpectedOne'
  BY ExpectedIsOne, PTL
<1>6. ASSUME NEW r \in Chain
      PROVE  ExpectedPrevious(r)' = ExpectedPrevious(r)
  <2>1. ExpectedPrevious(r) = OnePrevious(ImmediatelyBefore(r))
    BY <1>2, <1>5 DEF ExpectedOne
  <2>2. ExpectedPrevious(r)' = OnePrevious(ImmediatelyBefore(r)')
    BY <1>2, <1>5 DEF ExpectedOne, OnePrevious
  <2>3. QED
    BY <1>4, <2>1, <2>2
<1>7. QED
  BY <1>2, <1>6 DEF InLine

\* A release behind all others has the last of them right before it, and comes
\* between no two of them.
LEMMA LineGrows ==
    ASSUME NEW S \in SUBSET Versions, NEW v \in Versions \ S,
           \A r \in S : SemverBefore(r, v)
    PROVE  /\ \A r \in S : RightBefore(S \cup {v}, r) = RightBefore(S, r)
           /\ S = {} => RightBefore(S \cup {v}, v) = {}
           /\ \A p : IsLatest(p, S) => RightBefore(S \cup {v}, v) = {p}
<1>1. \A r \in S : ~SemverBefore(v, r)
  BY SemverOrder
<1>2. ~SemverBefore(v, v) /\ \A p \in Versions : ~SemverBefore(p, p)
  BY SemverOrder
<1>3. ASSUME NEW r \in S PROVE RightBefore(S \cup {v}, r) = RightBefore(S, r)
  BY <1>1 DEF RightBefore
<1>4. S = {} => RightBefore(S \cup {v}, v) = {}
  BY <1>2 DEF RightBefore
<1>5. ASSUME NEW p, IsLatest(p, S) PROVE RightBefore(S \cup {v}, v) = {p}
  <2>1. p \in S /\ p \in Versions /\ SemverBefore(p, v)
    BY <1>5 DEF IsLatest
  <2>2. \A q \in S : ~SemverBefore(p, q)
    BY <1>2, <1>5, <2>1, SemverOrder DEF IsLatest
  <2>3. p \in RightBefore(S \cup {v}, v)
    BY <1>2, <2>1, <2>2 DEF RightBefore
  <2>4. ASSUME NEW q \in RightBefore(S \cup {v}, v) PROVE q = p
    <3>1. q \in S /\ ~\E u \in S \cup {v} : SemverBefore(q, u) /\ SemverBefore(u, v)
      BY <1>2 DEF RightBefore
    <3>2. q # p => SemverBefore(q, p)
      BY <1>5, <3>1 DEF IsLatest
    <3>3. QED
      BY <2>1, <3>1, <3>2
  <2>5. QED
    BY <2>3, <2>4
<1>6. QED
  BY <1>3, <1>4, <1>5

-----------------------------------------------------------------------------
(* The plan.                                                               *)

\* The records are before the imported releases under their identities too, so
\* the identity last before a new release is that of the last record, or none
\* of a record.
LEMMA PlanIsLatest ==
    ASSUME ImportIInv, NEW selected \in Selections, Continues(Missing(selected)),
           NEW v \in Missing(selected), PlannedPrevious(v) # None
    PROVE  /\ IsLatest(PlannedPrevious(v), Stored)
           /\ v \in First(Missing(selected))
<1> DEFINE p == PlannedPrevious(v)
           new == Missing(selected)
<1>1. new \subseteq Tagged /\ Tagged \subseteq Versions /\ \A i \in new : Matches(i) = {}
  BY SelectionsType, ImportAssumption DEF Missing
<1>2. PICK j \in Last(Preceding(v)) : p \in Owner(j)
  BY DEF PlannedPrevious
<1>3. p \in Stored /\ SameRelease(p, j)
  BY <1>2 DEF Owner, FirstListed, Active, Matches
<1>4. Stored \subseteq Versions
  BY DEF Stored
<1>5. AllIdentities \subseteq Versions /\ \A i \in AllIdentities : Identity[i] = i
  BY <1>1, <1>4, ImportAssumption, VersionAssumption DEF AllIdentities
<1>6. /\ j \in AllIdentities /\ SemverBefore(j, v)
      /\ \A i \in AllIdentities : SemverBefore(i, v) /\ i # j => SemverBefore(i, j)
  BY <1>2 DEF Last, Preceding
<1>7. j \in Versions /\ j = Identity[p]
  BY <1>3, <1>5, <1>6 DEF SameRelease
<1>8. \A r, s \in Stored \cup new : SemverBefore(r, s) => SemverBefore(Identity[r], Identity[s])
  BY DEF Continues
<1>9. \A i \in new : Identity[i] = i
  BY <1>1, ImportAssumption
<1>10. \A r, s \in Stored : SameRelease(r, s) => r = s
  BY DEF Continues
<1>11. \A r \in Stored, i \in new : SemverBefore(r, i)
  BY DEF Continues
<1> HIDE DEF new, p
<1>12. ASSUME NEW r \in Stored, r # p PROVE SemverBefore(r, p)
  <2>1. Identity[r] \in AllIdentities /\ Identity[r] # j
    BY <1>3, <1>7, <1>10, <1>12 DEF AllIdentities, SameRelease
  <2>2. v \in new
    BY DEF new
  <2>3. SemverBefore(Identity[r], v)
    BY <1>8, <1>9, <1>11, <2>2
  <2>4. SemverBefore(Identity[r], j)
    BY <1>6, <2>1, <2>3
  <2>5. SemverBefore(p, r) => SemverBefore(j, Identity[r])
    BY <1>3, <1>7, <1>8
  <2>6. Identity[r] \in Versions
    BY <1>5, <2>1
  <2>7. ~(SemverBefore(Identity[r], j) /\ SemverBefore(j, Identity[r]))
    BY <1>7, <2>6, SemverOrder
  <2>8. QED
    BY <1>3, <1>4, <1>12, <2>4, <2>5, <2>7, SemverOrder
<1>13. ASSUME NEW u \in new, SemverBefore(u, v) PROVE FALSE
  <2>1. u \in AllIdentities
    BY <1>1, <1>13 DEF AllIdentities
  <2>2. u # j
    <3>1. p \in Matches(j)
      BY <1>3 DEF Matches
    <3>2. QED
      BY <1>1, <1>13, <3>1
  <2>3. SemverBefore(u, j)
    BY <1>6, <1>13, <2>1, <2>2
  <2>4. SemverBefore(j, u)
    BY <1>3, <1>7, <1>8, <1>9, <1>11, <1>13
  <2>5. QED
    BY <1>1, <1>7, <1>13, <2>3, <2>4, SemverOrder
<1>14. v \in new /\ \A u \in new \ {v} : SemverBefore(v, u)
  BY <1>1, <1>13, SemverOrder DEF new
<1>15. QED
  BY <1>3, <1>12, <1>14 DEF IsLatest, First, new, p

LEMMA BeginKeepsLine ==
    ASSUME ImportIInv, NEW selected \in Selections, BeginImport(selected)
    PROVE  smooth' => OnLine'
<1> DEFINE new == Missing(selected)
<1>1. UNCHANGED vars /\ pending' = new
  BY DEF BeginImport
<1>2. smooth' = (InLine /\ Continues(new))
  BY DEF BeginImport
<1> SUFFICES ASSUME InLine, Continues(new) PROVE OnLine'
  BY <1>2
<1>3. Stored' = Stored /\ rel' = rel
  BY <1>1 DEF vars, Stored
<1>4. new \subseteq Tagged /\ Tagged \subseteq Versions
  BY SelectionsType, ImportAssumption DEF Missing
<1>5. planned' = [i \in Versions |-> IF i \in new THEN PlannedPrevious(i) ELSE None]
  BY DEF BeginImport
<1>6. AllReleased' /\ OneSpelling' /\ OneOrder'
  BY <1>3 DEF Continues, AllReleased, OneSpelling, OneOrder
<1>7. \A r \in Stored, i \in new : ~SameRelease(r, i)
  BY DEF Missing, Matches
<1>8. PendingFollow'
  <2>1. \A r \in Stored, i \in new :
          SemverBefore(r, i) /\ rel[r].released_at <= TagDate[i] /\ ~SameRelease(r, i)
    BY <1>7 DEF Continues
  <2>2. \A i, j \in new : SemverBefore(i, j) => TagDate[i] <= TagDate[j]
    BY DEF Continues
  <2> HIDE DEF new
  <2>3. QED
    BY <1>1, <1>3, <2>1, <2>2 DEF PendingFollow
<1>9. PlanFits'
  <2>1. ASSUME NEW v \in new, planned'[v] # None
        PROVE  IsLatest(planned'[v], Stored) /\ v \in First(new)
    <3>1. planned'[v] = PlannedPrevious(v)
      BY <1>4, <1>5, <2>1
    <3>2. QED
      BY <2>1, <3>1, PlanIsLatest
  <2> HIDE DEF new
  <2>2. QED
    BY <1>1, <1>3, <2>1 DEF PlanFits, IsLatest, First
<1>10. InLine'
  BY <1>3, SameLine
<1>11. QED
  BY <1>6, <1>8, <1>9, <1>10 DEF OnLine

-----------------------------------------------------------------------------
(* The create call.                                                        *)

\* The record that it adds.
LEMMA CreateEffect ==
    ASSUME ImportIInv, CreateImported
    PROVE  \E v \in First(pending) : \E prev \in PreviousForImport(v) :
            /\ v \in Tagged /\ v \in Versions /\ v \notin Stored
            /\ rel' = [rel EXCEPT ![v] = [status |-> "released", previous_version |-> prev,
                                          released_at |-> TagDate[v], revision |-> 1]]
            /\ pending' = pending \ {v} /\ planned' = planned
            /\ Stored' = Stored \cup {v}
<1>1. PICK v \in First(pending) :
        /\ \E prev \in PreviousForImport(v) :
                PersistNew(v, "released", prev, TagDate[v], "release.created")
        /\ pending' = pending \ {v}
  BY DEF CreateImported
<1>2. PICK prev \in PreviousForImport(v) :
        /\ v \notin Stored
        /\ rel' = [rel EXCEPT ![v] = [status |-> "released", previous_version |-> prev,
                                      released_at |-> TagDate[v], revision |-> 1]]
  BY <1>1 DEF PersistNew
<1>3. v \in Tagged /\ v \in Versions
  BY ImportAssumption DEF First, ImportIInv, ImportTypes
<1>4. Stored' = Stored \cup {v}
  <2>1. rel \in [Versions -> ReleaseRecord]
    BY DEF ImportIInv, IInv, Records
  <2>2. rel'[v].status = "released" /\ \A w \in Versions \ {v} : rel'[w] = rel[w]
    BY <1>2, <1>3, <2>1
  <2>3. QED
    BY <1>3, <2>2 DEF Stored
<1>5. planned' = planned
  BY DEF CreateImported
<1>6. QED
  BY <1>1, <1>2, <1>3, <1>4, <1>5

\* Planned or inferred, the predecessor is the last of the records, or there is none.
LEMMA PreviousIsLatest ==
    ASSUME ImportIInv, OnLine, NEW v \in First(pending), v \notin Stored,
           NEW prev \in PreviousForImport(v)
    PROVE  \/ Stored = {} /\ prev = None
           \/ IsLatest(prev, Stored)
<1>1. v \in pending /\ v \in Tagged /\ v \in Versions
  BY ImportAssumption DEF First, ImportIInv, ImportTypes
<1>2. CASE planned[v] # None
  <2>1. IsLatest(planned[v], Stored)
    BY <1>1, <1>2 DEF OnLine, PlanFits
  <2>2. planned[v] \in Stored
    BY <2>1 DEF IsLatest
  <2>3. planned[v] \in Matches(planned[v])
    BY <2>2 DEF Matches, SameRelease
  <2>4. prev \in Stored /\ Matches(planned[v]) = {prev}
    BY <1>2, <2>3 DEF PreviousForImport, CanonicalPrevious
  <2>5. prev = planned[v]
    BY <2>3, <2>4
  <2>6. QED
    BY <2>1, <2>5
<1>3. CASE planned[v] = None
  <2>1. prev \in InferredPrevious(v, TagDate[v])
    BY <1>3 DEF PreviousForImport
  <2>2. ASSUME NEW r \in Stored
        PROVE  r \in Eligible(v, TagDate[v])
    <3>1. SemverBefore(r, v) /\ rel[r].released_at <= TagDate[v]
      BY <1>1 DEF OnLine, PendingFollow
    <3>2. rel[r].status = "released" /\ rel[r].released_at # NoDate
      BY DEF OnLine, AllReleased
    <3>3. r \in Versions /\ r # v
      BY DEF Stored
    <3>4. Semver[v] \in Nat /\ Semver[v] # 0 /\ Semver[r] \in Nat
      BY <1>1, <3>3, ImportAssumption, VersionAssumption
    <3>5. BothSemver(r, v) /\ ~(Semver[r] > Semver[v])
      BY <3>1, <3>4 DEF SemverBefore, BothSemver
    <3>6. rel[r].released_at \in Nat /\ TagDate[v] \in Nat
      <4>1. Dates \cup {NoDate} \subseteq Nat
        BY InputAssumption DEF NoDate
      <4>2. rel[r] \in ReleaseRecord
        BY <3>3 DEF ImportIInv, IInv, Records
      <4>3. rel[r].released_at \in Dates \cup {NoDate}
        BY <4>2 DEF ReleaseRecord
      <4>4. TagDate[v] \in Dates
        BY <1>1, ImportAssumption
      <4>5. QED
        BY <4>1, <4>3, <4>4
    <3>7. ~Newer(r, rel[r].released_at, v, TagDate[v])
      BY <3>1, <3>5, <3>6 DEF Newer, BothDated
    <3>8. QED
      BY <3>2, <3>3, <3>5, <3>7 DEF Eligible, Comparable
  <2>3. Eligible(v, TagDate[v]) = Stored
    BY <2>2 DEF Eligible
  <2>4. QED
    BY <2>1, <2>3 DEF InferredPrevious, IsLatest
<1>4. QED
  BY <1>2, <1>3

LEMMA CreateKeepsLine ==
    ASSUME ImportIInv, ImportIInv', OnLine, CreateImported
    PROVE  OnLine'
<1>0. PICK v \in First(pending) : \E prev \in PreviousForImport(v) :
        /\ v \in Tagged /\ v \in Versions /\ v \notin Stored
        /\ rel' = [rel EXCEPT ![v] = [status |-> "released", previous_version |-> prev,
                                      released_at |-> TagDate[v], revision |-> 1]]
        /\ pending' = pending \ {v} /\ planned' = planned
        /\ Stored' = Stored \cup {v}
  BY CreateEffect
<1>1. PICK prev \in PreviousForImport(v) :
        /\ v \in Tagged /\ v \in Versions /\ v \notin Stored
        /\ rel' = [rel EXCEPT ![v] = [status |-> "released", previous_version |-> prev,
                                      released_at |-> TagDate[v], revision |-> 1]]
        /\ pending' = pending \ {v} /\ planned' = planned
        /\ Stored' = Stored \cup {v}
  BY <1>0
<1>2. \/ Stored = {} /\ prev = None
      \/ IsLatest(prev, Stored)
  BY <1>1, PreviousIsLatest
<1>3. /\ AllReleased /\ OneSpelling /\ OneOrder /\ PendingFollow /\ PlanFits /\ InLine
      /\ Records /\ Records'
  BY DEF OnLine, ImportIInv, IInv
<1>4. /\ rel'[v].status = "released" /\ rel'[v].previous_version = prev
      /\ rel'[v].released_at = TagDate[v]
      /\ \A w \in Stored : rel'[w] = rel[w]
  BY <1>1, <1>3 DEF Records, Stored
<1>5. v \in pending /\ \A i \in pending \ {v} : SemverBefore(v, i)
  BY DEF First
<1>6. Stored \subseteq Versions /\ pending \subseteq Tagged /\ Tagged \subseteq Versions
  BY ImportAssumption DEF Stored, ImportIInv, ImportTypes
<1>7. \A r \in Stored : SemverBefore(r, v) /\ rel[r].released_at <= TagDate[v]
                            /\ ~SameRelease(r, v)
  BY <1>3, <1>5 DEF PendingFollow
<1>8. TagDate[v] \in Dates /\ Dates \subseteq Nat \ {NoDate}
  BY <1>1, ImportAssumption, InputAssumption
<1>9. AllReleased'
  BY <1>1, <1>3, <1>4, <1>8 DEF AllReleased
<1>10. OneSpelling'
  BY <1>1, <1>3, <1>7 DEF OneSpelling, SameRelease
<1>11. OneOrder'
  <2>1. \A r \in Stored : ~SemverBefore(v, r)
    BY <1>1, <1>6, <1>7, SemverOrder
  <2>2. TagDate[v] <= TagDate[v]
    <3>1. TagDate[v] \in Nat
      BY <1>8
    <3>2. \A n \in Nat : n <= n
      OBVIOUS
    <3>3. QED
      BY <3>1, <3>2, Zenon
  <2>3. QED
    BY <1>1, <1>3, <1>4, <1>7, <2>1, <2>2 DEF OneOrder
<1>12. PendingFollow'
  <2>1. ASSUME NEW i \in pending \ {v}
        PROVE  SemverBefore(v, i) /\ TagDate[v] <= TagDate[i] /\ ~SameRelease(v, i)
    <3>1. SemverBefore(v, i)
      BY <1>5
    <3>2. TagDate[v] <= TagDate[i]
      BY <1>3, <1>5, <3>1 DEF PendingFollow
    <3>3. ~SameRelease(v, i)
      BY <1>1, <1>6, ImportAssumption DEF SameRelease
    <3>4. QED
      BY <3>1, <3>2, <3>3
  <2>2. QED
    BY <1>1, <1>3, <1>4, <2>1 DEF PendingFollow, SameRelease
<1>13. PlanFits'
  <2>1. ASSUME NEW w \in pending \ {v} PROVE planned[w] = None
    <3>1. SUFFICES ASSUME planned[w] # None PROVE FALSE
      OBVIOUS
    <3>2. SemverBefore(w, v)
      BY <1>3, <1>5, <3>1 DEF PlanFits, First
    <3>3. SemverBefore(v, w)
      BY <1>5
    <3>4. QED
      BY <1>1, <1>6, <3>2, <3>3, SemverOrder
  <2>2. QED
    BY <1>1, <2>1 DEF PlanFits
<1>14. InLine'
  <2>1. VersionLine /\ VersionLine' /\ ExpectedOne /\ ExpectedOne'
    BY OrderedByVersion, ExpectedIsOne, PTL
  <2>2. Chain = Stored /\ \A r \in Stored : ImmediatelyBefore(r) = RightBefore(Stored, r)
    BY <1>3, <2>1 DEF VersionLine
  <2>3. /\ Chain' = Stored'
        /\ \A r \in Stored' : ImmediatelyBefore(r)' = RightBefore(Stored', r)
    BY <1>3, <1>9, <1>11, <2>1 DEF VersionLine, RightBefore
  <2>4. /\ \A r \in Stored : RightBefore(Stored', r) = RightBefore(Stored, r)
        /\ Stored = {} => RightBefore(Stored', v) = {}
        /\ \A p : IsLatest(p, Stored) => RightBefore(Stored', v) = {p}
    <3>1. v \in Versions \ Stored /\ Stored \in SUBSET Versions
      BY <1>1, <1>6
    <3>2. \A r \in Stored : SemverBefore(r, v)
      BY <1>7
    <3>3. /\ \A r \in Stored : RightBefore(Stored \cup {v}, r) = RightBefore(Stored, r)
          /\ Stored = {} => RightBefore(Stored \cup {v}, v) = {}
          /\ \A p : IsLatest(p, Stored) => RightBefore(Stored \cup {v}, v) = {p}
      BY <3>1, <3>2, LineGrows
    <3>4. Stored' = Stored \cup {v}
      BY <1>1
    <3>5. QED
      BY <3>3, <3>4
  <2>5. \A r \in Versions : /\ ExpectedPrevious(r) = OnePrevious(ImmediatelyBefore(r))
                            /\ ExpectedPrevious(r)' = OnePrevious(ImmediatelyBefore(r)')
    BY <2>1 DEF ExpectedOne, OnePrevious
  <2>6. ASSUME NEW r \in Stored
        PROVE  rel'[r].previous_version = ExpectedPrevious(r)'
    <3>1. rel[r].previous_version = OnePrevious(RightBefore(Stored, r))
      BY <1>3, <1>6, <2>2, <2>5 DEF InLine
    <3>2. ExpectedPrevious(r)' = OnePrevious(RightBefore(Stored, r))
      BY <1>1, <1>6, <2>3, <2>4, <2>5
    <3>3. QED
      BY <1>4, <3>1, <3>2
  <2>7. rel'[v].previous_version = ExpectedPrevious(v)'
    <3>1. ExpectedPrevious(v)' = OnePrevious(RightBefore(Stored', v))
      BY <1>1, <2>3, <2>5
    <3>2. OnePrevious({}) = None /\ \A p : OnePrevious({p}) = p
      BY DEF OnePrevious
    <3>3. QED
      BY <1>2, <1>4, <2>4, <3>1, <3>2
  <2>8. QED
    BY <1>1, <2>3, <2>6, <2>7 DEF InLine
<1>15. QED
  BY <1>9, <1>10, <1>11, <1>12, <1>13, <1>14 DEF OnLine

-----------------------------------------------------------------------------
(* The other steps of an import write no status, date or predecessor.      *)

LEMMA QuietKeepsLine ==
    ASSUME OnLine, Stored' = Stored, pending' \subseteq pending,
           pending' # {} => pending' = pending /\ planned' = planned,
           \A w \in Versions :
                /\ rel'[w].status = rel[w].status
                /\ rel'[w].previous_version = rel[w].previous_version
                /\ rel'[w].released_at = rel[w].released_at
    PROVE  OnLine'
<1>1. Stored \subseteq Versions
  BY DEF Stored
<1>2. AllReleased' /\ OneSpelling' /\ OneOrder'
  BY <1>1 DEF OnLine, AllReleased, OneSpelling, OneOrder
<1>3. PendingFollow'
  BY <1>1 DEF OnLine, PendingFollow
<1>4. PlanFits'
  BY DEF OnLine, PlanFits, IsLatest, First
<1>5. InLine'
  BY SameLine DEF OnLine
<1>6. QED
  BY <1>2, <1>3, <1>4, <1>5 DEF OnLine

LEMMA RangeKeepsLine ==
    ASSUME ImportIInv, OnLine, RangeImported
    PROVE  OnLine'
<1>1. PICK v \in Resolve(ranging) :
        rel' = [rel EXCEPT ![v] = Edited(@, rel[v].status, rel[v].previous_version,
                                         rel[v].released_at)]
  BY DEF RangeImported, SaveRelease
<1>2. v \in Versions /\ rel \in [Versions -> ReleaseRecord]
  BY DEF Resolve, Stored, ImportIInv, IInv, Records
<1>3. rel'[v] = Edited(rel[v], rel[v].status, rel[v].previous_version, rel[v].released_at)
  BY <1>1, <1>2
<1>4. \A w \in Versions \ {v} : rel'[w] = rel[w]
  BY <1>1, <1>2
<1>5. /\ rel'[v].status = rel[v].status
      /\ rel'[v].previous_version = rel[v].previous_version
      /\ rel'[v].released_at = rel[v].released_at
  BY <1>3 DEF Edited
<1>6. Stored' = Stored
  BY <1>4, <1>5 DEF Stored
<1>7. pending' = pending /\ planned' = planned
  BY DEF RangeImported
<1>8. QED
  BY <1>4, <1>5, <1>6, <1>7, QuietKeepsLine

LEMMA LineStep == LineInv /\ [ImportNext]_importVars => LineInv'
<1> SUFFICES ASSUME LineInv, [ImportNext]_importVars
             PROVE  LineInv'
  OBVIOUS
<1>1. ImportIInv /\ ImportIInv'
  BY ImportStepInv DEF LineInv
<1>2. SUFFICES ASSUME smooth' PROVE OnLine'
  BY <1>1 DEF LineInv
<1>3. ASSUME NEW selected \in Selections, BeginImport(selected)
      PROVE  OnLine'
  BY <1>1, <1>2, <1>3, BeginKeepsLine
<1>4. CASE CreateImported
  <2>1. smooth' = smooth
    BY <1>4 DEF CreateImported
  <2>2. QED
    BY <1>1, <1>2, <1>4, <2>1, CreateKeepsLine DEF LineInv
<1>5. CASE RangeImported
  <2>1. smooth' = smooth
    BY <1>5 DEF RangeImported
  <2>2. QED
    BY <1>1, <1>2, <1>5, <2>1, RangeKeepsLine DEF LineInv
<1>6. CASE RangeRefused
  <2>1. rel' = rel /\ pending' = pending /\ planned' = planned /\ smooth' = smooth
    BY <1>6 DEF RangeRefused, vars
  <2>2. QED
    BY <1>2, <2>1, QuietKeepsLine DEF LineInv, Stored
<1>7. CASE ImportStops
  <2>1. rel' = rel /\ pending' = {} /\ smooth' = smooth
    BY <1>7 DEF ImportStops, Done, vars
  <2>2. QED
    BY <1>2, <2>1, QuietKeepsLine DEF LineInv, Stored
<1>8. CASE OtherCommand
  BY <1>2, <1>8 DEF OtherCommand
<1>9. CASE UNCHANGED importVars
  <2>1. rel' = rel /\ pending' = pending /\ planned' = planned /\ smooth' = smooth
    BY <1>9 DEF importVars, import, vars
  <2>2. QED
    BY <1>2, <2>1, QuietKeepsLine DEF LineInv, Stored
<1>10. QED
  BY <1>3, <1>4, <1>5, <1>6, <1>7, <1>8, <1>9 DEF ImportNext

-----------------------------------------------------------------------------
\* The plan of an import names only versions and tags, whatever commands run
\* between its steps, and the records keep their types through its steps.
THEOREM ImportTypesCorrect == ImportSpec => []ImportTypeOK
<1>1. ImportIInv => ImportTypeOK
  BY DEF ImportIInv, IInv, ImportTypes, ImportTypeOK, TypeOK, Records, LogTypes
<1>2. QED
  BY <1>1, ImportInitInv, ImportStepInv, PTL DEF ImportSpec

\* import_tags changes releases only by what create_release and update_release
\* do: from its start to any point where it ends or dies, between the steps of
\* any other commands, it is a behaviour of ReleaseLifecycle.
THEOREM ImportImplementsLifecycle == ImportSpec => ImplementsLifecycle
<1>1. ImportInit => Init
  BY DEF ImportInit
<1>2. QED
  BY <1>1, ImportInitInv, ImportStepInv, ImportStepRefines, PTL
     DEF ImportSpec, ImplementsLifecycle, Spec

\* Every revision that an import writes is in the event log, as those of the
\* other commands are.
THEOREM ImportedRevisionsAreLogged == ImportSpec => []RevisionsLogged
<1>1. QED
  BY ImportImplementsLifecycle, RevisionsAreLogged, PTL DEF ImplementsLifecycle

\* So do the links, the relinking of cancel and the canceled releases: what the
\* commands keep, an import between or beside them keeps.
THEOREM ImportsKeepTheLinks ==
    ImportSpec => LinksStayResolved /\ CancelRelinks /\ TombstonesKept
<1>1. QED
  BY ImportImplementsLifecycle, LinksStay, CancelsAlwaysRelink, TombstonesStay, PTL
     DEF ImplementsLifecycle


\* Nor can an import undo what chain repair is for: a repair before it, after it
\* or between its steps leaves one line.
THEOREM ImportsLeaveRepair == ImportSpec => RepairLinearizes
<1>1. QED
  BY ImportImplementsLifecycle, RepairsMakeALine, PTL DEF ImplementsLifecycle

\* An import that no other command disturbs adds to the end of the line, one
\* release after another, whether its plan names the predecessor or create_release
\* infers it: chain repair would change nothing at any point.
THEOREM ImportsStayInLine == ImportSpec => []ImportKeepsLine
<1>1. ImportInit => LineInv
  BY ImportInitInv DEF ImportInit, LineInv
<1>2. LineInv => ImportKeepsLine
  BY DEF LineInv, OnLine, ImportKeepsLine
<1>3. QED
  BY <1>1, <1>2, LineStep, PTL DEF ImportSpec

=============================================================================
