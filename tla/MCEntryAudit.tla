---------------------------- MODULE MCEntryAudit ---------------------------
(* Two releases, two commits, one text.  The behaviours start where a release *)
(* of the ledger has some entries and a sheet.                                *)
EXTENDS EntryAudit

CONSTANTS r1, r2, c1, c2, t1

MCReleases == {r1, r2}
MCRefs == {c1, c2}
MCTexts == {t1}

Says(refs, status) == [text |-> t1, refs |-> refs, status |-> status]

MCInputs == {Says({c1}, "accepted"), Says({c1, c2}, "draft"), Says({}, "accepted")}

\* Two entries that do not clash, and two that do.
MCBatches == {<<Says({c1}, "accepted"), Says({c2}, "draft")>>,
              <<Says({c1}, "accepted"), Says({c1, c2}, "accepted")>>}

Reviewed(decision, id, key) ==
    [decision |-> decision, inspected |-> TRUE, stale |-> FALSE, id |-> id, key |-> key]

\* Reviews that target an entry by every kind of name, and one without a target.
MCAnnotations ==
    {Reviewed("accepted", 1, None),
     Reviewed("accepted", None, [release |-> None, id |-> 2]),
     Reviewed("accepted", None, [release |-> r1, id |-> 1]),
     Reviewed("rejected", None, None)}

\* Reached from Init by add-many or entry add, audit init and audit apply.
MCInit ==
    /\ \E first \in {<<Says({c1}, "accepted")>>,
                   <<Says({c1}, "accepted"), Says({c2}, "draft")>>},
         second \in {<<>>, <<Says({}, "accepted")>>},
         row1 \in MCAnnotations \cup {Fresh}, sheet \in BOOLEAN :
        /\ disk = [entries |-> [r \in Releases |-> [i \in Ids |->
                        LET batch == IF r = r1 THEN first ELSE second IN
                        IF i <= Len(batch) THEN Record(batch[i], i) ELSE None]],
                   count |-> [r \in Releases |->
                        IF r = r1 THEN Len(first) ELSE Len(second)],
                   sheet |-> [r \in Releases |->
                        IF ~sheet THEN None
                        ELSE IF r = r1 THEN [ref \in Refs |-> row1]
                        ELSE [ref \in Refs |-> IF ref = c2 THEN Fresh ELSE None]]]
    /\ commands = 0
    /\ torn = 0
    /\ last = "release create"

MCSpec == MCInit /\ [][Next]_vars

=============================================================================
