----------------------------- MODULE EntryAudit ----------------------------
(***************************************************************************)
(* The entries of the releases of a ledger and their commit audit sheets:  *)
(* services/entries.py and services/audit.py over the records that         *)
(* storage/store.py keeps.                                                 *)
(*                                                                         *)
(* Three files name each other.  A release record counts its entries       *)
(* (entry_count), an entry owns commits (source_refs), and a row of the    *)
(* audit sheet, one per commit, names the entry that tells of it.  A       *)
(* command saves these files one after another, so each command is given   *)
(* by the successive states of the disk; a torn command stops after one    *)
(* of them.  Commands exclude each other here: WriteProtocol looks at what *)
(* happens when they do not.                                               *)
(*                                                                         *)
(* Abstractions.  An entry's text stands for its kind, summary and paths.  *)
(* The statuses draft and rejected are alike.  A row's inspected says that *)
(* inspected, inspected_paths and observed_behavior are all filled in.     *)
(* The decision grouped is like accepted.                                  *)
(***************************************************************************)
EXTENDS Naturals, Sequences, FiniteSets

CONSTANTS
    Releases,       \* release versions, all of them recorded
    Refs,           \* commits: source refs, and the shas of audit rows
    Texts,          \* what an entry says
    Inputs,         \* the contents given to entry add, update and import
    Batches,        \* the files given to add-many: sequences of contents
    Annotations,    \* the annotations given to audit apply
    None,           \* no entry, no row, no sheet, no target
    MaxId,          \* bound: entry ids
    MaxCommands,    \* bound: commands in a behaviour
    MaxTorn         \* bound: commands that stop half-way

Ids == 1..MaxId
Decisions == {"needs_review", "accepted", "internal", "rejected"}
Completed == Decisions \ {"needs_review"}
Content == [text : Texts, refs : SUBSET Refs, status : {"draft", "accepted"}]

\* target_entry_key: "entry-0001" (release None) or "1.0.0/entry-0001".
Keys == [release : Releases \cup {None}, id : Ids]
Annotation == [decision : Decisions, inspected : BOOLEAN, stale : BOOLEAN,
               id : Ids \cup {None}, key : Keys \cup {None}]

ASSUME EntryAuditAssumption ==
    /\ Inputs \subseteq Content
    /\ Batches \subseteq Seq(Content) \ {<<>>}
    /\ Annotations \subseteq Annotation
    /\ None \notin Releases \cup Ids \cup Content \cup Annotation \cup Keys
    /\ MaxId \in Nat \ {0} /\ MaxCommands \in Nat /\ MaxTorn \in Nat

VARIABLES
    disk,       \* the files: entries, count and sheet of every release
    commands,   \* number of commands that changed something
    torn,       \* number of commands that stopped half-way
    last        \* history: the last command, "torn" if it stopped half-way

vars == <<disk, commands, torn, last>>

\* The entry file: the content and the order.
Entry == [text : Texts, refs : SUBSET Refs, status : {"draft", "accepted"},
          order : Nat]
Sheet == [Refs -> Annotation \cup {None}]
NoEntries == [i \in Ids |-> None]

\* An absence is no entry and no sheet; a ledger has finitely many releases.
ASSUME FilesAssumption ==
    /\ None \notin Entry \cup Sheet
    /\ IsFiniteSet(Releases)

Init ==
    /\ disk = [entries |-> [r \in Releases |-> NoEntries],
               count |-> [r \in Releases |-> 0],
               sheet |-> [r \in Releases |-> None]]
    /\ commands = 0
    /\ torn = 0
    /\ last = "release create"

-----------------------------------------------------------------------------
(* One file written.                                                       *)

WithEntry(d, r, i, e) ==
    [entries |-> [d.entries EXCEPT ![r] = [@ EXCEPT ![i] = e]],
     count |-> d.count, sheet |-> d.sheet]

WithCount(d, r, n) ==
    [entries |-> d.entries, count |-> [d.count EXCEPT ![r] = n], sheet |-> d.sheet]

WithSheet(d, r, rows) ==
    [entries |-> d.entries, count |-> d.count, sheet |-> [d.sheet EXCEPT ![r] = rows]]

\* A command leaves the last of its states or, torn, one before it.
Run(command, states) ==
    /\ commands' = commands + 1
    /\ \/ disk' = states[Len(states)] /\ last' = command /\ UNCHANGED torn
       \/ /\ torn < MaxTorn
          /\ torn' = torn + 1
          /\ last' = "torn"
          /\ \E k \in 1..(Len(states) - 1) : disk' = states[k]

-----------------------------------------------------------------------------
(* Entries.                                                                *)

Listed(d, r) == {i \in Ids : d.entries[r][i] # None}
EntriesOf(d, r) == {d.entries[r][i] : i \in Listed(d, r)}
OwnedRefs(d, r) == UNION {e.refs : e \in EntriesOf(d, r)}
Length(d, r) == Cardinality(Listed(d, r))

\* next_entry_id: one more than the largest id in use.
NextId(d, r) == CHOOSE n \in 1..(MaxId + 1) :
    /\ \A i \in Listed(d, r) : i < n
    /\ n = 1 \/ n - 1 \in Listed(d, r)

Record(c, order) ==
    [text |-> c.text, refs |-> c.refs, status |-> c.status, order |-> order]

\* kind, summary, source refs and paths
Fingerprint(e) == <<e.text, e.refs>>

Clash(e, f) == e.refs \cap f.refs # {} \/ Fingerprint(e) = Fingerprint(f)

\* A proposed entry shares a ref or the fingerprint with an entry of the release
\* or with one proposed before it.
Duplicates(d, r, batch) ==
    \E k \in 1..Len(batch) :
        \/ \E e \in EntriesOf(d, r) : Clash(batch[k], e)
        \/ \E j \in 1..(k - 1) : Clash(batch[k], batch[j])

CountAfterAdd(r) == Length(disk, r) + 1

AddEntry(r, c) ==
    LET i == NextId(disk, r)
        added == WithEntry(disk, r, i, Record(c, Length(disk, r) + 1))
    IN  /\ i \in Ids
        /\ ~Duplicates(disk, r, <<c>>)
        /\ Run("add", <<added, WithCount(added, r, CountAfterAdd(r))>>)

\* The entry that sync takes for a ref: the first owner as load_entries sorts.
Owners(d, r, ref) == {i \in Listed(d, r) : ref \in d.entries[r][i].refs}
SortsBefore(d, r, i, j) ==
    \/ d.entries[r][i].order < d.entries[r][j].order
    \/ d.entries[r][i].order = d.entries[r][j].order /\ i <= j
FirstOwner(d, r, ref) ==
    CHOOSE i \in Owners(d, r, ref) :
        \A j \in Owners(d, r, ref) : SortsBefore(d, r, i, j)

Retargeted(row, id, key) ==
    [decision |-> row.decision, inspected |-> row.inspected, stale |-> row.stale,
     id |-> id, key |-> key]

\* sync_audit_sheet_targets fills target_entry_id and leaves target_entry_key.
Synced(d, r) ==
    [ref \in Refs |->
        LET row == d.sheet[r][ref] IN
        IF row = None \/ Owners(d, r, ref) = {} THEN row
        ELSE Retargeted(row, FirstOwner(d, r, ref), row.key)]

\* The first k entries of a batch stored, under the ids that follow.
WithBatch(d, r, batch, k) ==
    LET first == NextId(d, r) IN
    [entries |-> [d.entries EXCEPT ![r] =
        [i \in Ids |-> IF i \in first..(first + k - 1)
                       THEN Record(batch[i - first + 1], Length(d, r) + i - first + 1)
                       ELSE d.entries[r][i]]],
     count |-> d.count, sheet |-> d.sheet]

AddMany(r, batch, sync) ==
    LET n == Len(batch)
        added == WithBatch(disk, r, batch, n)
        synced == IF sync THEN WithSheet(added, r, Synced(added, r)) ELSE added
    IN  /\ NextId(disk, r) + n - 1 \in Ids
        /\ ~Duplicates(disk, r, batch)
        /\ sync => disk.sheet[r] # None
        /\ Run("add-many", [k \in 1..n |-> WithBatch(disk, r, batch, k)]
               \o <<synced, WithCount(synced, r, Length(disk, r) + n)>>)

\* entry update and set-status: the order stays, and the source refs are not
\* compared with those of other entries.
UpdateEntry(r, i, c) ==
    LET e == disk.entries[r][i] IN
    /\ e # None
    /\ Record(c, e.order) # e
    /\ Run("update", <<WithEntry(disk, r, i, Record(c, e.order))>>)

\* Variant: a replaced entry is counted again.
ImportStatesCounting(stored, r, isNew) ==
    <<stored, WithCount(stored, r, Length(disk, r) + 1)>>

ImportStates(stored, r, isNew) ==
    IF isNew THEN <<stored, WithCount(stored, r, Length(disk, r) + 1)>>
    ELSE <<stored>>

\* entry import: the id may come from the file, and again no source refs are
\* compared.  A replacement that changes nothing is refused by the revision check.
ImportEntry(r, i, c, replaceExisting) ==
    LET old == disk.entries[r][i]
        e == Record(c, IF old = None THEN Length(disk, r) + 1 ELSE old.order)
    IN  /\ old = None \/ replaceExisting
        /\ e # old
        /\ Run("import", ImportStates(WithEntry(disk, r, i, e), r, old = None))

-----------------------------------------------------------------------------
(* Rows and the entries they target.                                       *)

Rows(d, r) == IF d.sheet[r] = None THEN {}
              ELSE {ref \in Refs : d.sheet[r][ref] # None}

\* Variant: only target_entry_id is looked at.
NamesById(row, r, i) == row.id = i

\* A row names entry i of release r by its id, by the id alone as a key, or by
\* release and id as a key.
Names(row, r, i) ==
    \/ row.id = i
    \/ row.key # None /\ row.key.id = i /\ row.key.release \in {None, r}

Targeting(d, r, i) == {ref \in Rows(d, r) : Names(d.sheet[r][ref], r, i)}

Detached(row) ==
    [decision |-> "needs_review", inspected |-> row.inspected, stale |-> row.stale,
     id |-> None, key |-> None]

\* Variant: no floor.
CountDown(count) == count - 1

CountAfterDelete(count) == IF count = 0 THEN 0 ELSE count - 1

\* entry delete: the entry, the release, the sheet, without a rollback.
DeleteEntry(r, i, force, detach) ==
    LET targeting == Targeting(disk, r, i)
        gone == WithEntry(disk, r, i, None)
        counted == WithCount(gone, r, CountAfterDelete(disk.count[r]))
        rows == [ref \in Refs |-> IF ref \in targeting
                                  THEN Detached(disk.sheet[r][ref])
                                  ELSE disk.sheet[r][ref]]
    IN  /\ disk.entries[r][i] # None
        /\ disk.entries[r][i].status = "accepted" => force
        /\ targeting = {} \/ detach
        /\ Run(IF detach THEN "detach" ELSE "delete", IF targeting = {} THEN <<gone, counted>>
               ELSE <<gone, counted, WithSheet(counted, r, rows)>>)

\* A row follows its entry: the id always, the key only when it names the release.
Moved(row, s, i, t, j) ==
    Retargeted(row, j, IF row.key = [release |-> s, id |-> i]
                       THEN [release |-> t, id |-> j] ELSE row.key)

NextOrder(d, r) ==
    LET orders == {0} \cup {e.order : e \in EntriesOf(d, r)} IN
    1 + CHOOSE n \in orders : \A m \in orders : m <= n

\* Variant: the rows are copied.
WithCopies(rows, moving) == rows

Without(rows, moving) == [ref \in Refs |-> IF ref \in moving THEN None ELSE rows[ref]]

\* entry move: the target's entry and release, the source's, then the sheets.  An
\* error puts all files back; a killed process does not.
MoveEntry(s, i, t, renumber, moveRows) ==
    LET e == disk.entries[s][i]
        taken == disk.entries[t][i] # None
        j == IF taken THEN NextId(disk, t) ELSE i
        moving == Targeting(disk, s, i)
        d1 == WithEntry(disk, t, j, Record(e, NextOrder(disk, t)))
        d2 == WithCount(d1, t, Length(disk, t) + 1)
        d3 == WithEntry(d2, s, i, None)
        d4 == WithCount(d3, s, Length(disk, s) - 1)
        d5 == WithSheet(d4, s, Without(disk.sheet[s], moving))
        d6 == WithSheet(d5, t, [ref \in Refs |->
                    IF ref \in moving THEN Moved(disk.sheet[s][ref], s, i, t, j)
                    ELSE IF ref \in Rows(disk, t) THEN disk.sheet[t][ref] ELSE None])
    IN  /\ s # t
        /\ e # None
        /\ taken => renumber /\ j \in Ids
        /\ e.refs \cap OwnedRefs(disk, t) = {}
        /\ moving = {} \/ moveRows
        /\ moving \cap Rows(disk, t) = {}
        /\ Run("move", IF moving = {} THEN <<d1, d2, d3, d4>> ELSE <<d1, d2, d3, d4, d5, d6>>)

-----------------------------------------------------------------------------
(* The sheet.                                                              *)

Fresh == [decision |-> "needs_review", inspected |-> FALSE, stale |-> FALSE,
          id |-> None, key |-> None]

\* audit init: one fresh row per commit of the range.
CreateAudit(r, range, overwrite) ==
    LET rows == [ref \in Refs |-> IF ref \in range THEN Fresh ELSE None] IN
    /\ disk.sheet[r] = None \/ overwrite
    /\ disk.sheet[r] # rows
    /\ Run(IF overwrite THEN "overwrite" ELSE "init", <<WithSheet(disk, r, rows)>>)

\* _validate_completed_rows refuses every stale row, and decisions of rows that
\* nobody has inspected.
Consistent(rows) ==
    \A ref \in Refs : rows[ref] # None =>
        /\ ~rows[ref].stale
        /\ rows[ref].decision \in Completed => rows[ref].inspected

\* audit apply of one annotated row; the check is on the whole sheet.
ApplyAudit(r, ref, annotation) ==
    LET rows == [disk.sheet[r] EXCEPT ![ref] = annotation] IN
    /\ disk.sheet[r] # None
    /\ disk.sheet[r][ref] \notin {None, annotation}
    /\ Consistent(rows)
    /\ Run("apply", <<WithSheet(disk, r, rows)>>)

\* audit update replaces the sheet by an edited one that has every row of it and
\* perhaps new ones; here the edited rows are annotated alike.
UpdateAudit(r, edited, annotation) ==
    LET rows == [ref \in Refs |->
                    IF ref \in edited THEN annotation ELSE disk.sheet[r][ref]]
    IN  /\ disk.sheet[r] # None
        /\ rows # disk.sheet[r]
        /\ Consistent(rows)
        /\ Run("apply", <<WithSheet(disk, r, rows)>>)

\* Variant: a row is stale if the commit changed since the last refresh.
StaleNow(row, changed) == changed

\* A row once stale stays so: a later refresh may find nothing new to report.
StaleAfter(row, changed) == row.stale \/ changed

Refreshed(row, changed) ==
    [decision |-> row.decision, inspected |-> row.inspected,
     stale |-> StaleAfter(row, changed), id |-> row.id, key |-> row.key]

\* audit refresh: the range may have lost and gained commits, and the evidence of
\* the commits in changed is not what the sheet recorded.
RefreshAudit(r, range, changed, allowRemove) ==
    LET old == disk.sheet[r]
        rows == [ref \in Refs |->
                    IF ref \notin range THEN None
                    ELSE IF old[ref] = None THEN Fresh
                    ELSE Refreshed(old[ref], ref \in changed)]
    IN  /\ old # None
        /\ Rows(disk, r) \subseteq range \/ allowRemove
        /\ rows # old
        /\ Run(IF allowRemove THEN "remove" ELSE "refresh", <<WithSheet(disk, r, rows)>>)

\* audit sync
SyncAudit(r) ==
    /\ disk.sheet[r] # None
    /\ Synced(disk, r) # disk.sheet[r]
    /\ Run("sync", <<WithSheet(disk, r, Synced(disk, r))>>)

-----------------------------------------------------------------------------
Command ==
    \/ \E r \in Releases, c \in Inputs : AddEntry(r, c)
    \/ \E r \in Releases, b \in Batches, sync \in BOOLEAN : AddMany(r, b, sync)
    \/ \E r \in Releases, i \in Ids, c \in Inputs : UpdateEntry(r, i, c)
    \/ \E r \in Releases, i \in Ids, c \in Inputs, replaceExisting \in BOOLEAN :
            ImportEntry(r, i, c, replaceExisting)
    \/ \E r \in Releases, i \in Ids, force, detach \in BOOLEAN :
            DeleteEntry(r, i, force, detach)
    \/ \E s, t \in Releases, i \in Ids, renumber, moveRows \in BOOLEAN :
            MoveEntry(s, i, t, renumber, moveRows)
    \/ \E r \in Releases, range \in SUBSET Refs, overwrite \in BOOLEAN :
            CreateAudit(r, range, overwrite)
    \/ \E r \in Releases, ref \in Refs, a \in Annotations : ApplyAudit(r, ref, a)
    \/ \E r \in Releases, edited \in SUBSET Refs, a \in Annotations : UpdateAudit(r, edited, a)
    \/ \E r \in Releases, range, changed \in SUBSET Refs, allowRemove \in BOOLEAN :
            RefreshAudit(r, range, changed, allowRemove)
    \/ \E r \in Releases : SyncAudit(r)

Next == commands < MaxCommands /\ Command

Spec == Init /\ [][Next]_vars

-----------------------------------------------------------------------------
TypeOK ==
    /\ disk \in [entries : [Releases -> [Ids -> Entry \cup {None}]],
                 count : [Releases -> Nat],
                 sheet : [Releases -> Sheet \cup {None}]]
    /\ commands \in Nat /\ torn \in Nat

\* A release counts its entries exactly, although delete counts down and the
\* other commands count anew, as long as no command was torn.
CountExact == torn = 0 => \A r \in Releases : disk.count[r] = Length(disk, r)

\* The entry a row is about: target_entry_id or target_entry_key.
Dangling(d, r, ref) ==
    LET row == d.sheet[r][ref]
        target == IF row.id # None THEN [release |-> None, id |-> row.id] ELSE row.key
    IN  /\ target # None
        /\ target.release \in {None, r} => d.entries[r][target.id] = None

\* A row that targets no entry comes from what a reviewer wrote (apply, update)
\* or from a torn command: deletions, moves, replacements, refreshes and syncs
\* keep every target that was right.
TargetsStayResolved ==
    [][last' \notin {"torn", "apply"} =>
        \A r \in Releases : \A ref \in Rows(disk', r) :
            Dangling(disk', r, ref) =>
                \E q \in Releases : ref \in Rows(disk, q) /\ Dangling(disk, q, ref)]_vars

\* Moves conserve: as many entries of every content, as many rows for every
\* commit with the same decisions, and the rows left behind are not about the
\* entry that left.
Holding(d, c) ==
    {x \in Releases \X Ids :
        LET e == d.entries[x[1]][x[2]] IN
        e # None /\ [text |-> e.text, refs |-> e.refs, status |-> e.status] = c}
Deciding(d, ref, decision) ==
    {r \in Releases : ref \in Rows(d, r) /\ d.sheet[r][ref].decision = decision}
MoveConserves ==
    [][last' = "move" =>
        /\ \A c \in Content : Cardinality(Holding(disk', c)) = Cardinality(Holding(disk, c))
        /\ \A ref \in Refs, x \in Decisions :
            Cardinality(Deciding(disk', ref, x)) = Cardinality(Deciding(disk, ref, x))
        /\ \A r \in Releases : \A i \in Listed(disk, r) :
            disk'.entries[r][i] = None => Targeting(disk', r, i) = {}]_vars

\* Review work is kept: a row somebody inspected stays, in this sheet or in the
\* one it moved to, with its decision, and once stale it does not pass for
\* current, unless somebody asks for it: by another annotation, --overwrite,
\* --allow-remove or --detach-audit.
Kept(row, after) ==
    /\ after.inspected /\ after.decision = row.decision
    /\ row.stale => after.stale
ReviewIsKept ==
    [][last' \notin {"torn", "apply", "overwrite", "remove", "detach"} =>
        \A r \in Releases : \A ref \in Rows(disk, r) :
            disk.sheet[r][ref].inspected =>
                \E q \in Releases : /\ ref \in Rows(disk', q)
                                    /\ Kept(disk.sheet[r][ref], disk'.sheet[q][ref])]_vars

=============================================================================
