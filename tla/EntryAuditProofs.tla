--------------------------- MODULE EntryAuditProofs ---------------------------
(* What EntryAudit's run shows of two releases and three commands, for any   *)
(* releases, commits, contents, batches, annotations and numbers of commands. *)
EXTENDS EntryAudit, FiniteSetTheorems, WellFoundedInduction, TLAPS

-----------------------------------------------------------------------------
(* The files and the writes to them.                                         *)

Disks == [entries : [Releases -> [Ids -> Entry \cup {None}]],
          count : [Releases -> Nat],
          sheet : [Releases -> Sheet \cup {None}]]

\* A command leaves its last state, or it is torn and leaves an earlier one.
LEMMA RunEffect ==
    ASSUME TypeOK, NEW command, NEW states \in Seq(Disks), states # <<>>,
           Run(command, states)
    PROVE  /\ disk' \in Disks /\ commands' \in Nat /\ torn' \in Nat
           /\ \/ disk' = states[Len(states)] /\ last' = command /\ torn' = torn
              \/ last' = "torn" /\ torn' # 0
<1>1. Len(states) \in Nat \ {0} /\ \A k \in 1..Len(states) : states[k] \in Disks
  OBVIOUS
<1>2. commands \in Nat /\ torn \in Nat /\ commands' = commands + 1
  BY DEF TypeOK, Run
<1>3. CASE disk' = states[Len(states)] /\ last' = command /\ UNCHANGED torn
  BY <1>1, <1>2, <1>3
<1>4. CASE /\ torn' = torn + 1
           /\ last' = "torn"
           /\ \E k \in 1..(Len(states) - 1) : disk' = states[k]
  BY <1>1, <1>2, <1>4
<1>5. QED
  BY <1>3, <1>4 DEF Run

LEMMA EntryWritten ==
    ASSUME NEW d \in Disks, NEW r \in Releases, NEW i \in Ids, NEW e \in Entry \cup {None}
    PROVE  LET new == WithEntry(d, r, i, e) IN
           /\ new \in Disks /\ new.count = d.count /\ new.sheet = d.sheet
           /\ \A q \in Releases, j \in Ids :
                new.entries[q][j] = IF q = r /\ j = i THEN e ELSE d.entries[q][j]
<1> DEFINE new == WithEntry(d, r, i, e)
           files == [d.entries[r] EXCEPT ![i] = e]
<1>1. d.entries \in [Releases -> [Ids -> Entry \cup {None}]]
  BY DEF Disks
<1>2. /\ files \in [Ids -> Entry \cup {None}]
      /\ \A j \in Ids : files[j] = IF j = i THEN e ELSE d.entries[r][j]
  BY <1>1
<1>3. new.entries = [d.entries EXCEPT ![r] = files] /\ new.count = d.count /\ new.sheet = d.sheet
  BY DEF WithEntry
<1>4. new = [entries |-> new.entries, count |-> d.count, sheet |-> d.sheet]
  BY DEF WithEntry
<1> HIDE DEF files, new
<1>5. new.entries \in [Releases -> [Ids -> Entry \cup {None}]]
  BY <1>1, <1>2, <1>3
<1>6. new \in Disks
  BY <1>4, <1>5 DEF Disks
<1>7. ASSUME NEW q \in Releases, NEW j \in Ids
      PROVE  new.entries[q][j] = IF q = r /\ j = i THEN e ELSE d.entries[q][j]
  BY <1>1, <1>2, <1>3
<1>8. QED
  BY <1>3, <1>6, <1>7 DEF new

LEMMA CountWritten ==
    ASSUME NEW d \in Disks, NEW r \in Releases, NEW n \in Nat
    PROVE  LET new == WithCount(d, r, n) IN
           /\ new \in Disks /\ new.entries = d.entries /\ new.sheet = d.sheet
           /\ \A q \in Releases : new.count[q] = IF q = r THEN n ELSE d.count[q]
BY DEF Disks, WithCount

LEMMA SheetWritten ==
    ASSUME NEW d \in Disks, NEW r \in Releases, NEW rows \in Sheet \cup {None}
    PROVE  LET new == WithSheet(d, r, rows) IN
           /\ new \in Disks /\ new.entries = d.entries /\ new.count = d.count
           /\ \A q \in Releases : new.sheet[q] = IF q = r THEN rows ELSE d.sheet[q]
<1> DEFINE new == WithSheet(d, r, rows)
<1>1. new = [entries |-> d.entries, count |-> d.count, sheet |-> [d.sheet EXCEPT ![r] = rows]]
  BY DEF WithSheet
<1>2. d \in [entries : [Releases -> [Ids -> Entry \cup {None}]],
             count : [Releases -> Nat], sheet : [Releases -> Sheet \cup {None}]]
  BY DEF Disks
<1> HIDE DEF new
<1>3. [d.sheet EXCEPT ![r] = rows] \in [Releases -> Sheet \cup {None}]
  BY <1>2
<1>4. new \in Disks
  BY <1>1, <1>2, <1>3 DEF Disks
<1>5. QED
  BY <1>1, <1>2, <1>4 DEF new

LEMMA RecordType ==
    ASSUME NEW c \in Content, NEW n \in Nat
    PROVE  /\ Record(c, n) \in Entry /\ Record(c, n) # None
           /\ Record(c, n).text = c.text /\ Record(c, n).refs = c.refs
           /\ Record(c, n).status = c.status /\ Record(c, n).order = n
BY FilesAssumption DEF Record, Content, Entry

-----------------------------------------------------------------------------
(* Counting entries.                                                         *)

LEMMA ListedFinite ==
    ASSUME NEW d, NEW r
    PROVE  /\ Listed(d, r) \subseteq Ids /\ Ids \subseteq Nat
           /\ IsFiniteSet(Listed(d, r)) /\ Length(d, r) \in Nat
<1>1. MaxId \in Nat /\ Ids \subseteq Nat /\ Listed(d, r) \subseteq Ids
  BY EntryAuditAssumption DEF Listed, Ids
<1>2. IsFiniteSet(Ids)
  BY <1>1, FS_Interval DEF Ids
<1>3. IsFiniteSet(Listed(d, r))
  BY <1>1, <1>2, FS_Subset
<1>4. QED
  BY <1>1, <1>3, FS_CardinalityType DEF Length

\* The least number above all ids in use: next_entry_id.
LEMMA NextIdIsFree ==
    ASSUME NEW d, NEW r
    PROVE  /\ NextId(d, r) \in 1..(MaxId + 1)
           /\ \A i \in Listed(d, r) : i < NextId(d, r)
<1> DEFINE Above == {n \in Nat : n # 0 /\ \A i \in Listed(d, r) : i < n}
<1>1. MaxId \in Nat /\ Listed(d, r) \subseteq 1..MaxId
  BY EntryAuditAssumption DEF Listed, Ids
<1>2. MaxId + 1 \in Above
  BY <1>1
<1>3. PICK n \in Above : \A m \in Above : ~(<<m, n>> \in OpToRel(<, Nat))
  BY <1>2, WFMin, NatLessThanWellFounded
<1>4. \A m \in Above : ~(m < n)
  BY <1>3 DEF OpToRel
<1>5. n \in 1..(MaxId + 1)
  BY <1>1, <1>2, <1>4
<1>6. n = 1 \/ n - 1 \in Listed(d, r)
  <2>1. SUFFICES ASSUME n # 1 PROVE n - 1 \in Listed(d, r)
    OBVIOUS
  <2>2. n - 1 \in Nat /\ n - 1 # 0 /\ n - 1 \notin Above
    BY <1>4, <2>1
  <2>3. PICK i \in Listed(d, r) : ~(i < n - 1)
    BY <2>2
  <2>4. i = n - 1
    BY <1>1, <2>3
  <2>5. QED
    BY <2>3, <2>4
<1>7. \E m \in 1..(MaxId + 1) : /\ \A i \in Listed(d, r) : i < m
                                /\ m = 1 \/ m - 1 \in Listed(d, r)
  BY <1>5, <1>6
<1>8. QED
  BY <1>7 DEF NextId

LEMMA NextIdIsNew ==
    ASSUME NEW d, NEW r
    PROVE  NextId(d, r) \in Nat /\ NextId(d, r) \notin Listed(d, r)
<1>1. MaxId \in Nat
  BY EntryAuditAssumption
<1>2. QED
  BY <1>1, NextIdIsFree

\* The order of a moved entry comes after all orders in its new release.
LEMMA NextOrderType ==
    ASSUME NEW d \in Disks, NEW r \in Releases
    PROVE  NextOrder(d, r) \in Nat
<1> DEFINE order(i) == d.entries[r][i].order
           orders == {0} \cup {e.order : e \in EntriesOf(d, r)}
           Later(n) == {i \in Listed(d, r) : n < order(i)}
           Laters == {Later(n) : n \in orders}
<1>1. orders = {0} \cup {order(i) : i \in Listed(d, r)}
  BY DEF EntriesOf
<1>2. \A i \in Listed(d, r) : order(i) \in Nat
  <2>1. ASSUME NEW i \in Listed(d, r) PROVE d.entries[r][i] \in Entry
    BY <2>1 DEF Listed, Disks
  <2>2. QED
    BY <2>1 DEF Entry
<1>3. orders \subseteq Nat
  BY <1>1, <1>2
<1>4. Laters \subseteq FiniteSubsetsOf(Listed(d, r)) /\ Laters # {}
  <2>1. \A n : Later(n) \in SUBSET Listed(d, r)
    OBVIOUS
  <2>2. \A n : IsFiniteSet(Later(n))
    BY <2>1, ListedFinite, FS_Subset
  <2>3. \A n : Later(n) \in FiniteSubsetsOf(Listed(d, r))
    BY <2>1, <2>2 DEF FiniteSubsetsOf
  <2>4. Later(0) \in Laters
    OBVIOUS
  <2>5. QED
    BY <2>3, <2>4
<1>5. PICK L \in Laters :
        \A M \in Laters : ~(<<M, L>> \in StrictSubsetOrdering(Listed(d, r)))
  BY <1>4, FS_StrictSubsetOrderingWellFounded, WFMin
<1>6. PICK n \in orders : L = Later(n)
  BY <1>5
<1>7. ASSUME NEW m \in orders, n < m PROVE FALSE
  <2>1. PICK i \in Listed(d, r) : order(i) = m
    <3>1. n \in Nat /\ m \in Nat /\ m # 0
      BY <1>3, <1>7
    <3>2. m \in {order(i) : i \in Listed(d, r)}
      BY <1>1, <3>1
    <3>3. QED
      BY <3>2
  <2>2. i \in Later(n) /\ i \notin Later(m)
    BY <1>2, <1>7, <2>1
  <2>3. Later(m) \subseteq Later(n)
    BY <1>2, <1>3, <1>7
  <2>4. <<Later(m), L>> \in StrictSubsetOrdering(Listed(d, r))
    BY <1>6, <2>2, <2>3 DEF StrictSubsetOrdering
  <2>5. QED
    BY <1>5, <2>4
<1>8. \A m \in orders : m <= n
  BY <1>3, <1>7
<1> DEFINE top == CHOOSE k \in orders : \A m \in orders : m <= k
<1>9. top \in orders
  <2> HIDE DEF orders
  <2>1. \E k \in orders : \A m \in orders : m <= k
    BY <1>8
  <2>2. QED
    BY <2>1
<1>10. NextOrder(d, r) = 1 + top
  BY DEF NextOrder
<1> HIDE DEF orders, top
<1>11. QED
  BY <1>3, <1>9, <1>10

-----------------------------------------------------------------------------
(* Rows and their targets.                                                   *)

LEMMA StoredEntry ==
    ASSUME NEW d \in Disks, NEW r \in Releases, NEW i \in Listed(d, r)
    PROVE  /\ i \in Ids /\ i \in Nat /\ d.entries[r][i] \in Entry
           /\ d.entries[r][i].order \in Nat /\ d.entries[r][i].refs \in SUBSET Refs
<1>1. i \in Ids /\ d.entries[r][i] \in Entry
  BY DEF Listed, Disks
<1>2. QED
  BY <1>1, ListedFinite DEF Entry

LEMMA SheetType ==
    ASSUME NEW d \in Disks, NEW r \in Releases
    PROVE  /\ d.sheet[r] = None \/ d.sheet[r] \in Sheet
           /\ \A ref \in Rows(d, r) : /\ d.sheet[r] \in Sheet /\ d.sheet[r] # None
                                      /\ ref \in Refs /\ d.sheet[r][ref] \in Annotation
<1>1. d.sheet[r] \in Sheet \cup {None}
  BY DEF Disks
<1>2. QED
  BY <1>1 DEF Rows, Sheet

\* Every set of entries has a first one in the order of load_entries.
LEMMA FirstSorts ==
    ASSUME NEW d \in Disks, NEW r \in Releases, NEW S \in SUBSET Listed(d, r), S # {}
    PROVE  \E i \in S : \A j \in S : SortsBefore(d, r, i, j)
<1> DEFINE order(i) == d.entries[r][i].order
           orders == {order(i) : i \in S}
<1>1. \A i \in S : i \in Nat /\ order(i) \in Nat
  BY StoredEntry
<1>2. orders \subseteq Nat /\ orders # {}
  BY <1>1
<1>3. PICK n \in orders : \A m \in orders : ~(<<m, n>> \in OpToRel(<, Nat))
  BY <1>2, WFMin, NatLessThanWellFounded
<1>4. \A m \in orders : ~(m < n)
  BY <1>2, <1>3 DEF OpToRel
<1> DEFINE firsts == {i \in S : order(i) = n}
<1>5. firsts \subseteq Nat /\ firsts # {}
  BY <1>1, <1>3
<1>6. PICK i \in firsts : \A j \in firsts : ~(<<j, i>> \in OpToRel(<, Nat))
  BY <1>5, WFMin, NatLessThanWellFounded
<1>7. \A j \in firsts : ~(j < i)
  BY <1>5, <1>6 DEF OpToRel
<1>8. ASSUME NEW j \in S PROVE SortsBefore(d, r, i, j)
  <2>1. i \in Nat /\ j \in Nat /\ order(i) = n /\ order(j) \in Nat /\ n \in Nat
    BY <1>1, <1>2
  <2>2. n < order(j) \/ (order(j) = n /\ i <= j)
    <3>1. ~(order(j) < n)
      BY <1>4
    <3>2. order(j) = n => ~(j < i)
      BY <1>7
    <3> HIDE DEF order
    <3>3. QED
      BY <2>1, <3>1, <3>2
  <2>3. QED
    BY <2>1, <2>2 DEF SortsBefore
<1>9. QED
  BY <1>8

LEMMA FirstOwnerOwns ==
    ASSUME NEW d \in Disks, NEW r \in Releases, NEW ref, Owners(d, r, ref) # {}
    PROVE  FirstOwner(d, r, ref) \in Listed(d, r)
<1>1. Owners(d, r, ref) \subseteq Listed(d, r)
  BY DEF Owners
<1>2. \E i \in Owners(d, r, ref) : \A j \in Owners(d, r, ref) : SortsBefore(d, r, i, j)
  BY <1>1, FirstSorts
<1>3. FirstOwner(d, r, ref) \in Owners(d, r, ref)
  BY <1>2 DEF FirstOwner
<1>4. QED
  BY <1>1, <1>3

LEMMA RetargetedType ==
    ASSUME NEW row \in Annotation, NEW id \in Ids \cup {None}, NEW key \in Keys \cup {None}
    PROVE  LET new == Retargeted(row, id, key) IN
           /\ new \in Annotation /\ new.id = id /\ new.key = key
           /\ new.decision = row.decision /\ new.inspected = row.inspected
           /\ new.stale = row.stale
BY DEF Annotation, Retargeted

\* A row that comes from row of a sheet: the review stays.
Follows(new, row) ==
    new.decision = row.decision /\ new.inspected = row.inspected /\ (row.stale => new.stale)

\* sync points a row at an entry there is, or leaves it as it was.
LEMMA SyncedRows ==
    ASSUME NEW d \in Disks, NEW r \in Releases, d.sheet[r] # None
    PROVE  /\ Synced(d, r) \in Sheet
           /\ \A ref \in Refs :
                LET row == d.sheet[r][ref]
                    new == Synced(d, r)[ref] IN
                /\ new = None <=> row = None
                /\ row # None =>
                    /\ Follows(new, row)
                    /\ \/ new = row
                       \/ new.id \in Listed(d, r)
<1>0. d.sheet[r] \in Sheet
  BY SheetType
<1>1. ASSUME NEW ref \in Refs
      PROVE  LET row == d.sheet[r][ref]
                 new == Synced(d, r)[ref] IN
             /\ new \in Annotation \cup {None}
             /\ new = None <=> row = None
             /\ row # None =>
                 /\ Follows(new, row)
                 /\ new = row \/ new.id \in Listed(d, r)
  <2> DEFINE row == d.sheet[r][ref]
             id == FirstOwner(d, r, ref)
  <2>1. row \in Annotation \cup {None}
    BY <1>0 DEF Sheet
  <2>2. Synced(d, r)[ref] = IF row = None \/ Owners(d, r, ref) = {} THEN row
                            ELSE Retargeted(row, id, row.key)
    BY DEF Synced
  <2>3. CASE row = None \/ Owners(d, r, ref) = {}
    BY <2>1, <2>2, <2>3 DEF Follows
  <2>4. CASE row # None /\ Owners(d, r, ref) # {}
    <3>1. row \in Annotation /\ row.key \in Keys \cup {None}
      BY <2>1, <2>4 DEF Annotation
    <3>2. id \in Listed(d, r) /\ id \in Ids
      BY <2>4, FirstOwnerOwns, StoredEntry
    <3> DEFINE new == Retargeted(row, id, row.key)
    <3>3. /\ new \in Annotation /\ new.id = id /\ new.decision = row.decision
          /\ new.inspected = row.inspected /\ new.stale = row.stale
      BY <3>1, <3>2, RetargetedType
    <3>4. new # None /\ Synced(d, r)[ref] = new
      BY <2>2, <2>4, <3>3, EntryAuditAssumption
    <3> HIDE DEF new, id, row
    <3>5. QED
      BY <2>4, <3>2, <3>3, <3>4 DEF Follows, row
  <2>5. QED
    BY <2>3, <2>4
<1>2. Synced(d, r) \in Sheet
  <2>1. Synced(d, r) = [ref \in Refs |-> Synced(d, r)[ref]]
    BY DEF Synced
  <2>2. \A ref \in Refs : Synced(d, r)[ref] \in Annotation \cup {None}
    BY <1>1
  <2> DEFINE f == Synced(d, r)
  <2> HIDE DEF f
  <2>3. f \in [Refs -> Annotation \cup {None}]
    BY <2>1, <2>2 DEF f
  <2>4. QED
    BY <2>3 DEF f, Sheet
<1>3. QED
  BY <1>1, <1>2

\* The target of a row, written out.
LEMMA DanglingRow ==
    ASSUME NEW d \in Disks, NEW r \in Releases, NEW ref \in Rows(d, r)
    PROVE  LET row == d.sheet[r][ref] IN
           Dangling(d, r, ref) <=>
               \/ row.id # None /\ d.entries[r][row.id] = None
               \/ /\ row.id = None /\ row.key # None
                  /\ row.key.release \in {None, r} => d.entries[r][row.key.id] = None
<1> DEFINE row == d.sheet[r][ref]
           byId == [release |-> None, id |-> row.id]
<1>1. row \in Annotation
  BY SheetType
<1>2. row.id \in Ids \cup {None}
  BY <1>1 DEF Annotation
<1>3. CASE row.id # None
  <2>1. byId \in Keys /\ byId.release = None /\ byId.id = row.id
    BY <1>2, <1>3 DEF Keys
  <2>2. byId # None
    BY <2>1, EntryAuditAssumption
  <2> HIDE DEF byId
  <2>3. Dangling(d, r, ref) <=>
            byId # None /\ (byId.release \in {None, r} => d.entries[r][byId.id] = None)
    BY <1>3 DEF Dangling, byId
  <2>4. QED
    BY <1>3, <2>1, <2>2, <2>3
<1>4. CASE row.id = None
  BY <1>4 DEF Dangling
<1>5. QED
  BY <1>3, <1>4

-----------------------------------------------------------------------------
(* What a step does, and what is enough for it.                              *)

Exact(d) == \A r \in Releases : d.count[r] = Length(d, r)

TargetsHold(d, e) ==
    \A r \in Releases : \A ref \in Rows(e, r) :
        Dangling(e, r, ref) => \E q \in Releases : ref \in Rows(d, q) /\ Dangling(d, q, ref)

ReviewHolds(d, e) ==
    \A r \in Releases : \A ref \in Rows(d, r) :
        d.sheet[r][ref].inspected =>
            \E q \in Releases : ref \in Rows(e, q) /\ Kept(d.sheet[r][ref], e.sheet[q][ref])

Conserves(d, e) ==
    /\ \A c \in Content : Cardinality(Holding(e, c)) = Cardinality(Holding(d, c))
    /\ \A ref \in Refs, x \in Decisions :
        Cardinality(Deciding(e, ref, x)) = Cardinality(Deciding(d, ref, x))
    /\ \A r \in Releases : \A i \in Listed(d, r) :
        e.entries[r][i] = None => Targeting(e, r, i) = {}

Unasked == {"torn", "apply", "overwrite", "remove", "detach"}

StepHolds ==
    /\ disk' \in Disks /\ commands' \in Nat /\ torn' \in Nat
    /\ torn' = 0 => torn = 0 /\ (Exact(disk) => Exact(disk'))
    /\ last' \notin {"torn", "apply"} => TargetsHold(disk, disk')
    /\ last' \notin Unasked => ReviewHolds(disk, disk')
    /\ last' = "move" => Conserves(disk, disk')

LEMMA StepFrom ==
    ASSUME TypeOK, NEW command, NEW states \in Seq(Disks), states # <<>>,
           Run(command, states),
           NEW e, e = states[Len(states)],
           Exact(disk) => Exact(e),
           command # "apply" => TargetsHold(disk, e),
           command \notin Unasked => ReviewHolds(disk, e),
           command = "move" => Conserves(disk, e)
    PROVE  StepHolds
<1>1. /\ disk' \in Disks /\ commands' \in Nat /\ torn' \in Nat
      /\ \/ disk' = e /\ last' = command /\ torn' = torn
         \/ last' = "torn" /\ torn' # 0
  BY RunEffect
<1>2. CASE last' = "torn" /\ torn' # 0
  BY <1>1, <1>2 DEF StepHolds, Unasked
<1>3. CASE disk' = e /\ last' = command /\ torn' = torn
  BY <1>1, <1>3, Zenon DEF StepHolds, Unasked
<1>4. QED
  BY <1>1, <1>2, <1>3

\* The commands that save one file, and those that save two.
LEMMA OneState ==
    ASSUME TypeOK, NEW command, NEW e \in Disks, Run(command, <<e>>),
           Exact(disk) => Exact(e),
           command # "apply" => TargetsHold(disk, e),
           command \notin Unasked => ReviewHolds(disk, e),
           command # "move"
    PROVE  StepHolds
<1> DEFINE states == <<e>>
<1>1. states \in Seq(Disks) /\ states # <<>> /\ states[Len(states)] = e
  OBVIOUS
<1>2. Run(command, states)
  OBVIOUS
<1> HIDE DEF states
<1>3. QED
  BY <1>1, <1>2, StepFrom

LEMMA TwoStates ==
    ASSUME TypeOK, NEW command, NEW d \in Disks, NEW e \in Disks, Run(command, <<d, e>>),
           Exact(disk) => Exact(e),
           command # "apply" => TargetsHold(disk, e),
           command \notin Unasked => ReviewHolds(disk, e),
           command # "move"
    PROVE  StepHolds
<1> DEFINE states == <<d, e>>
<1>1. states \in Seq(Disks) /\ states # <<>> /\ states[Len(states)] = e
  OBVIOUS
<1>2. Run(command, states)
  OBVIOUS
<1> HIDE DEF states
<1>3. QED
  BY <1>1, <1>2, StepFrom

EntriesStay(d, e) ==
    \A r \in Releases, i \in Ids : d.entries[r][i] # None => e.entries[r][i] # None

\* A row that is new without a target, pointed at an entry there is, or kept and
\* about none of the entries that are gone.
RowFollows(d, e, r, ref) ==
    LET row == e.sheet[r][ref]
        old == d.sheet[r][ref] IN
    \/ row.id = None /\ row.key = None
    \/ row.id \in Listed(e, r)
    \/ /\ ref \in Rows(d, r) /\ row.id = old.id /\ row.key = old.key
       /\ \A i \in Listed(d, r) \ Listed(e, r) : ~Names(old, r, i)

RowsFollow(d, e) == \A r \in Releases : \A ref \in Rows(e, r) : RowFollows(d, e, r, ref)

LEMMA NoneGone ==
    ASSUME NEW d, NEW e, EntriesStay(d, e)
    PROVE  \A r \in Releases : Listed(d, r) \ Listed(e, r) = {}
BY DEF EntriesStay, Listed

LEMMA TargetsFollow ==
    ASSUME NEW d \in Disks, NEW e \in Disks, RowsFollow(d, e)
    PROVE  TargetsHold(d, e)
<1> SUFFICES ASSUME NEW r \in Releases, NEW ref \in Rows(e, r), Dangling(e, r, ref)
             PROVE  ref \in Rows(d, r) /\ Dangling(d, r, ref)
  BY DEF TargetsHold
<1> DEFINE row == e.sheet[r][ref]
           old == d.sheet[r][ref]
<1>1. \/ row.id # None /\ e.entries[r][row.id] = None
      \/ /\ row.id = None /\ row.key # None
         /\ row.key.release \in {None, r} => e.entries[r][row.key.id] = None
  BY DanglingRow
<1>2. row.id \notin Listed(e, r)
  <2>1. None \notin Ids
    BY EntryAuditAssumption
  <2>2. QED
    BY <1>1, <2>1 DEF Listed
<1>3. /\ ref \in Rows(d, r) /\ row.id = old.id /\ row.key = old.key
      /\ \A i \in Listed(d, r) \ Listed(e, r) : ~Names(old, r, i)
  BY <1>1, <1>2 DEF RowsFollow, RowFollows
<1>4. old \in Annotation
  BY <1>3, SheetType
<1>5. /\ old.id # None => old.id \in Ids
      /\ old.key # None => old.key.id \in Ids
  BY <1>4 DEF Annotation, Keys
<1> HIDE DEF row, old
<1>6. ASSUME NEW i \in Ids, Names(old, r, i), e.entries[r][i] = None
      PROVE  d.entries[r][i] = None
  BY <1>3, <1>6 DEF Listed
<1>7. \/ old.id # None /\ d.entries[r][old.id] = None
      \/ /\ old.id = None /\ old.key # None
         /\ old.key.release \in {None, r} => d.entries[r][old.key.id] = None
  BY <1>1, <1>3, <1>5, <1>6 DEF Names
<1>8. Dangling(d, r, ref)
  BY <1>3, <1>7, DanglingRow DEF old
<1>9. QED
  BY <1>3, <1>8

LEMMA ReviewFollows ==
    ASSUME NEW d, NEW e,
           \A r \in Releases : \A ref \in Rows(d, r) :
                ref \in Rows(e, r) /\ Follows(e.sheet[r][ref], d.sheet[r][ref])
    PROVE  ReviewHolds(d, e)
BY DEF ReviewHolds, Follows, Kept

\* Commands that only add or replace entries.
LEMMA SheetsUntouched ==
    ASSUME NEW d \in Disks, NEW e \in Disks, EntriesStay(d, e), e.sheet = d.sheet
    PROVE  TargetsHold(d, e) /\ ReviewHolds(d, e)
<1>1. \A r : Rows(e, r) = Rows(d, r)
  BY DEF Rows
<1>2. RowsFollow(d, e)
  BY <1>1, NoneGone DEF RowsFollow, RowFollows
<1>3. ReviewHolds(d, e)
  BY <1>1, ReviewFollows DEF Follows
<1>4. QED
  BY <1>2, <1>3, TargetsFollow

\* Commands that write one release and its number of entries.
LEMMA CountedRight ==
    ASSUME NEW d \in Disks, NEW e \in Disks, NEW r \in Releases, Exact(d),
           \A q \in Releases \ {r} :
                e.count[q] = d.count[q] /\ \A i \in Ids : e.entries[q][i] = d.entries[q][i],
           e.count[r] = Length(e, r)
    PROVE  Exact(e)
<1>1. ASSUME NEW q \in Releases \ {r} PROVE Listed(e, q) = Listed(d, q)
  BY DEF Listed
<1>2. QED
  BY <1>1 DEF Exact, Length

LEMMA LengthAfter ==
    ASSUME NEW d, NEW e, NEW r, NEW i, Listed(e, r) = Listed(d, r) \cup {i}
    PROVE  Length(e, r) = IF i \in Listed(d, r) THEN Length(d, r) ELSE Length(d, r) + 1
BY ListedFinite, FS_AddElement DEF Length

LEMMA LengthWithout ==
    ASSUME NEW d, NEW e, NEW r, NEW i \in Listed(d, r), Listed(e, r) = Listed(d, r) \ {i}
    PROVE  Length(d, r) # 0 /\ Length(e, r) = Length(d, r) - 1
<1>1. Length(d, r) \in Nat /\ Length(e, r) \in Nat
  BY ListedFinite
<1>2. Cardinality(Listed(d, r) \ {i}) = Cardinality(Listed(d, r)) - 1
  BY ListedFinite, FS_RemoveElement
<1>3. Length(e, r) = Length(d, r) - 1
  BY <1>2 DEF Length
<1>4. QED
  BY <1>1, <1>3

-----------------------------------------------------------------------------
(* Entries added and replaced.                                               *)

\* One entry saved in one file, with the number of entries after it or, where
\* the file was there before, without.
LEMMA EntrySaved ==
    ASSUME TypeOK, NEW r \in Releases, NEW i \in Ids, NEW x \in Entry
    PROVE  LET stored == WithEntry(disk, r, i, x)
               counted == WithCount(stored, r, Length(disk, r) + 1) IN
           /\ stored \in Disks /\ counted \in Disks
           /\ TargetsHold(disk, stored) /\ ReviewHolds(disk, stored)
           /\ TargetsHold(disk, counted) /\ ReviewHolds(disk, counted)
           /\ disk.entries[r][i] # None => (Exact(disk) => Exact(stored))
           /\ disk.entries[r][i] = None => (Exact(disk) => Exact(counted))
<1> DEFINE stored == WithEntry(disk, r, i, x)
           counted == WithCount(stored, r, Length(disk, r) + 1)
<1>1. disk \in Disks /\ x # None
  BY FilesAssumption DEF TypeOK, Disks
<1>2. /\ stored \in Disks /\ stored.count = disk.count /\ stored.sheet = disk.sheet
      /\ \A q \in Releases, j \in Ids :
            stored.entries[q][j] = IF q = r /\ j = i THEN x ELSE disk.entries[q][j]
  BY <1>1, EntryWritten
<1>3. Length(disk, r) + 1 \in Nat
  BY ListedFinite
<1> HIDE DEF stored
<1>4. /\ counted \in Disks /\ counted.entries = stored.entries /\ counted.sheet = stored.sheet
      /\ \A q \in Releases :
            counted.count[q] = IF q = r THEN Length(disk, r) + 1 ELSE stored.count[q]
  BY <1>2, <1>3, CountWritten
<1> HIDE DEF counted
<1>5. EntriesStay(disk, stored) /\ EntriesStay(disk, counted)
  BY <1>1, <1>2, <1>4 DEF EntriesStay
<1>6. Listed(stored, r) = Listed(disk, r) \cup {i} /\ Listed(counted, r) = Listed(stored, r)
  BY <1>1, <1>2, <1>4 DEF Listed
<1>7. i \in Listed(disk, r) <=> disk.entries[r][i] # None
  BY DEF Listed
<1>8. ASSUME Exact(disk), disk.entries[r][i] # None PROVE Exact(stored)
  <2>1. Length(stored, r) = Length(disk, r)
    BY <1>6, <1>7, <1>8, LengthAfter
  <2>2. QED
    BY <1>1, <1>2, <1>8, <2>1, CountedRight DEF Exact
<1>9. ASSUME Exact(disk), disk.entries[r][i] = None PROVE Exact(counted)
  <2>1. Length(counted, r) = Length(disk, r) + 1
    BY <1>6, <1>7, <1>9, LengthAfter
  <2>2. QED
    BY <1>1, <1>2, <1>4, <1>9, <2>1, CountedRight
<1>10. QED
  BY <1>1, <1>2, <1>4, <1>5, <1>8, <1>9, SheetsUntouched DEF stored, counted

LEMMA AddHolds ==
    ASSUME TypeOK, NEW r \in Releases, NEW c \in Inputs, AddEntry(r, c)
    PROVE  StepHolds
<1> DEFINE i == NextId(disk, r)
           x == Record(c, Length(disk, r) + 1)
           added == WithEntry(disk, r, i, x)
           counted == WithCount(added, r, CountAfterAdd(r))
<1>1. i \in Ids /\ Run("add", <<added, counted>>)
  BY DEF AddEntry
<1>2. x \in Entry
  BY EntryAuditAssumption, ListedFinite, RecordType
<1>3. disk.entries[r][i] = None
  BY <1>1, NextIdIsNew DEF Listed
<1> HIDE DEF x, i
<1>4. /\ added \in Disks /\ counted \in Disks
      /\ TargetsHold(disk, counted) /\ ReviewHolds(disk, counted)
      /\ Exact(disk) => Exact(counted)
  BY <1>1, <1>2, <1>3, EntrySaved DEF CountAfterAdd
<1> HIDE DEF added, counted
<1>5. QED
  BY <1>1, <1>4, TwoStates

LEMMA UpdateHolds ==
    ASSUME TypeOK, NEW r \in Releases, NEW i \in Ids, NEW c \in Inputs, UpdateEntry(r, i, c)
    PROVE  StepHolds
<1> DEFINE x == Record(c, disk.entries[r][i].order)
           stored == WithEntry(disk, r, i, x)
<1>1. disk.entries[r][i] # None /\ Run("update", <<stored>>)
  BY DEF UpdateEntry
<1>2. x \in Entry
  <2>1. i \in Listed(disk, r) /\ disk \in Disks
    BY <1>1 DEF Listed, TypeOK, Disks
  <2>2. QED
    BY <2>1, EntryAuditAssumption, StoredEntry, RecordType
<1> HIDE DEF x
<1>3. /\ stored \in Disks /\ TargetsHold(disk, stored) /\ ReviewHolds(disk, stored)
      /\ Exact(disk) => Exact(stored)
  BY <1>1, <1>2, EntrySaved
<1> HIDE DEF stored
<1>4. QED
  BY <1>1, <1>3, OneState

LEMMA ImportHolds ==
    ASSUME TypeOK, NEW r \in Releases, NEW i \in Ids, NEW c \in Inputs,
           NEW replaceExisting \in BOOLEAN, ImportEntry(r, i, c, replaceExisting)
    PROVE  StepHolds
<1> DEFINE old == disk.entries[r][i]
           x == Record(c, IF old = None THEN Length(disk, r) + 1 ELSE old.order)
           stored == WithEntry(disk, r, i, x)
           counted == WithCount(stored, r, Length(disk, r) + 1)
<1>1. Run("import", ImportStates(stored, r, old = None))
  BY DEF ImportEntry
<1>2. x \in Entry
  <2>1. old # None => i \in Listed(disk, r) /\ disk \in Disks
    BY DEF Listed, TypeOK, Disks
  <2>2. (IF old = None THEN Length(disk, r) + 1 ELSE old.order) \in Nat
    BY <2>1, ListedFinite, StoredEntry
  <2>3. QED
    BY <2>2, EntryAuditAssumption, RecordType
<1> HIDE DEF x
<1>3. /\ stored \in Disks /\ counted \in Disks
      /\ TargetsHold(disk, stored) /\ ReviewHolds(disk, stored)
      /\ TargetsHold(disk, counted) /\ ReviewHolds(disk, counted)
      /\ old # None => (Exact(disk) => Exact(stored))
      /\ old = None => (Exact(disk) => Exact(counted))
  BY <1>2, EntrySaved
<1>4. CASE old = None
  <2>1. Run("import", <<stored, counted>>)
    BY <1>1, <1>4 DEF ImportStates
  <2> HIDE DEF stored, counted
  <2>2. QED
    BY <1>3, <1>4, <2>1, TwoStates
<1>5. CASE old # None
  <2>1. Run("import", <<stored>>)
    BY <1>1, <1>5 DEF ImportStates
  <2> HIDE DEF stored, counted
  <2>2. QED
    BY <1>3, <1>5, <2>1, OneState
<1>6. QED
  BY <1>4, <1>5

-----------------------------------------------------------------------------
(* A batch of entries.                                                       *)

LEMMA BatchStored ==
    ASSUME NEW d \in Disks, NEW r \in Releases, NEW batch \in Batches,
           NextId(d, r) + Len(batch) - 1 \in Ids,
           NEW k \in 1..Len(batch)
    PROVE  LET new == WithBatch(d, r, batch, k) IN
           /\ new \in Disks /\ new.count = d.count /\ new.sheet = d.sheet
           /\ \A q \in Releases \ {r} : \A i \in Ids : new.entries[q][i] = d.entries[q][i]
           /\ Listed(d, r) \subseteq Listed(new, r)
           /\ Length(new, r) = Length(d, r) + k
<1> DEFINE first == NextId(d, r)
           new == WithBatch(d, r, batch, k)
           record(i) == Record(batch[i - first + 1], Length(d, r) + i - first + 1)
           files == [i \in Ids |-> IF i \in first..(first + k - 1) THEN record(i)
                                   ELSE d.entries[r][i]]
<1>1. /\ batch \in Seq(Content) /\ Len(batch) \in Nat /\ k \in Nat /\ k # 0 /\ k <= Len(batch)
      /\ MaxId \in Nat
  BY EntryAuditAssumption
<1>2. first \in Nat /\ first # 0 /\ \A i \in Listed(d, r) : i < first
  BY <1>1, NextIdIsFree
<1>3. first..(first + k - 1) \subseteq Ids
  BY <1>1, <1>2 DEF Ids
<1>4. Length(d, r) \in Nat
  BY ListedFinite
<1>5. ASSUME NEW i \in first..(first + k - 1)
      PROVE  record(i) \in Entry /\ record(i) # None
  <2>1. i - first + 1 \in 1..Len(batch) /\ i \in Nat /\ i - first \in Nat
    BY <1>1, <1>2
  <2>2. batch[i - first + 1] \in Content
    BY <1>1, <2>1
  <2>3. Length(d, r) + i - first + 1 \in Nat
    BY <1>2, <1>4, <2>1
  <2>4. QED
    BY <2>2, <2>3, RecordType
<1>6. d.entries \in [Releases -> [Ids -> Entry \cup {None}]]
  BY DEF Disks
<1>7. new = [entries |-> [d.entries EXCEPT ![r] = files], count |-> d.count, sheet |-> d.sheet]
  BY DEF WithBatch
<1> HIDE DEF record, new
<1>8. files \in [Ids -> Entry \cup {None}]
  BY <1>5, <1>6
<1>9. /\ \A i \in first..(first + k - 1) : files[i] # None
      /\ \A i \in Ids : i \notin first..(first + k - 1) => files[i] = d.entries[r][i]
  BY <1>3, <1>5
<1> HIDE DEF files
<1>10. [d.entries EXCEPT ![r] = files] \in [Releases -> [Ids -> Entry \cup {None}]]
  BY <1>6, <1>8
<1>11. new \in Disks /\ new.count = d.count /\ new.sheet = d.sheet
  BY <1>7, <1>10 DEF Disks
<1>12. /\ new.entries[r] = files
       /\ \A q \in Releases \ {r} : \A i \in Ids : new.entries[q][i] = d.entries[q][i]
  BY <1>6, <1>7
<1>13. Listed(new, r) = Listed(d, r) \cup first..(first + k - 1)
  <2> HIDE DEF first
  <2>1. ASSUME NEW i \in Ids
        PROVE  i \in Listed(new, r) <=> i \in Listed(d, r) \/ i \in first..(first + k - 1)
    BY <1>9, <1>12 DEF Listed
  <2>2. Listed(new, r) \subseteq Ids /\ Listed(d, r) \subseteq Ids
    BY DEF Listed
  <2>3. QED
    BY <1>3, <2>1, <2>2
<1>14. Listed(d, r) \cap first..(first + k - 1) = {}
  BY <1>1, <1>2, ListedFinite
<1>15. IsFiniteSet(first..(first + k - 1)) /\ Cardinality(first..(first + k - 1)) = k
  <2>1. first \in Int /\ first + k - 1 \in Int /\ ~(first > first + k - 1)
        /\ first + k - 1 - first + 1 = k
    BY <1>1, <1>2
  <2>2. QED
    BY <2>1, FS_Interval
<1>16. Length(new, r) = Length(d, r) + k
  <2>1. Cardinality(Listed(d, r) \cup first..(first + k - 1)) =
            Cardinality(Listed(d, r)) + Cardinality(first..(first + k - 1))
                - Cardinality(Listed(d, r) \cap first..(first + k - 1))
    BY <1>15, ListedFinite, FS_Union
  <2>2. Cardinality(Listed(d, r)) \in Nat
    BY <1>4 DEF Length
  <2>3. Cardinality(Listed(d, r) \cap first..(first + k - 1)) = 0
    BY <1>14, FS_EmptySet, Zenon
  <2>4. Cardinality(Listed(new, r)) = Cardinality(Listed(d, r)) + k
    BY <1>1, <1>13, <1>15, <2>1, <2>2, <2>3
  <2>5. QED
    BY <2>4 DEF Length
<1>17. QED
  BY <1>11, <1>12, <1>13, <1>16 DEF new

LEMMA AddManyHolds ==
    ASSUME TypeOK, NEW r \in Releases, NEW batch \in Batches, NEW sync \in BOOLEAN,
           AddMany(r, batch, sync)
    PROVE  StepHolds
<1> DEFINE n == Len(batch)
           added == WithBatch(disk, r, batch, n)
           synced == IF sync THEN WithSheet(added, r, Synced(added, r)) ELSE added
           counted == WithCount(synced, r, Length(disk, r) + n)
           stored == [k \in 1..n |-> WithBatch(disk, r, batch, k)]
           states == stored \o <<synced, counted>>
<1>1. /\ NextId(disk, r) + Len(batch) - 1 \in Ids
      /\ sync => disk.sheet[r] # None
      /\ Run("add-many", states)
  BY DEF AddMany
<1>2. disk \in Disks
  BY DEF TypeOK, Disks
<1>3. n \in Nat \ {0} /\ n \in 1..n
  BY EntryAuditAssumption
<1>4. \A k \in 1..n : WithBatch(disk, r, batch, k) \in Disks
  BY <1>1, <1>2, BatchStored
<1>5. /\ added \in Disks /\ added.count = disk.count /\ added.sheet = disk.sheet
      /\ \A q \in Releases \ {r} : \A i \in Ids : added.entries[q][i] = disk.entries[q][i]
      /\ Listed(disk, r) \subseteq Listed(added, r)
      /\ Length(added, r) = Length(disk, r) + n
  BY <1>1, <1>2, <1>3, BatchStored
<1> HIDE DEF added
<1>6. sync => /\ Synced(added, r) \in Sheet
              /\ \A ref \in Refs :
                    LET row == added.sheet[r][ref]
                        new == Synced(added, r)[ref] IN
                    /\ new = None <=> row = None
                    /\ row # None => Follows(new, row) /\ (new = row \/ new.id \in Listed(added, r))
  BY <1>1, <1>5, SyncedRows
<1>7. /\ synced \in Disks /\ synced.count = added.count /\ synced.entries = added.entries
      /\ \A q \in Releases : synced.sheet[q] =
            IF sync /\ q = r THEN Synced(added, r) ELSE disk.sheet[q]
  <2>1. CASE sync
    BY <1>5, <1>6, <2>1, SheetWritten
  <2>2. CASE ~sync
    BY <1>5, <2>2
  <2>3. QED
    BY <2>1, <2>2
<1> HIDE DEF synced
<1>8. Length(disk, r) + n \in Nat
  BY <1>3, ListedFinite
<1>9. /\ counted \in Disks /\ counted.entries = synced.entries /\ counted.sheet = synced.sheet
      /\ \A q \in Releases : counted.count[q] =
            IF q = r THEN Length(disk, r) + n ELSE synced.count[q]
  BY <1>7, <1>8, CountWritten
<1> HIDE DEF counted
<1>10. EntriesStay(disk, counted)
  BY <1>5, <1>7, <1>9 DEF EntriesStay, Listed
<1>11. /\ \A q \in Releases : Listed(counted, q) = Listed(added, q)
       /\ Length(counted, r) = Length(added, r)
  BY <1>7, <1>9 DEF Listed, Length
<1>12. ASSUME NEW q \in Releases, NEW ref \in Refs,
              disk.sheet[q] # None
       PROVE  LET row == disk.sheet[q][ref]
                  new == counted.sheet[q][ref] IN
              /\ counted.sheet[q] # None
              /\ new = None <=> row = None
              /\ row # None => Follows(new, row) /\ (new = row \/ new.id \in Listed(counted, q))
  <2>1. CASE sync /\ q = r
    <3>1. Synced(added, r) # None
      BY <1>6, <2>1, FilesAssumption
    <3>2. counted.sheet[q] = Synced(added, r) /\ disk.sheet[q] = added.sheet[q]
      BY <1>5, <1>7, <1>9, <2>1
    <3>3. Listed(counted, q) = Listed(added, r)
      BY <1>11, <2>1
    <3>4. QED
      BY <1>6, <2>1, <3>1, <3>2, <3>3
  <2>2. CASE ~(sync /\ q = r)
    BY <1>7, <1>9, <1>12, <2>2 DEF Follows
  <2>3. QED
    BY <2>1, <2>2
<1>13. ASSUME NEW q \in Releases
       PROVE  Rows(counted, q) = Rows(disk, q)
  <2>1. CASE disk.sheet[q] # None
    BY <1>12, <2>1 DEF Rows
  <2>2. CASE disk.sheet[q] = None
    BY <1>1, <1>7, <1>9, <2>2 DEF Rows
  <2>3. QED
    BY <2>1, <2>2
<1>14. RowsFollow(disk, counted)
  <2>1. ASSUME NEW q \in Releases, NEW ref \in Rows(counted, q)
        PROVE  RowFollows(disk, counted, q, ref)
    <3>1. /\ ref \in Rows(disk, q) /\ ref \in Refs
          /\ disk.sheet[q] # None /\ disk.sheet[q][ref] # None
      BY <1>2, <1>13, <2>1, SheetType DEF Rows
    <3>2. \/ counted.sheet[q][ref] = disk.sheet[q][ref]
          \/ counted.sheet[q][ref].id \in Listed(counted, q)
      BY <1>12, <3>1
    <3>3. Listed(disk, q) \ Listed(counted, q) = {}
      BY <1>10, NoneGone
    <3>4. QED
      BY <3>1, <3>2, <3>3 DEF RowFollows
  <2>2. QED
    BY <2>1 DEF RowsFollow
<1>15. TargetsHold(disk, counted)
  BY <1>2, <1>9, <1>14, TargetsFollow
<1>16. ReviewHolds(disk, counted)
  <2>1. ASSUME NEW q \in Releases, NEW ref \in Rows(disk, q)
        PROVE  ref \in Rows(counted, q) /\ Follows(counted.sheet[q][ref], disk.sheet[q][ref])
    <3>1. ref \in Refs /\ disk.sheet[q] # None /\ disk.sheet[q][ref] # None
      BY <1>2, SheetType DEF Rows
    <3>2. QED
      BY <1>12, <1>13, <3>1
  <2>2. QED
    BY <2>1, ReviewFollows
<1>17. Exact(disk) => Exact(counted)
  BY <1>2, <1>5, <1>7, <1>9, <1>11, CountedRight
<1>18. states \in Seq(Disks) /\ states # <<>> /\ counted = states[Len(states)]
  <2>1. stored \in Seq(Disks) /\ Len(stored) = n
    BY <1>3, <1>4
  <2>2. <<synced, counted>> \in Seq(Disks) /\ Len(<<synced, counted>>) = 2
        /\ <<synced, counted>>[2] = counted
    BY <1>7, <1>9
  <2> DEFINE two == <<synced, counted>>
  <2> HIDE DEF stored, n, two
  <2>3. stored \o two \in Seq(Disks) /\ Len(stored \o two) = n + 2
        /\ (stored \o two)[n + 2] = two[2]
    BY <1>3, <2>1, <2>2 DEF two
  <2>4. QED
    BY <1>3, <2>2, <2>3 DEF two
<1> HIDE DEF states
<1>19. QED
  BY <1>1, <1>15, <1>16, <1>17, <1>18, StepFrom

-----------------------------------------------------------------------------
(* The sheet commands.                                                       *)

LEMMA SheetSaved ==
    ASSUME TypeOK, NEW r \in Releases, NEW rows \in Sheet
    PROVE  LET e == WithSheet(disk, r, rows) IN
           /\ e \in Disks /\ (Exact(disk) => Exact(e))
           /\ (\A ref \in Refs : rows[ref] # None =>
                    \/ rows[ref].id = None /\ rows[ref].key = None
                    \/ rows[ref].id \in Listed(disk, r)
                    \/ /\ ref \in Rows(disk, r)
                       /\ rows[ref].id = disk.sheet[r][ref].id
                       /\ rows[ref].key = disk.sheet[r][ref].key)
                => TargetsHold(disk, e)
           /\ (\A ref \in Rows(disk, r) :
                    rows[ref] # None /\ Follows(rows[ref], disk.sheet[r][ref]))
                => ReviewHolds(disk, e)
<1> DEFINE e == WithSheet(disk, r, rows)
<1>1. disk \in Disks
  BY DEF TypeOK, Disks
<1>2. /\ e \in Disks /\ e.entries = disk.entries /\ e.count = disk.count
      /\ \A q \in Releases : e.sheet[q] = IF q = r THEN rows ELSE disk.sheet[q]
  BY <1>1, SheetWritten
<1>3. rows # None
  BY FilesAssumption
<1> HIDE DEF e
<1>4. \A q : Listed(e, q) = Listed(disk, q)
  BY <1>2 DEF Listed
<1>5. Exact(disk) => Exact(e)
  BY <1>2, <1>4 DEF Exact, Length
<1>6. \A q \in Releases \ {r} : Rows(e, q) = Rows(disk, q) /\ e.sheet[q] = disk.sheet[q]
  BY <1>2 DEF Rows
<1>7. e.sheet[r] = rows /\ Rows(e, r) = {ref \in Refs : rows[ref] # None}
  BY <1>2, <1>3 DEF Rows
<1>8. ASSUME \A ref \in Refs : rows[ref] # None =>
                \/ rows[ref].id = None /\ rows[ref].key = None
                \/ rows[ref].id \in Listed(disk, r)
                \/ /\ ref \in Rows(disk, r)
                   /\ rows[ref].id = disk.sheet[r][ref].id
                   /\ rows[ref].key = disk.sheet[r][ref].key
      PROVE  TargetsHold(disk, e)
  <2>1. ASSUME NEW q \in Releases, NEW ref \in Rows(e, q) PROVE RowFollows(disk, e, q, ref)
    <3>1. CASE q = r
      BY <1>4, <1>7, <1>8, <3>1 DEF RowFollows
    <3>2. CASE q # r
      BY <1>4, <1>6, <3>2 DEF RowFollows
    <3>3. QED
      BY <3>1, <3>2
  <2>2. QED
    BY <1>1, <1>2, <2>1, TargetsFollow DEF RowsFollow
<1>9. ASSUME \A ref \in Rows(disk, r) :
                rows[ref] # None /\ Follows(rows[ref], disk.sheet[r][ref])
      PROVE  ReviewHolds(disk, e)
  <2>1. ASSUME NEW q \in Releases, NEW ref \in Rows(disk, q)
        PROVE  ref \in Rows(e, q) /\ Follows(e.sheet[q][ref], disk.sheet[q][ref])
    <3>1. CASE q = r
      BY <1>1, <1>7, <1>9, <3>1, SheetType
    <3>2. CASE q # r
      BY <1>6, <3>2 DEF Follows
    <3>3. QED
      BY <3>1, <3>2
  <2>2. QED
    BY <2>1, ReviewFollows
<1>10. QED
  BY <1>2, <1>5, <1>8, <1>9 DEF e

LEMMA FreshType == Fresh \in Annotation /\ Fresh # None /\ Fresh.id = None /\ Fresh.key = None
<1>1. Fresh \in Annotation
  BY DEF Fresh, Annotation, Decisions
<1>2. QED
  BY <1>1, EntryAuditAssumption DEF Fresh

LEMMA CreateAuditHolds ==
    ASSUME TypeOK, NEW r \in Releases, NEW range \in SUBSET Refs, NEW overwrite \in BOOLEAN,
           CreateAudit(r, range, overwrite)
    PROVE  StepHolds
<1> DEFINE rows == [ref \in Refs |-> IF ref \in range THEN Fresh ELSE None]
           e == WithSheet(disk, r, rows)
           command == IF overwrite THEN "overwrite" ELSE "init"
<1>1. Run(command, <<e>>) /\ (disk.sheet[r] = None \/ overwrite)
  BY DEF CreateAudit
<1>2. rows \in Sheet
  BY FreshType DEF Sheet
<1>3. \A ref \in Refs : rows[ref] # None => rows[ref].id = None /\ rows[ref].key = None
  BY FreshType
<1> HIDE DEF rows
<1>4. ~overwrite => Rows(disk, r) = {}
  BY <1>1 DEF Rows
<1>5. /\ e \in Disks /\ (Exact(disk) => Exact(e)) /\ TargetsHold(disk, e)
      /\ ~overwrite => ReviewHolds(disk, e)
  BY <1>2, <1>3, <1>4, SheetSaved
<1>6. /\ command # "apply" /\ command # "move"
      /\ command \notin Unasked => ~overwrite
  BY DEF Unasked
<1> HIDE DEF e, command
<1>7. QED
  BY <1>1, <1>5, <1>6, OneState

LEMMA ApplyHolds ==
    ASSUME TypeOK, NEW r \in Releases, NEW ref \in Refs, NEW annotation \in Annotations,
           ApplyAudit(r, ref, annotation)
    PROVE  StepHolds
<1> DEFINE rows == [disk.sheet[r] EXCEPT ![ref] = annotation]
           e == WithSheet(disk, r, rows)
<1>1. Run("apply", <<e>>) /\ disk.sheet[r] # None
  BY DEF ApplyAudit
<1>2. disk \in Disks
  BY DEF TypeOK, Disks
<1>3. rows \in Sheet
  BY <1>1, <1>2, SheetType, EntryAuditAssumption DEF Sheet
<1> HIDE DEF rows
<1>4. e \in Disks /\ (Exact(disk) => Exact(e))
  BY <1>3, SheetSaved
<1> HIDE DEF e
<1>5. QED
  BY <1>1, <1>4, OneState DEF Unasked

LEMMA UpdateAuditHolds ==
    ASSUME TypeOK, NEW r \in Releases, NEW edited \in SUBSET Refs,
           NEW annotation \in Annotations, UpdateAudit(r, edited, annotation)
    PROVE  StepHolds
<1> DEFINE rows == [ref \in Refs |->
                        IF ref \in edited THEN annotation ELSE disk.sheet[r][ref]]
           e == WithSheet(disk, r, rows)
<1>1. Run("apply", <<e>>) /\ disk.sheet[r] # None
  BY DEF UpdateAudit
<1>2. disk \in Disks
  BY DEF TypeOK, Disks
<1>3. rows \in Sheet
  BY <1>1, <1>2, SheetType, EntryAuditAssumption DEF Sheet
<1> HIDE DEF rows
<1>4. e \in Disks /\ (Exact(disk) => Exact(e))
  BY <1>3, SheetSaved
<1> HIDE DEF e
<1>5. QED
  BY <1>1, <1>4, OneState DEF Unasked

LEMMA RefreshHolds ==
    ASSUME TypeOK, NEW r \in Releases, NEW range \in SUBSET Refs, NEW changed \in SUBSET Refs,
           NEW allowRemove \in BOOLEAN, RefreshAudit(r, range, changed, allowRemove)
    PROVE  StepHolds
<1> DEFINE old == disk.sheet[r]
           rows == [ref \in Refs |->
                    IF ref \notin range THEN None
                    ELSE IF old[ref] = None THEN Fresh
                    ELSE Refreshed(old[ref], ref \in changed)]
           e == WithSheet(disk, r, rows)
           command == IF allowRemove THEN "remove" ELSE "refresh"
<1>1. /\ Run(command, <<e>>) /\ old # None
      /\ Rows(disk, r) \subseteq range \/ allowRemove
  BY DEF RefreshAudit
<1>2. disk \in Disks /\ old \in Sheet
  BY <1>1, SheetType DEF TypeOK, Disks
<1>3. ASSUME NEW ref \in Refs, old[ref] # None
      PROVE  LET new == Refreshed(old[ref], ref \in changed) IN
             /\ new \in Annotation /\ Follows(new, old[ref])
             /\ new.id = old[ref].id /\ new.key = old[ref].key
  <2> DEFINE row == old[ref]
             new == Refreshed(row, ref \in changed)
  <2>1. row \in Annotation
    BY <1>2, <1>3 DEF Sheet
  <2>2. row.stale \in BOOLEAN
    BY <2>1 DEF Annotation
  <2>3. StaleAfter(row, ref \in changed) \in BOOLEAN
    BY Zenon DEF StaleAfter
  <2>4. row.stale => StaleAfter(row, ref \in changed)
    BY DEF StaleAfter
  <2>5. /\ new.decision = row.decision /\ new.inspected = row.inspected
        /\ new.stale = StaleAfter(row, ref \in changed)
        /\ new.id = row.id /\ new.key = row.key
    BY DEF Refreshed
  <2>6. new \in Annotation
    BY <2>1, <2>3 DEF Refreshed, Annotation
  <2> HIDE DEF new, row
  <2>7. new \in Annotation /\ Follows(new, row) /\ new.id = row.id /\ new.key = row.key
    BY <2>4, <2>5, <2>6 DEF Follows
  <2>8. QED
    BY <2>7 DEF new, row
<1>4. rows \in Sheet
  BY <1>3, FreshType DEF Sheet
<1>5. Rows(disk, r) = {ref \in Refs : old[ref] # None}
  BY <1>1 DEF Rows
<1>6. \A ref \in Refs : rows[ref] # None =>
            \/ rows[ref].id = None /\ rows[ref].key = None
            \/ /\ ref \in Rows(disk, r)
               /\ rows[ref].id = disk.sheet[r][ref].id
               /\ rows[ref].key = disk.sheet[r][ref].key
  BY <1>3, <1>5, FreshType
<1>7. ASSUME ~allowRemove, NEW ref \in Rows(disk, r)
      PROVE  rows[ref] # None /\ Follows(rows[ref], disk.sheet[r][ref])
  <2>1. ref \in Refs /\ ref \in range /\ old[ref] # None
    BY <1>1, <1>5, <1>7
  <2>2. rows[ref] = Refreshed(old[ref], ref \in changed)
    BY <2>1
  <2>3. QED
    BY <1>3, <2>1, <2>2, EntryAuditAssumption
<1> HIDE DEF rows
<1>8. /\ e \in Disks /\ (Exact(disk) => Exact(e)) /\ TargetsHold(disk, e)
      /\ ~allowRemove => ReviewHolds(disk, e)
  BY <1>4, <1>6, <1>7, SheetSaved
<1>9. /\ command # "apply" /\ command # "move"
      /\ command \notin Unasked => ~allowRemove
  BY DEF Unasked
<1> HIDE DEF e, command
<1>10. QED
  BY <1>1, <1>8, <1>9, OneState

LEMMA SyncHolds ==
    ASSUME TypeOK, NEW r \in Releases, SyncAudit(r)
    PROVE  StepHolds
<1> DEFINE rows == Synced(disk, r)
           e == WithSheet(disk, r, rows)
<1>1. Run("sync", <<e>>) /\ disk.sheet[r] # None
  BY DEF SyncAudit
<1>2. disk \in Disks
  BY DEF TypeOK, Disks
<1>3. /\ rows \in Sheet
      /\ \A ref \in Refs :
            /\ rows[ref] = None <=> disk.sheet[r][ref] = None
            /\ disk.sheet[r][ref] # None =>
                /\ Follows(rows[ref], disk.sheet[r][ref])
                /\ rows[ref] = disk.sheet[r][ref] \/ rows[ref].id \in Listed(disk, r)
  BY <1>1, <1>2, SyncedRows
<1> HIDE DEF rows
<1>4. Rows(disk, r) = {ref \in Refs : disk.sheet[r][ref] # None}
  BY <1>1 DEF Rows
<1>5. \A ref \in Refs : rows[ref] # None =>
            \/ rows[ref].id \in Listed(disk, r)
            \/ /\ ref \in Rows(disk, r)
               /\ rows[ref].id = disk.sheet[r][ref].id
               /\ rows[ref].key = disk.sheet[r][ref].key
  BY <1>3, <1>4
<1>6. \A ref \in Rows(disk, r) : rows[ref] # None /\ Follows(rows[ref], disk.sheet[r][ref])
  BY <1>3, <1>4
<1>7. e \in Disks /\ (Exact(disk) => Exact(e)) /\ TargetsHold(disk, e) /\ ReviewHolds(disk, e)
  BY <1>3, <1>5, <1>6, SheetSaved
<1> HIDE DEF e
<1>8. QED
  BY <1>1, <1>7, OneState

-----------------------------------------------------------------------------
(* Entries deleted and moved.                                                *)

LEMMA EntryRemoved ==
    ASSUME NEW d \in Disks, NEW r \in Releases, NEW i \in Listed(d, r), NEW e,
           \A q \in Releases, k \in Ids :
                e.entries[q][k] = IF q = r /\ k = i THEN None ELSE d.entries[q][k]
    PROVE  /\ \A q \in Releases \ {r} : Listed(e, q) = Listed(d, q)
           /\ Listed(e, r) = Listed(d, r) \ {i}
           /\ Length(d, r) # 0 /\ Length(e, r) = Length(d, r) - 1
<1>1. \A q \in Releases \ {r} : Listed(e, q) = Listed(d, q)
  BY DEF Listed
<1>2. Listed(e, r) = Listed(d, r) \ {i}
  BY DEF Listed
<1>3. QED
  BY <1>1, <1>2, LengthWithout

LEMMA DetachedType ==
    ASSUME NEW row \in Annotation
    PROVE  Detached(row) \in Annotation /\ Detached(row).id = None /\ Detached(row).key = None
BY DEF Detached, Annotation, Decisions

LEMMA DeleteHolds ==
    ASSUME TypeOK, NEW r \in Releases, NEW i \in Ids, NEW force \in BOOLEAN,
           NEW detach \in BOOLEAN, DeleteEntry(r, i, force, detach)
    PROVE  StepHolds
<1> DEFINE targeting == Targeting(disk, r, i)
           gone == WithEntry(disk, r, i, None)
           counted == WithCount(gone, r, CountAfterDelete(disk.count[r]))
           rows == [ref \in Refs |-> IF ref \in targeting
                                     THEN Detached(disk.sheet[r][ref])
                                     ELSE disk.sheet[r][ref]]
           final == IF targeting = {} THEN counted ELSE WithSheet(counted, r, rows)
           states == IF targeting = {} THEN <<gone, counted>> ELSE <<gone, counted, final>>
           command == IF detach THEN "detach" ELSE "delete"
<1>1. /\ disk.entries[r][i] # None /\ (targeting = {} \/ detach)
      /\ Run(command, states)
  BY DEF DeleteEntry
<1>2. disk \in Disks /\ i \in Listed(disk, r) /\ disk.count[r] \in Nat
  BY <1>1 DEF TypeOK, Disks, Listed
<1>3. /\ gone \in Disks /\ gone.count = disk.count /\ gone.sheet = disk.sheet
      /\ \A q \in Releases, k \in Ids :
            gone.entries[q][k] = IF q = r /\ k = i THEN None ELSE disk.entries[q][k]
  BY <1>2, EntryWritten
<1>4. CountAfterDelete(disk.count[r]) \in Nat
  BY <1>2 DEF CountAfterDelete
<1> HIDE DEF gone
<1>5. /\ counted \in Disks /\ counted.entries = gone.entries /\ counted.sheet = gone.sheet
      /\ \A q \in Releases : counted.count[q] =
            IF q = r THEN CountAfterDelete(disk.count[r]) ELSE gone.count[q]
  BY <1>3, <1>4, CountWritten
<1> HIDE DEF counted
<1>6. ASSUME NEW ref \in targeting
      PROVE  ref \in Rows(disk, r) /\ Names(disk.sheet[r][ref], r, i)
  BY DEF Targeting
<1>7. targeting # {} => rows \in Sheet
  <2>1. ASSUME targeting # {} PROVE disk.sheet[r] \in Sheet
    BY <1>2, <1>6, <2>1, SheetType
  <2>2. ASSUME NEW ref \in targeting PROVE Detached(disk.sheet[r][ref]) \in Annotation
    BY <1>2, <1>6, SheetType, DetachedType
  <2>3. QED
    BY <2>1, <2>2 DEF Sheet
<1> HIDE DEF rows
<1>8. /\ final \in Disks /\ final.entries = gone.entries /\ final.count = counted.count
      /\ targeting = {} => final.sheet = disk.sheet
      /\ targeting # {} => \A q \in Releases :
            final.sheet[q] = IF q = r THEN rows ELSE disk.sheet[q]
  BY <1>3, <1>5, <1>7, SheetWritten
<1>9. states \in Seq(Disks) /\ states # <<>> /\ final = states[Len(states)]
  <2> HIDE DEF final
  <2>1. CASE targeting # {}
    BY <1>3, <1>5, <1>8, <2>1
  <2>2. CASE targeting = {}
    <3>1. final = counted
      BY <2>2 DEF final
    <3>2. QED
      BY <1>3, <1>5, <2>2, <3>1
  <2>3. QED
    BY <2>1, <2>2
<1> HIDE DEF states, final
<1>10. \A q \in Releases, k \in Ids :
            final.entries[q][k] = IF q = r /\ k = i THEN None ELSE disk.entries[q][k]
  BY <1>3, <1>8
<1>11. /\ \A q \in Releases \ {r} : Listed(final, q) = Listed(disk, q)
       /\ Listed(final, r) = Listed(disk, r) \ {i}
       /\ Length(disk, r) # 0 /\ Length(final, r) = Length(disk, r) - 1
  BY <1>2, <1>10, EntryRemoved
<1>12. ASSUME Exact(disk) PROVE Exact(final)
  <2>1. disk.count[r] = Length(disk, r)
    BY <1>12 DEF Exact
  <2>2. final.count[r] = Length(final, r)
    BY <1>5, <1>8, <1>11, <2>1 DEF CountAfterDelete
  <2>3. QED
    BY <1>2, <1>3, <1>5, <1>8, <1>10, <1>12, <2>2, CountedRight
<1>13. ASSUME NEW q \in Releases, NEW ref \in Rows(final, q)
       PROVE  RowFollows(disk, final, q, ref)
  <2>1. CASE q # r
    <3>1. final.sheet[q] = disk.sheet[q]
      BY <1>8, <2>1
    <3>2. Rows(final, q) = Rows(disk, q)
      BY <3>1 DEF Rows
    <3>3. QED
      BY <1>11, <2>1, <3>1, <3>2 DEF RowFollows
  <2>2. CASE q = r /\ targeting = {}
    <3>1. final.sheet[q] = disk.sheet[q]
      BY <1>8, <2>2
    <3>2. Rows(final, q) = Rows(disk, q)
      BY <3>1 DEF Rows
    <3>3. ~Names(disk.sheet[r][ref], r, i)
      BY <2>2, <3>2 DEF Targeting
    <3>4. QED
      BY <1>11, <2>2, <3>1, <3>2, <3>3 DEF RowFollows
  <2>3. CASE q = r /\ targeting # {}
    <3>1. final.sheet[q] = rows /\ ref \in Refs
      BY <1>8, <2>3 DEF Rows
    <3>2. CASE ref \in targeting
      <4>1. disk.sheet[r][ref] \in Annotation
        BY <1>2, <1>6, <3>2, SheetType
      <4>2. rows[ref] = Detached(disk.sheet[r][ref])
        BY <3>1, <3>2 DEF rows
      <4>3. QED
        BY <3>1, <4>1, <4>2, DetachedType DEF RowFollows
    <3>3. CASE ref \notin targeting
      <4>1. rows[ref] = disk.sheet[r][ref]
        BY <3>1, <3>3 DEF rows
      <4>2. disk.sheet[r] # None
        BY <1>6, <2>3 DEF Rows
      <4>3. ref \in Rows(disk, r)
        BY <2>3, <3>1, <4>1, <4>2 DEF Rows
      <4>4. ~Names(disk.sheet[r][ref], r, i)
        BY <3>3, <4>3 DEF Targeting
      <4>5. QED
        BY <1>11, <2>3, <3>1, <4>1, <4>3, <4>4 DEF RowFollows
    <3>4. QED
      BY <3>2, <3>3
  <2>4. QED
    BY <2>1, <2>2, <2>3
<1>14. TargetsHold(disk, final)
  BY <1>2, <1>8, <1>13, TargetsFollow DEF RowsFollow
<1>15. ~detach => ReviewHolds(disk, final)
  <2>1. SUFFICES ASSUME ~detach PROVE ReviewHolds(disk, final)
    OBVIOUS
  <2>2. final.sheet = disk.sheet
    BY <1>1, <1>8, <2>1
  <2>3. \A q : Rows(final, q) = Rows(disk, q)
    BY <2>2 DEF Rows
  <2>4. QED
    BY <2>2, <2>3, ReviewFollows DEF Follows
<1>16. /\ command # "apply" /\ command # "move"
       /\ command \notin Unasked => ~detach
  BY DEF Unasked
<1> HIDE DEF command
<1>17. QED
  BY <1>1, <1>8, <1>9, <1>12, <1>14, <1>15, <1>16, StepFrom

LEMMA MovedType ==
    ASSUME NEW row \in Annotation, NEW s \in Releases, NEW i \in Ids, NEW t \in Releases,
           NEW j \in Ids
    PROVE  LET new == Moved(row, s, i, t, j) IN
           /\ new \in Annotation /\ new # None /\ new.id = j
           /\ new.decision = row.decision /\ new.inspected = row.inspected
           /\ new.stale = row.stale
<1> DEFINE key == IF row.key = [release |-> s, id |-> i]
                  THEN [release |-> t, id |-> j] ELSE row.key
<1>1. key \in Keys \cup {None}
  BY DEF Annotation, Keys
<1>2. Moved(row, s, i, t, j) = Retargeted(row, j, key)
  BY DEF Moved
<1> HIDE DEF key
<1>3. QED
  BY <1>1, <1>2, RetargetedType, EntryAuditAssumption

\* What a move leaves: the entry under j of t, the rows that name it in t's sheet.
MovedTo(e, s, i, t, j) ==
    LET moving == Targeting(disk, s, i) IN
    /\ disk.entries[s][i].text = e.entries[t][j].text
    /\ disk.entries[s][i].refs = e.entries[t][j].refs
    /\ disk.entries[s][i].status = e.entries[t][j].status
    /\ e.entries[t][j] # None /\ disk.entries[t][j] = None
    /\ disk.entries[s][i] # None /\ e.entries[s][i] = None
    /\ \A q \in Releases, k \in Ids :
        <<q, k>> \notin {<<s, i>>, <<t, j>>} => e.entries[q][k] = disk.entries[q][k]
    /\ e.count[t] = Length(disk, t) + 1 /\ e.count[s] = Length(disk, s) - 1
    /\ \A q \in Releases \ {s, t} : e.count[q] = disk.count[q]
    /\ \A q \in Releases \ {s, t} : e.sheet[q] = disk.sheet[q]
    /\ moving \cap Rows(disk, t) = {}
    /\ Rows(e, s) = Rows(disk, s) \ moving
    /\ \A ref \in Rows(e, s) : e.sheet[s][ref] = disk.sheet[s][ref]
    /\ Rows(e, t) = Rows(disk, t) \cup moving
    /\ \A ref \in Rows(disk, t) : e.sheet[t][ref] = disk.sheet[t][ref]
    /\ \A ref \in moving : e.sheet[t][ref].id = j /\ Follows(e.sheet[t][ref], disk.sheet[s][ref])

LEMMA MoveEffect ==
    ASSUME TypeOK, NEW s \in Releases, NEW t \in Releases, NEW i \in Ids,
           NEW renumber \in BOOLEAN, NEW moveRows \in BOOLEAN,
           MoveEntry(s, i, t, renumber, moveRows)
    PROVE  s # t /\ \E j \in Ids, e \in Disks, states \in Seq(Disks) :
                /\ Run("move", states) /\ states # <<>> /\ e = states[Len(states)]
                /\ MovedTo(e, s, i, t, j)
<1> DEFINE x == disk.entries[s][i]
           taken == disk.entries[t][i] # None
           j == IF taken THEN NextId(disk, t) ELSE i
           moving == Targeting(disk, s, i)
           y == Record(x, NextOrder(disk, t))
           d1 == WithEntry(disk, t, j, y)
           d2 == WithCount(d1, t, Length(disk, t) + 1)
           d3 == WithEntry(d2, s, i, None)
           d4 == WithCount(d3, s, Length(disk, s) - 1)
           left == Without(disk.sheet[s], moving)
           d5 == WithSheet(d4, s, left)
           rows == [ref \in Refs |->
                    IF ref \in moving THEN Moved(disk.sheet[s][ref], s, i, t, j)
                    ELSE IF ref \in Rows(disk, t) THEN disk.sheet[t][ref] ELSE None]
           d6 == WithSheet(d5, t, rows)
           states == IF moving = {} THEN <<d1, d2, d3, d4>> ELSE <<d1, d2, d3, d4, d5, d6>>
           final == IF moving = {} THEN d4 ELSE d6
<1>1. /\ s # t /\ x # None /\ (taken => j \in Ids)
      /\ moving \cap Rows(disk, t) = {}
      /\ Run("move", states)
  BY DEF MoveEntry
<1>2. disk \in Disks
  BY DEF TypeOK, Disks
<1>3. i \in Listed(disk, s)
  BY <1>1 DEF Listed
<1>4. j \in Ids /\ disk.entries[t][j] = None
  <2>1. CASE taken
    BY <1>1, <2>1, NextIdIsNew DEF Listed
  <2>2. CASE ~taken
    BY <2>2
  <2>3. QED
    BY <2>1, <2>2
<1> HIDE DEF j
<1>5. /\ y \in Entry /\ y # None /\ y.text = x.text /\ y.refs = x.refs /\ y.status = x.status
  <2>1. x \in Entry /\ NextOrder(disk, t) \in Nat
    BY <1>2, <1>3, StoredEntry, NextOrderType
  <2> HIDE DEF x
  <2>2. QED
    BY <2>1, FilesAssumption DEF Record, Entry
<1>6. Length(disk, t) + 1 \in Nat /\ Length(disk, s) - 1 \in Nat
  <2>1. Length(disk, s) \in Nat /\ Length(disk, t) \in Nat
    BY ListedFinite
  <2>2. Cardinality(Listed(disk, s)) # 0
    BY <1>3, ListedFinite, FS_EmptySet
  <2>3. QED
    BY <2>1, <2>2 DEF Length
<1> HIDE DEF y
<1>7. /\ d1 \in Disks /\ d1.count = disk.count /\ d1.sheet = disk.sheet
      /\ \A q \in Releases, k \in Ids :
            d1.entries[q][k] = IF q = t /\ k = j THEN y ELSE disk.entries[q][k]
  BY <1>2, <1>4, <1>5, EntryWritten
<1> HIDE DEF d1
<1>8. /\ d2 \in Disks /\ d2.entries = d1.entries /\ d2.sheet = d1.sheet
      /\ \A q \in Releases : d2.count[q] = IF q = t THEN Length(disk, t) + 1 ELSE d1.count[q]
  BY <1>6, <1>7, CountWritten
<1> HIDE DEF d2
<1>9. /\ d3 \in Disks /\ d3.count = d2.count /\ d3.sheet = d2.sheet
      /\ \A q \in Releases, k \in Ids :
            d3.entries[q][k] = IF q = s /\ k = i THEN None ELSE d2.entries[q][k]
  BY <1>8, EntryWritten
<1> HIDE DEF d3
<1>10. /\ d4 \in Disks /\ d4.entries = d3.entries /\ d4.sheet = d3.sheet
       /\ \A q \in Releases : d4.count[q] = IF q = s THEN Length(disk, s) - 1 ELSE d3.count[q]
  BY <1>6, <1>9, CountWritten
<1> HIDE DEF d4
<1>11. ASSUME NEW ref \in moving
       PROVE  /\ ref \in Rows(disk, s) /\ ref \in Refs
              /\ disk.sheet[s] \in Sheet /\ disk.sheet[s] # None
              /\ disk.sheet[s][ref] \in Annotation /\ disk.sheet[s][ref] # None
  BY <1>2, SheetType, EntryAuditAssumption DEF Targeting
<1>12. moving # {} =>
            /\ left \in Sheet /\ left # None
            /\ \A ref \in Refs : left[ref] =
                    IF ref \in moving THEN None ELSE disk.sheet[s][ref]
  <2>1. SUFFICES ASSUME moving # {}
                 PROVE  /\ left \in Sheet
                        /\ \A ref \in Refs : left[ref] =
                              IF ref \in moving THEN None ELSE disk.sheet[s][ref]
    BY FilesAssumption
  <2>2. disk.sheet[s] \in Sheet
    BY <1>11, <2>1
  <2>3. QED
    BY <2>2 DEF Without, Sheet
<1>13. ASSUME NEW ref \in moving
       PROVE  LET new == Moved(disk.sheet[s][ref], s, i, t, j) IN
              /\ new \in Annotation /\ new # None /\ new.id = j
              /\ Follows(new, disk.sheet[s][ref])
  BY <1>4, <1>11, MovedType DEF Follows
<1>14. rows \in Sheet /\ rows # None
  <2>1. ASSUME NEW ref \in Rows(disk, t) PROVE disk.sheet[t][ref] \in Annotation
    BY <1>2, SheetType
  <2>2. rows \in Sheet
    BY <1>13, <2>1 DEF Sheet
  <2>3. QED
    BY <2>2, FilesAssumption
<1>15. \A ref \in Refs : rows[ref] =
            IF ref \in moving THEN Moved(disk.sheet[s][ref], s, i, t, j)
            ELSE IF ref \in Rows(disk, t) THEN disk.sheet[t][ref] ELSE None
  OBVIOUS
<1> HIDE DEF left, rows
<1>16. moving # {} =>
            /\ d5 \in Disks /\ d5.entries = d4.entries /\ d5.count = d4.count
            /\ \A q \in Releases : d5.sheet[q] = IF q = s THEN left ELSE d4.sheet[q]
  BY <1>10, <1>12, SheetWritten
<1> HIDE DEF d5
<1>17. moving # {} =>
            /\ d6 \in Disks /\ d6.entries = d5.entries /\ d6.count = d5.count
            /\ \A q \in Releases : d6.sheet[q] = IF q = t THEN rows ELSE d5.sheet[q]
  BY <1>14, <1>16, SheetWritten
<1> HIDE DEF d6
<1>18. /\ final \in Disks /\ final.entries = d3.entries /\ final.count = d4.count
       /\ moving = {} => final.sheet = disk.sheet
       /\ moving # {} => \A q \in Releases : final.sheet[q] =
                            IF q = t THEN rows ELSE IF q = s THEN left ELSE disk.sheet[q]
  BY <1>1, <1>7, <1>8, <1>9, <1>10, <1>16, <1>17
<1>19. states \in Seq(Disks) /\ states # <<>> /\ final = states[Len(states)]
  <2> HIDE DEF moving
  <2>1. CASE moving = {}
    BY <1>7, <1>8, <1>9, <1>10, <2>1
  <2>2. CASE moving # {}
    BY <1>7, <1>8, <1>9, <1>10, <1>16, <1>17, <2>2
  <2>3. QED
    BY <2>1, <2>2
<1> HIDE DEF states, final
<1>20. /\ final.entries[t][j] = y /\ final.entries[s][i] = None
       /\ \A q \in Releases, k \in Ids :
            <<q, k>> \notin {<<s, i>>, <<t, j>>} => final.entries[q][k] = disk.entries[q][k]
  BY <1>1, <1>4, <1>7, <1>8, <1>9, <1>18
<1>21. /\ final.count[t] = Length(disk, t) + 1 /\ final.count[s] = Length(disk, s) - 1
       /\ \A q \in Releases \ {s, t} : final.count[q] = disk.count[q]
  BY <1>1, <1>7, <1>8, <1>9, <1>10, <1>18
<1>22. /\ \A q \in Releases \ {s, t} : final.sheet[q] = disk.sheet[q]
       /\ Rows(final, s) = Rows(disk, s) \ moving
       /\ \A ref \in Rows(final, s) : final.sheet[s][ref] = disk.sheet[s][ref]
       /\ Rows(final, t) = Rows(disk, t) \cup moving
       /\ \A ref \in Rows(disk, t) : final.sheet[t][ref] = disk.sheet[t][ref]
       /\ \A ref \in moving : /\ final.sheet[t][ref].id = j
                              /\ Follows(final.sheet[t][ref], disk.sheet[s][ref])
  <2>1. CASE moving = {}
    <3>1. \A q : Rows(final, q) = Rows(disk, q)
      BY <1>18, <2>1 DEF Rows
    <3> HIDE DEF moving
    <3>2. QED
      BY <1>18, <2>1, <3>1
  <2>2. CASE moving # {}
    <3>1. final.sheet[t] = rows /\ final.sheet[s] = left
          /\ \A q \in Releases \ {s, t} : final.sheet[q] = disk.sheet[q]
      BY <1>1, <1>18, <2>2
    <3>2. /\ Rows(disk, s) = {ref \in Refs : disk.sheet[s][ref] # None}
          /\ moving \subseteq Rows(disk, s)
      BY <1>11, <2>2 DEF Rows
    <3>3. Rows(final, s) = {ref \in Refs : left[ref] # None}
          /\ Rows(final, t) = {ref \in Refs : rows[ref] # None}
      BY <1>12, <1>14, <2>2, <3>1 DEF Rows
    <3>4. \A ref \in Rows(disk, t) : ref \in Refs /\ disk.sheet[t][ref] # None
      BY DEF Rows
    <3> HIDE DEF moving
    <3>5. Rows(final, s) = Rows(disk, s) \ moving
          /\ \A ref \in Rows(final, s) : final.sheet[s][ref] = disk.sheet[s][ref]
      BY <1>12, <2>2, <3>1, <3>2, <3>3
    <3>6. Rows(final, t) = Rows(disk, t) \cup moving
      BY <1>11, <1>13, <1>15, <3>3, <3>4
    <3>7. /\ \A ref \in Rows(disk, t) : final.sheet[t][ref] = disk.sheet[t][ref]
          /\ \A ref \in moving : /\ final.sheet[t][ref].id = j
                                 /\ Follows(final.sheet[t][ref], disk.sheet[s][ref])
      BY <1>1, <1>11, <1>13, <1>15, <3>1, <3>4
    <3>8. QED
      BY <3>1, <3>5, <3>6, <3>7
  <2>3. QED
    BY <2>1, <2>2
<1>23. MovedTo(final, s, i, t, j)
  BY <1>1, <1>4, <1>5, <1>20, <1>21, <1>22 DEF MovedTo
<1>24. QED
  BY <1>1, <1>4, <1>18, <1>19, <1>23

\* One element of a finite set replaced by another.
LEMMA SwapCardinality ==
    ASSUME NEW S, IsFiniteSet(S), NEW x \in S, NEW y, y \notin S
    PROVE  Cardinality((S \ {x}) \cup {y}) = Cardinality(S)
<1>1. IsFiniteSet(S \ {x}) /\ Cardinality(S \ {x}) = Cardinality(S) - 1
  BY FS_RemoveElement
<1>2. Cardinality((S \ {x}) \cup {y}) = Cardinality(S \ {x}) + 1
  BY <1>1, FS_AddElement
<1>3. Cardinality(S) \in Nat
  BY FS_CardinalityType
<1>4. QED
  BY <1>1, <1>2, <1>3

LEMMA HoldingFinite == ASSUME NEW c PROVE IsFiniteSet(Holding(disk, c))
<1>1. IsFiniteSet(Ids)
  BY EntryAuditAssumption, FS_Interval DEF Ids
<1>2. IsFiniteSet(Releases \X Ids)
  BY <1>1, FilesAssumption, FS_Product
<1>3. Holding(disk, c) \subseteq Releases \X Ids
  BY DEF Holding
<1>4. QED
  BY <1>2, <1>3, FS_Subset

LEMMA MoveConservesFiles ==
    ASSUME NEW e, NEW s \in Releases, NEW t \in Releases, NEW i \in Ids, NEW j \in Ids,
           s # t, MovedTo(e, s, i, t, j)
    PROVE  Conserves(disk, e)
<1> DEFINE moving == Targeting(disk, s, i)
           Says(f) == [text |-> f.text, refs |-> f.refs, status |-> f.status]
<1>1. ASSUME NEW c \in Content
      PROVE  Cardinality(Holding(e, c)) = Cardinality(Holding(disk, c))
  <2> DEFINE a == <<s, i>>
             b == <<t, j>>
  <2>1. Says(e.entries[t][j]) = Says(disk.entries[s][i])
    BY DEF MovedTo
  <2>2. ASSUME NEW q \in Releases, NEW k \in Ids
        PROVE  /\ <<q, k>> \in Holding(e, c) <=>
                    e.entries[q][k] # None /\ Says(e.entries[q][k]) = c
               /\ <<q, k>> \in Holding(disk, c) <=>
                    disk.entries[q][k] # None /\ Says(disk.entries[q][k]) = c
    BY DEF Holding
  <2>3. Holding(e, c) \subseteq Releases \X Ids /\ Holding(disk, c) \subseteq Releases \X Ids
    BY DEF Holding
  <2> HIDE DEF Says
  <2>4. /\ a \notin Holding(e, c) /\ b \notin Holding(disk, c)
        /\ b \in Holding(e, c) <=> a \in Holding(disk, c)
    BY <2>1, <2>2 DEF MovedTo
  <2>5. ASSUME NEW q \in Releases, NEW k \in Ids, <<q, k>> # a, <<q, k>> # b
        PROVE  <<q, k>> \in Holding(e, c) <=> <<q, k>> \in Holding(disk, c)
    BY <2>2, <2>5 DEF MovedTo
  <2> HIDE DEF a, b
  <2>6. CASE a \in Holding(disk, c)
    <3>1. Holding(e, c) = (Holding(disk, c) \ {a}) \cup {b}
      BY <2>3, <2>4, <2>5, <2>6
    <3>2. QED
      BY <2>4, <2>6, <3>1, HoldingFinite, SwapCardinality
  <2>7. CASE a \notin Holding(disk, c)
    <3>1. Holding(e, c) = Holding(disk, c)
      BY <2>3, <2>4, <2>5, <2>7
    <3>2. QED
      BY <3>1
  <2>8. QED
    BY <2>6, <2>7
<1>2. ASSUME NEW ref \in Refs, NEW x \in Decisions
      PROVE  Cardinality(Deciding(e, ref, x)) = Cardinality(Deciding(disk, ref, x))
  <2>1. \A q \in Releases \ {s, t} : q \in Deciding(e, ref, x) <=> q \in Deciding(disk, ref, x)
    BY DEF Deciding, MovedTo, Rows
  <2>2. Deciding(e, ref, x) \subseteq Releases /\ Deciding(disk, ref, x) \subseteq Releases
    BY DEF Deciding
  <2>3. CASE ref \in moving
    <3>1. ref \in Rows(disk, s) /\ ref \notin Rows(disk, t)
      BY <2>3 DEF MovedTo, Targeting
    <3>2. ref \notin Rows(e, s) /\ ref \in Rows(e, t)
          /\ e.sheet[t][ref].decision = disk.sheet[s][ref].decision
      BY <2>3 DEF MovedTo, Follows
    <3>3. /\ s \notin Deciding(e, ref, x) /\ t \notin Deciding(disk, ref, x)
          /\ t \in Deciding(e, ref, x) <=> s \in Deciding(disk, ref, x)
      BY <3>1, <3>2 DEF Deciding
    <3>4. IsFiniteSet(Deciding(disk, ref, x))
      BY <2>2, FilesAssumption, FS_Subset
    <3>5. CASE s \in Deciding(disk, ref, x)
      <4>1. Deciding(e, ref, x) = (Deciding(disk, ref, x) \ {s}) \cup {t}
        BY <2>1, <2>2, <3>3, <3>5
      <4>2. QED
        BY <3>3, <3>4, <3>5, <4>1, SwapCardinality
    <3>6. CASE s \notin Deciding(disk, ref, x)
      <4>1. Deciding(e, ref, x) = Deciding(disk, ref, x)
        BY <2>1, <2>2, <3>3, <3>6
      <4>2. QED
        BY <4>1
    <3>7. QED
      BY <3>5, <3>6
  <2>4. CASE ref \notin moving
    <3>1. /\ ref \in Rows(e, s) <=> ref \in Rows(disk, s)
          /\ ref \in Rows(e, t) <=> ref \in Rows(disk, t)
      BY <2>4 DEF MovedTo
    <3>2. /\ ref \in Rows(disk, s) => e.sheet[s][ref] = disk.sheet[s][ref]
          /\ ref \in Rows(disk, t) => e.sheet[t][ref] = disk.sheet[t][ref]
      BY <3>1 DEF MovedTo
    <3>3. /\ s \in Deciding(e, ref, x) <=> s \in Deciding(disk, ref, x)
          /\ t \in Deciding(e, ref, x) <=> t \in Deciding(disk, ref, x)
      BY <3>1, <3>2 DEF Deciding
    <3>4. Deciding(e, ref, x) = Deciding(disk, ref, x)
      BY <2>1, <2>2, <3>3
    <3>5. QED
      BY <3>4
  <2>5. QED
    BY <2>3, <2>4
<1>3. ASSUME NEW q \in Releases, NEW k \in Listed(disk, q), e.entries[q][k] = None
      PROVE  Targeting(e, q, k) = {}
  <2>1. k \in Ids /\ disk.entries[q][k] # None
    BY DEF Listed
  <2>2. q = s /\ k = i
    BY <1>3, <2>1 DEF MovedTo
  <2>3. ASSUME NEW ref \in Rows(e, s) PROVE ~Names(e.sheet[s][ref], s, i)
    <3>1. /\ ref \in Rows(disk, s) /\ ref \notin moving
          /\ e.sheet[s][ref] = disk.sheet[s][ref]
      BY DEF MovedTo
    <3>2. QED
      BY <3>1 DEF Targeting
  <2>4. QED
    BY <2>2, <2>3 DEF Targeting
<1>4. QED
  BY <1>1, <1>2, <1>3 DEF Conserves

LEMMA MoveCounts ==
    ASSUME TypeOK, NEW e \in Disks, NEW s \in Releases, NEW t \in Releases,
           NEW i \in Ids, NEW j \in Ids, s # t, MovedTo(e, s, i, t, j), Exact(disk)
    PROVE  Exact(e)
<1>1. Listed(e, t) = Listed(disk, t) \cup {j} /\ j \notin Listed(disk, t)
  BY DEF MovedTo, Listed
<1>2. Listed(e, s) = Listed(disk, s) \ {i} /\ i \in Listed(disk, s)
  BY DEF MovedTo, Listed
<1>3. \A q \in Releases \ {s, t} : Listed(e, q) = Listed(disk, q)
  BY DEF MovedTo, Listed
<1>4. Length(e, t) = Length(disk, t) + 1 /\ Length(e, s) = Length(disk, s) - 1
  BY <1>1, <1>2, LengthAfter, LengthWithout
<1>5. \A q \in Releases \ {s, t} : Length(e, q) = Length(disk, q)
  BY <1>3 DEF Length
<1>6. QED
  BY <1>4, <1>5 DEF Exact, MovedTo

LEMMA MoveHolds ==
    ASSUME TypeOK, NEW s \in Releases, NEW t \in Releases, NEW i \in Ids,
           NEW renumber \in BOOLEAN, NEW moveRows \in BOOLEAN,
           MoveEntry(s, i, t, renumber, moveRows)
    PROVE  StepHolds
<1> DEFINE moving == Targeting(disk, s, i)
<1>1. s # t
  BY MoveEffect
<1>2. PICK j \in Ids, e \in Disks, states \in Seq(Disks) :
            /\ Run("move", states) /\ states # <<>> /\ e = states[Len(states)]
            /\ MovedTo(e, s, i, t, j)
  BY MoveEffect
<1>3. disk \in Disks
  BY DEF TypeOK, Disks
<1>4. Conserves(disk, e) /\ (Exact(disk) => Exact(e))
  BY <1>1, <1>2, MoveConservesFiles, MoveCounts
<1>5. /\ Listed(disk, s) \ Listed(e, s) \subseteq {i} /\ j \in Listed(e, t)
      /\ \A q \in Releases \ {s} : Listed(disk, q) \ Listed(e, q) = {}
  BY <1>1, <1>2 DEF MovedTo, Listed
<1>6. \A q \in Releases \ {s, t} : e.sheet[q] = disk.sheet[q] /\ Rows(e, q) = Rows(disk, q)
  <2>1. \A q \in Releases \ {s, t} : e.sheet[q] = disk.sheet[q]
    BY <1>2 DEF MovedTo
  <2>2. QED
    BY <2>1 DEF Rows
<1>7. ASSUME NEW q \in Releases, NEW ref \in Rows(e, q)
      PROVE  RowFollows(disk, e, q, ref)
  <2>1. CASE q = s
    <3>1. ref \in Rows(disk, s) /\ ref \notin moving /\ e.sheet[s][ref] = disk.sheet[s][ref]
      BY <1>2, <2>1 DEF MovedTo
    <3>2. ~Names(disk.sheet[s][ref], s, i)
      BY <3>1 DEF Targeting
    <3>3. QED
      BY <1>5, <2>1, <3>1, <3>2 DEF RowFollows
  <2>2. CASE q = t
    <3>1. \/ ref \in Rows(disk, t) /\ e.sheet[t][ref] = disk.sheet[t][ref]
          \/ e.sheet[t][ref].id = j
      BY <1>2, <2>2 DEF MovedTo
    <3>2. QED
      BY <1>1, <1>5, <2>2, <3>1 DEF RowFollows
  <2>3. CASE q \notin {s, t}
    BY <1>5, <1>6, <2>3 DEF RowFollows
  <2>4. QED
    BY <2>1, <2>2, <2>3
<1>8. TargetsHold(disk, e)
  BY <1>2, <1>3, <1>7, TargetsFollow DEF RowsFollow
<1>9. ASSUME NEW q \in Releases, NEW ref \in Rows(disk, q)
      PROVE  \E p \in Releases : ref \in Rows(e, p) /\ Follows(e.sheet[p][ref], disk.sheet[q][ref])
  <2>1. CASE q = s /\ ref \in moving
    BY <1>2, <2>1 DEF MovedTo
  <2>2. CASE q = s /\ ref \notin moving
    BY <1>2, <2>2 DEF MovedTo, Follows
  <2>3. CASE q = t
    BY <1>2, <2>3 DEF MovedTo, Follows
  <2>4. CASE q \notin {s, t}
    BY <1>6, <2>4 DEF Follows
  <2>5. QED
    BY <2>1, <2>2, <2>3, <2>4
<1>10. ReviewHolds(disk, e)
  BY <1>9 DEF ReviewHolds, Follows, Kept
<1>11. QED
  BY <1>2, <1>4, <1>8, <1>10, StepFrom

-----------------------------------------------------------------------------
(* Every behaviour.                                                          *)

IInv == TypeOK /\ CountExact

LEMMA NextHolds == TypeOK /\ Next => StepHolds
<1> SUFFICES ASSUME TypeOK, Command PROVE StepHolds
  BY DEF Next
<1>1. CASE \E r \in Releases, c \in Inputs : AddEntry(r, c)
  BY <1>1, AddHolds
<1>2. CASE \E r \in Releases, b \in Batches, sync \in BOOLEAN : AddMany(r, b, sync)
  BY <1>2, AddManyHolds
<1>3. CASE \E r \in Releases, i \in Ids, c \in Inputs : UpdateEntry(r, i, c)
  BY <1>3, UpdateHolds
<1>4. CASE \E r \in Releases, i \in Ids, c \in Inputs, replaceExisting \in BOOLEAN :
                ImportEntry(r, i, c, replaceExisting)
  BY <1>4, ImportHolds
<1>5. CASE \E r \in Releases, i \in Ids, force, detach \in BOOLEAN :
                DeleteEntry(r, i, force, detach)
  BY <1>5, DeleteHolds
<1>6. CASE \E s, t \in Releases, i \in Ids, renumber, moveRows \in BOOLEAN :
                MoveEntry(s, i, t, renumber, moveRows)
  BY <1>6, MoveHolds
<1>7. CASE \E r \in Releases, range \in SUBSET Refs, overwrite \in BOOLEAN :
                CreateAudit(r, range, overwrite)
  BY <1>7, CreateAuditHolds
<1>8. CASE \E r \in Releases, ref \in Refs, a \in Annotations : ApplyAudit(r, ref, a)
  BY <1>8, ApplyHolds
<1>9. CASE \E r \in Releases, edited \in SUBSET Refs, a \in Annotations :
                UpdateAudit(r, edited, a)
  BY <1>9, UpdateAuditHolds
<1>10. CASE \E r \in Releases, range, changed \in SUBSET Refs, allowRemove \in BOOLEAN :
                RefreshAudit(r, range, changed, allowRemove)
  BY <1>10, RefreshHolds
<1>11. CASE \E r \in Releases : SyncAudit(r)
  BY <1>11, SyncHolds
<1>12. QED
  BY <1>1, <1>2, <1>3, <1>4, <1>5, <1>6, <1>7, <1>8, <1>9, <1>10, <1>11 DEF Command

LEMMA InitInv == Init => IInv
<1> SUFFICES ASSUME Init PROVE IInv
  OBVIOUS
<1>1. /\ disk.entries = [r \in Releases |-> NoEntries]
      /\ disk.count = [r \in Releases |-> 0]
      /\ disk.sheet = [r \in Releases |-> None]
      /\ disk = [entries |-> disk.entries, count |-> disk.count, sheet |-> disk.sheet]
  BY DEF Init
<1>2. disk.entries \in [Releases -> [Ids -> Entry \cup {None}]]
  BY <1>1 DEF NoEntries
<1>3. TypeOK
  BY <1>1, <1>2 DEF TypeOK, Init
<1>4. \A r \in Releases : Listed(disk, r) = {}
  BY <1>1 DEF Listed, NoEntries
<1>5. CountExact
  BY <1>1, <1>4, FS_EmptySet DEF CountExact, Length
<1>6. QED
  BY <1>3, <1>5 DEF IInv

LEMMA NextInv == IInv /\ [Next]_vars => IInv'
<1> SUFFICES ASSUME IInv, [Next]_vars PROVE IInv'
  OBVIOUS
<1>1. CASE Next
  <2>1. StepHolds
    BY <1>1, NextHolds DEF IInv
  <2>2. TypeOK'
    BY <2>1 DEF StepHolds, TypeOK, Disks
  <2>3. CountExact'
    BY <2>1 DEF IInv, StepHolds, CountExact, Exact
  <2>4. QED
    BY <2>2, <2>3 DEF IInv
<1>2. CASE UNCHANGED vars
  BY <1>2 DEF vars, IInv, TypeOK, CountExact, Length, Listed
<1>3. QED
  BY <1>1, <1>2

\* The entries, counts and sheets keep their types: no count runs below zero,
\* whatever commands are torn and what is deleted after them.
THEOREM AuditTypesCorrect == Spec => []TypeOK
<1>1. IInv => TypeOK
  BY DEF IInv
<1>2. QED
  BY <1>1, InitInv, NextInv, PTL DEF Spec

\* The entry_count of a release is the number of its entries, after any commands
\* of any number, as long as none stopped half-way.
THEOREM CountsAreExact == Spec => []CountExact
<1>1. IInv => CountExact
  BY DEF IInv
<1>2. QED
  BY <1>1, InitInv, NextInv, PTL DEF Spec

\* Deleting, moving, importing and syncing leave no row of a sheet that names an
\* entry which is not there, if none was so before: only audit apply, which takes
\* what it is given, and a command that stops half-way can.
THEOREM TargetsStay == Spec => TargetsStayResolved
<1>1. IInv /\ [Next]_vars =>
        [last' \notin {"torn", "apply"} =>
            \A r \in Releases : \A ref \in Rows(disk', r) :
                Dangling(disk', r, ref) =>
                    \E q \in Releases : ref \in Rows(disk, q) /\ Dangling(disk, q, ref)]_vars
  BY NextHolds DEF IInv, StepHolds, TargetsHold
<1>2. QED
  BY <1>1, InitInv, NextInv, PTL DEF Spec, TargetsStayResolved

\* entry move neither loses nor doubles an entry or a row of a sheet, and leaves
\* no row behind that is about the entry.
THEOREM MovesConserve == Spec => MoveConserves
<1>1. IInv /\ [Next]_vars =>
        [last' = "move" =>
            /\ \A c \in Content :
                Cardinality(Holding(disk', c)) = Cardinality(Holding(disk, c))
            /\ \A ref \in Refs, x \in Decisions :
                Cardinality(Deciding(disk', ref, x)) = Cardinality(Deciding(disk, ref, x))
            /\ \A r \in Releases : \A i \in Listed(disk, r) :
                disk'.entries[r][i] = None => Targeting(disk', r, i) = {}]_vars
  BY NextHolds DEF IInv, StepHolds, Conserves
<1>2. QED
  BY <1>1, InitInv, NextInv, PTL DEF Spec, MoveConserves

\* Nobody's review is lost or made fresh by a command that was not asked to.
THEOREM ReviewsAreKept == Spec => ReviewIsKept
<1>1. IInv /\ [Next]_vars =>
        [last' \notin {"torn", "apply", "overwrite", "remove", "detach"} =>
            \A r \in Releases : \A ref \in Rows(disk, r) :
                disk.sheet[r][ref].inspected =>
                    \E q \in Releases : /\ ref \in Rows(disk', q)
                                        /\ Kept(disk.sheet[r][ref], disk'.sheet[q][ref])]_vars
  BY NextHolds DEF IInv, StepHolds, ReviewHolds, Unasked
<1>2. QED
  BY <1>1, InitInv, NextInv, PTL DEF Spec, ReviewIsKept

=============================================================================
