-------------------------- MODULE CoverageGateProofs -------------------------
(* The release gate for any git history, any dates and source refs and any   *)
(* number of entries.                                                        *)
EXTENDS CoverageGate, TLAPS

-----------------------------------------------------------------------------
(* What holds of every state, by the definitions of the gate alone.          *)

LEMMA PublicIsAccepted ==
    /\ PublicRefs \subseteq AcceptedRefs(BOOLEAN)
    /\ AcceptedRefs({TRUE}) \subseteq AcceptedRefs(BOOLEAN)
BY DEF PublicRefs, AcceptedRefs

LEMMA CoveragesAgree == GatesAgree
<1> SUFFICES ASSUME sheet # NoSheet, SnapshotOk, NEW i \in BOOLEAN, CoverageOk(i), pin # NoSha
             PROVE  Scannable(Snapshot)
                    /\ Candidates(Snapshot) \subseteq AcceptedRefs(BOOLEAN) \cup Exempt(i)
  BY DEF GatesAgree, BuildCovers
<1>1. Scans /\ Scannable(Snapshot)
  BY DEF SnapshotOk, Scans
<1>2. ASSUME NEW c \in Candidates(Snapshot)
      PROVE  c \in AcceptedRefs(BOOLEAN) \cup Exempt(i)
  <2>1. RowSatisfied(c, i)
    BY <1>1, <1>2 DEF CoverageOk, ExpectedCommits
  <2>2. CASE sheet[c] = "accepted"
    BY <2>1, <2>2, PublicIsAccepted DEF RowSatisfied
  <2>3. CASE sheet[c] = "internal"
    BY <2>1, <2>3, PublicIsAccepted DEF RowSatisfied, Exempt
  <2>4. CASE sheet[c] = "rejected"
    BY <2>1, <2>4 DEF RowSatisfied, Exempt
  <2>5. QED
    BY <2>1, <2>2, <2>3, <2>4 DEF RowSatisfied, Completed
<1>3. QED
  BY <1>1, <1>2

\* What review.py and audit.py accept as covered, a strict build does not refuse.
THEOREM CoverageImplementationsAgree == Spec => []GatesAgree
BY CoveragesAgree, PTL

-----------------------------------------------------------------------------
(* The inductive invariant.                                                  *)

\* Histories are closed: a commit reaches itself, commits made before and what they
\* reach, and git has collected nothing that a commit it keeps reaches.
History ==
    /\ Base \in Created
    /\ \A c \in Created : c \in reach[c] /\ reach[c] \subseteq Created
    /\ \A c \in Created : \A d \in reach[c] : reach[d] \subseteq reach[c]
    /\ \A c \in Created \ gone : reach[c] \cap gone = {}

RecordOK ==
    /\ status = "released" => date \in Dates
    /\ refreshing => status # "absent"

\* What of a passed finalize check depends neither on its phase nor on the head of the
\* range being there still.
Promise(i) ==
    /\ SelectedRefs(i) # {} /\ SourceRefs \subseteq SelectedRefs(i)
    /\ pin # NoSha => /\ Base \in reach[pin]
                      /\ \A c \in Candidates(pin) : RowSatisfied(c, i)
                      /\ Candidates(pin) \subseteq AcceptedRefs(BOOLEAN) \cup Exempt(i)
    /\ IF sheet = NoSheet THEN pin = NoSha ELSE AuditOk(i)

PromisesKept ==
    promised # {} => status # "absent" /\ \A i \in promised : Promise(i)

GInv == TypeOK /\ History /\ RecordOK /\ PromisesKept

LEMMA InitInv == Init => GInv
<1> SUFFICES ASSUME Init PROVE GInv
  OBVIOUS
<1>1. reach = <<{1}>> /\ Len(reach) = 1 /\ reach[1] = {1} /\ Created = {1} /\ gone = {}
  BY DEF Init, Base, Created
<1>2. Commits = 1..MaxCommits /\ MaxCommits \in Nat \ {0}
  BY GateAssumption DEF Commits, Base
<1>3. TypeOK
  <2>1. reach \in Seq(SUBSET Commits)
    BY <1>1, <1>2
  <2>2. sheet = NoSheet /\ branch = 1 /\ pin = 0 /\ Base = 1 /\ NoSha = 0
    BY DEF Init, Base, NoSha
  <2>3. Len(reach) <= MaxCommits /\ Base \in Created /\ merges = {} /\ gone = {}
    BY <1>1, <1>2, <2>2 DEF Init
  <2>4. /\ tag = NoSha /\ status = "absent" /\ date = NoDate /\ pin = NoSha /\ branch = Base
        /\ entries = {} /\ section \in {"no file", "none"} /\ refreshing \in BOOLEAN /\ promised = {}
    BY GateAssumption DEF Init
  <2>5. QED
    BY <2>1, <2>2, <2>3, <2>4 DEF TypeOK
<1>4. History /\ RecordOK /\ PromisesKept
  BY <1>1 DEF Init, History, RecordOK, PromisesKept, Base
<1>5. QED
  BY <1>3, <1>4 DEF GInv

-----------------------------------------------------------------------------
(* Git.                                                                      *)

LEMMA CommitInv ==
    ASSUME GInv, Len(reach) < MaxCommits, NEW ps \in SUBSET (Created \ gone), NEW moves \in BOOLEAN,
           Commit(ps, moves)
    PROVE  GInv'
<1> DEFINE n == Len(reach)
           new == n + 1
           S == {new} \cup UNION {reach[p] : p \in ps}
<1>0. /\ TypeOK /\ History /\ RecordOK /\ PromisesKept
      /\ reach \in Seq(SUBSET Commits) /\ n \in Nat /\ Created = 1..n /\ Commits = 1..MaxCommits
      /\ MaxCommits \in Nat
  <2>1. TypeOK /\ History /\ RecordOK /\ PromisesKept
    BY DEF GInv
  <2>2. reach \in Seq(SUBSET Commits)
    BY <2>1 DEF TypeOK
  <2>3. n \in Nat
    BY <2>2
  <2>4. Created = 1..n
    BY DEF Created
  <2>5. Commits = 1..MaxCommits /\ MaxCommits \in Nat
    BY GateAssumption DEF Commits, Base
  <2>6. QED
    BY <2>1, <2>2, <2>3, <2>4, <2>5
<1>1. /\ reach' = Append(reach, S)
      /\ merges' = IF Cardinality(ps) = 2 THEN merges \cup {new} ELSE merges
      /\ branch' = IF moves THEN new ELSE branch
      /\ UNCHANGED <<gone, tag, record, sheet, entries, section, refreshing, promised>>
  BY DEF Commit
<1>2. S \subseteq Created \cup {new} /\ S \subseteq Commits /\ new \in S /\ new \notin Created
  BY <1>0 DEF History
<1>3. /\ reach' \in Seq(SUBSET Commits) /\ Len(reach') = n + 1 /\ Created' = 1 .. n + 1
      /\ reach'[new] = S /\ \A c \in Created : reach'[c] = reach[c]
  BY <1>0, <1>1, <1>2 DEF Created
<1>4. Created' = Created \cup {new}
  BY <1>0, <1>3
<1>5. TypeOK'
  <2>1. Len(reach') <= MaxCommits
    BY <1>0, <1>3
  <2>2. merges' \subseteq Created'
    BY <1>0, <1>1, <1>4 DEF TypeOK
  <2>3. branch' \in Created' \ gone' /\ gone' \subseteq Created' /\ pin' \in Created' \cup {NoSha}
        /\ tag' \in (Created' \ gone') \cup {NoSha}
    BY <1>0, <1>1, <1>2, <1>4 DEF TypeOK, record
  <2>4. sheet' = NoSheet \/ (/\ DOMAIN sheet' \subseteq Created' \ merges'
                             /\ \A c \in DOMAIN sheet' : sheet'[c] \in Decisions)
    BY <1>0, <1>1, <1>2, <1>4 DEF TypeOK
  <2>5. QED
    BY <1>0, <1>1, <1>3, <2>1, <2>2, <2>3, <2>4 DEF TypeOK, record
<1>6. History'
  <2>1. \A c \in Created : /\ c \in reach[c] /\ reach[c] \subseteq Created
                          /\ \A d \in reach[c] : reach[d] \subseteq reach[c]
    BY <1>0 DEF History
  <2>2. Base \in Created' /\ \A c \in Created' : c \in reach'[c] /\ reach'[c] \subseteq Created'
    BY <1>0, <1>2, <1>3, <1>4, <2>1 DEF History
  <2>3. ASSUME NEW c \in Created', NEW d \in reach'[c] PROVE reach'[d] \subseteq reach'[c]
    <3>1. CASE c \in Created
      BY <1>3, <2>1, <2>3, <3>1
    <3>2. CASE c = new
      <4>1. CASE d = new
        BY <3>2, <4>1
      <4>2. CASE d # new
        <5>1. PICK p \in ps : d \in reach[p]
          BY <1>3, <2>3, <3>2, <4>2
        <5>2. p \in Created /\ d \in Created
          BY <2>1, <5>1
        <5>3. reach'[d] = reach[d] /\ reach[d] \subseteq reach[p]
          BY <1>3, <2>1, <5>1, <5>2
        <5>4. QED
          BY <1>3, <3>2, <5>1, <5>3
      <4>3. QED
        BY <4>1, <4>2
    <3>3. QED
      BY <1>4, <2>3, <3>1, <3>2
  <2>4. ASSUME NEW c \in Created' \ gone' PROVE reach'[c] \cap gone' = {}
    <3>1. gone' = gone /\ gone \subseteq Created
      BY <1>0, <1>1 DEF TypeOK
    <3>2. \A p \in Created \ gone : reach[p] \cap gone = {}
      BY <1>0 DEF History
    <3>3. CASE c \in Created
      BY <1>3, <3>1, <3>2, <3>3
    <3>4. CASE c = new
      BY <1>2, <1>3, <3>1, <3>2, <3>4
    <3>5. QED
      BY <1>4, <2>4, <3>3, <3>4
  <2>5. QED
    BY <2>2, <2>3, <2>4 DEF History
<1>7. RecordOK'
  BY <1>0, <1>1 DEF RecordOK, record
<1>8. PromisesKept'
  <2> SUFFICES ASSUME promised' # {}, NEW i \in promised' PROVE status' # "absent" /\ Promise(i)'
    BY DEF PromisesKept
  <2>1. promised' = promised /\ status' = status /\ pin' = pin /\ sheet' = sheet /\ entries' = entries
        /\ gone' = gone
    BY <1>1 DEF record
  <2>2. status # "absent" /\ Promise(i)
    BY <1>0, <2>1 DEF PromisesKept
  <2>3. ASSUME pin # NoSha
        PROVE  reach'[pin] = reach[pin] /\ Candidates(pin)' = Candidates(pin)
    <3>1. pin \in Created /\ Base \in Created /\ reach'[pin] = reach[pin] /\ reach'[Base] = reach[Base]
      BY <1>0, <1>3, <2>3 DEF TypeOK, History
    <3>2. reach[pin] \subseteq Created
      BY <1>0, <3>1 DEF History
    <3>3. reach[pin] \cap merges' = reach[pin] \cap merges
      BY <1>1, <1>2, <3>2
    <3>4. QED
      BY <2>1, <3>1, <3>3 DEF Candidates, Between
  <2>4. AcceptedRefs({FALSE})' = AcceptedRefs({FALSE}) /\ AcceptedRefs({TRUE})' = AcceptedRefs({TRUE})
        /\ AcceptedRefs(BOOLEAN)' = AcceptedRefs(BOOLEAN) /\ SelectedRefs(i)' = SelectedRefs(i)
    BY <2>1 DEF AcceptedRefs, SelectedRefs
  <2>5. \A c : RowSatisfied(c, i)' <=> RowSatisfied(c, i)
    BY <2>1, <2>4 DEF RowSatisfied, PublicRefs
  <2>6. Exempt(i)' = Exempt(i)
    BY <2>1 DEF Exempt
  <2>7. IF sheet' = NoSheet THEN pin' = NoSha ELSE AuditOk(i)'
    BY <2>1, <2>2, <2>4 DEF Promise, AuditOk, AuditValid, AuditEvidenceOk, AuditCoverageOk, PublicRefs
  <2>8. pin' # NoSha => /\ Base \in reach'[pin']
                        /\ \A c \in Candidates(pin)' : RowSatisfied(c, i)'
                        /\ Candidates(pin)' \subseteq AcceptedRefs(BOOLEAN)' \cup Exempt(i)'
    BY <2>1, <2>2, <2>3, <2>4, <2>5, <2>6 DEF Promise
  <2>9. QED
    BY <2>1, <2>2, <2>4, <2>7, <2>8 DEF Promise
<1>9. QED
  BY <1>5, <1>6, <1>7, <1>8 DEF GInv

\* A promise is about the commits of the range, the sheet and the entries alone.
LEMMA PromiseUnchanged ==
    ASSUME NEW i \in BOOLEAN, Promise(i), UNCHANGED <<reach, merges, pin, sheet, entries>>
    PROVE  Promise(i)'
BY DEF Promise, RowSatisfied, PublicRefs, Exempt, AcceptedRefs, SelectedRefs, Candidates,
       Between, AuditOk, AuditValid, AuditEvidenceOk, AuditCoverageOk

LEMMA CollectInv == GInv /\ Collect => GInv'
<1> SUFFICES ASSUME GInv, Collect PROVE GInv'
  OBVIOUS
<1>0. TypeOK /\ History /\ RecordOK /\ PromisesKept
  BY DEF GInv
<1> DEFINE kept == {branch, Base, tag} \ {NoSha}
<1>1. /\ gone' = {c \in Created : \A d \in kept : c \notin reach[d]}
      /\ UNCHANGED <<reach, merges, branch, tag, record, sheet, entries, section, refreshing,
                     promised>>
      /\ Created' = Created
  BY DEF Collect, Created
<1>2. kept \subseteq Created /\ branch \in kept /\ (tag # NoSha => tag \in kept)
  <2>1. branch \in Created /\ Base \in Created /\ tag \in Created \cup {NoSha}
    BY <1>0 DEF TypeOK, History
  <2>2. NoSha \notin Created
    BY DEF Created, NoSha
  <2>3. QED
    BY <2>1, <2>2
<1>3. \A d \in kept : d \in reach[d]
  BY <1>0, <1>2 DEF History
<1>4. TypeOK'
  BY <1>0, <1>1, <1>2, <1>3 DEF TypeOK, record
<1>5. ASSUME NEW c \in Created \ gone' PROVE reach[c] \cap gone' = {}
  <2>1. PICK d \in kept : c \in reach[d]
    BY <1>1, <1>5
  <2>2. reach[c] \subseteq reach[d]
    BY <1>0, <1>2, <2>1 DEF History
  <2>3. QED
    BY <1>1, <2>1, <2>2
<1>6. History' /\ RecordOK'
  BY <1>0, <1>1, <1>5 DEF History, RecordOK, record
<1>7. PromisesKept'
  BY <1>0, <1>1, PromiseUnchanged DEF TypeOK, PromisesKept, record
<1>8. QED
  BY <1>4, <1>6, <1>7 DEF GInv

LEMMA TagInv == GInv /\ TagHead => GInv'
<1> SUFFICES ASSUME GInv, TagHead PROVE GInv'
  OBVIOUS
<1>1. tag' = branch
      /\ UNCHANGED <<reach, merges, branch, gone, record, sheet, entries, section, refreshing, promised>>
  BY DEF TagHead
<1>2. PromisesKept'
  BY <1>1, PromiseUnchanged DEF GInv, TypeOK, PromisesKept, record
<1>3. QED
  BY <1>1, <1>2 DEF GInv, TypeOK, History, RecordOK, Created, record

-----------------------------------------------------------------------------
(* The commands.                                                             *)

SheetOK == sheet = NoSheet \/ (/\ DOMAIN sheet \subseteq Created \ merges
                               /\ \A c \in DOMAIN sheet : sheet[c] \in Decisions)

\* The sheets that the commands make have rows of commits that are no merges.
LEMMA SheetTypes ==
    ASSUME GInv, NEW head, head \in Created
    PROVE  /\ DOMAIN NewSheet(head) \subseteq Created \ merges
           /\ \A c \in DOMAIN NewSheet(head) : NewSheet(head)[c] \in Decisions
           /\ SheetOK /\ sheet # NoSheet =>
                 /\ DOMAIN Refreshed(head) \subseteq Created \ merges
                 /\ \A c \in DOMAIN Refreshed(head) : Refreshed(head)[c] \in Decisions
<1>1. Candidates(head) \subseteq Created \ merges
  BY DEF GInv, History, Candidates, Between
<1>2. QED
  BY <1>1 DEF NewSheet, Refreshed, Decisions, SheetOK

LEMMA ScannableType == \A head : Scannable(head) => head \in Created
BY DEF Scannable, Resolves

\* A command that leaves git alone and ends the promises.
LEMMA CommandInv ==
    ASSUME GInv, UNCHANGED git, promised' = {},
           /\ pin' \in Created \cup {NoSha} /\ SheetOK' /\ RecordOK'
           /\ status' \in {"absent", "planned", "released"} /\ date' \in Dates \cup {NoDate}
           /\ entries' \subseteq Entry /\ section' = section /\ refreshing' \in BOOLEAN
           /\ status' = "absent" => pin' = NoSha /\ sheet' = NoSheet /\ entries' = {}
    PROVE  GInv'
BY DEF GInv, TypeOK, History, RecordOK, PromisesKept, Created, git, SheetOK

LEMMA PrepareInv == ASSUME GInv, NEW ranged \in BOOLEAN, NEW refresh \in BOOLEAN, Prepare(ranged, refresh)
                    PROVE  GInv'
<1> DEFINE failed == ranged /\ ~Scannable(branch)
           head == IF ranged /\ ~failed THEN branch ELSE pin
<1>0. TypeOK /\ RecordOK
  BY DEF GInv
<1>1. /\ status' = (IF status = "absent" THEN "planned" ELSE status) /\ pin' = head /\ promised' = {}
      /\ UNCHANGED <<git, date, entries, section, refreshing>>
  BY DEF Prepare
<1>2. head \in Created \cup {NoSha}
  BY <1>0 DEF TypeOK
<1>3. SheetOK'
  <2>1. SheetOK /\ merges' = merges /\ Created' = Created
    BY <1>0, <1>1 DEF TypeOK, SheetOK, git, Created
  <2>2. sheet' = sheet \/ (Scannable(head) /\ sheet' = NewSheet(head))
        \/ (Scannable(head) /\ sheet # NoSheet /\ sheet' = Refreshed(head))
    BY DEF Prepare, RefreshedUnless
  <2>3. QED
    BY <2>1, <2>2, SheetTypes, ScannableType DEF SheetOK
<1>4. RecordOK'
  BY <1>0, <1>1 DEF TypeOK, RecordOK
<1>5. status' \in {"planned", "released"}
  BY <1>0, <1>1 DEF TypeOK
<1>6. QED
  BY <1>0, <1>1, <1>2, <1>3, <1>4, <1>5, CommandInv DEF TypeOK

LEMMA RangeInv ==
    ASSUME GInv, (\E clear \in BOOLEAN : UpdateRange(clear)) \/ RefreshRelease
    PROVE  GInv'
<1>0. TypeOK /\ RecordOK
  BY DEF GInv
<1>1. /\ status # "absent" /\ pin' \in {branch, NoSha} /\ promised' = {} /\ refreshing' \in BOOLEAN
      /\ UNCHANGED <<git, status, date, sheet, entries, section>>
  BY <1>0 DEF UpdateRange, RefreshRelease, TypeOK
<1>2. SheetOK' /\ RecordOK'
  BY <1>0, <1>1 DEF TypeOK, SheetOK, RecordOK, git, Created
<1>3. QED
  BY <1>0, <1>1, <1>2, CommandInv DEF TypeOK

LEMMA SheetInv ==
    ASSUME GInv,
           \/ \E killed, allow \in BOOLEAN : RefreshRows(killed, allow)
           \/ \E head \in {pin, branch} : CreateAudit(head, sheet # NoSheet) \/ RefreshAudit(head, Removes(head))
           \/ \E c \in Created, d \in Decisions : ApplyAudit(c, d)
    PROVE  GInv'
<1>0. TypeOK /\ RecordOK /\ SheetOK
  BY DEF GInv, TypeOK, SheetOK
<1>1. /\ promised' = {} /\ refreshing' \in {refreshing, FALSE}
      /\ UNCHANGED <<git, record, entries, section>>
  BY DEF RefreshRows, CreateAudit, RefreshAudit, ApplyAudit
<1>2. status # "absent"
  BY <1>0 DEF RefreshRows, CreateAudit, RefreshAudit, ApplyAudit, TypeOK, RecordOK
<1>3. \/ sheet' = sheet
      \/ \E head : Scannable(head) /\ sheet' = NewSheet(head)
      \/ \E head : Scannable(head) /\ sheet # NoSheet /\ sheet' = Refreshed(head)
      \/ \E c \in Created, d \in Decisions : c \in DOMAIN sheet /\ sheet # NoSheet
                                           /\ sheet' = [sheet EXCEPT ![c] = d]
  BY DEF RefreshRows, RefreshedUnless, Scans, CreateAudit, RefreshAudit, AuditHead, ApplyAudit
<1>4. merges' = merges /\ Created' = Created
  BY <1>1 DEF git, Created
<1>5. SheetOK'
  BY <1>0, <1>3, <1>4, SheetTypes, ScannableType DEF SheetOK
<1>6. RecordOK'
  BY <1>0, <1>1, <1>2 DEF RecordOK, record
<1>7. QED
  BY <1>0, <1>1, <1>2, <1>5, <1>6, CommandInv DEF TypeOK, record

LEMMA EntriesInv ==
    ASSUME GInv, (\E e \in Entry : AcceptEntry(e)) \/ (\E e \in entries : WithdrawEntry(e))
    PROVE  GInv'
<1>0. TypeOK /\ RecordOK
  BY DEF GInv
<1>1. /\ promised' = {} /\ UNCHANGED <<git, record, sheet, section, refreshing>>
      /\ entries' \subseteq Entry /\ status # "absent"
  BY <1>0 DEF AcceptEntry, WithdrawEntry, TypeOK
<1>2. SheetOK' /\ RecordOK'
  BY <1>0, <1>1 DEF TypeOK, SheetOK, RecordOK, git, record, Created
<1>3. QED
  BY <1>0, <1>1, <1>2, CommandInv DEF TypeOK, record

LEMMA ReopenInv == GInv /\ ReopenRelease => GInv'
<1> SUFFICES ASSUME GInv, ReopenRelease PROVE GInv'
  OBVIOUS
<1>0. TypeOK /\ RecordOK
  BY DEF GInv
<1>1. /\ promised' = {} /\ status' = "planned" /\ date' = NoDate
      /\ UNCHANGED <<git, pin, sheet, entries, section, refreshing>>
  BY DEF ReopenRelease
<1>2. SheetOK' /\ RecordOK'
  BY <1>0, <1>1 DEF TypeOK, SheetOK, RecordOK, git, Created
<1>3. QED
  BY <1>0, <1>1, <1>2, CommandInv DEF TypeOK

-----------------------------------------------------------------------------
(* Publishing: the checks and the steps that keep what they promise.         *)

LEMMA CheckInv ==
    ASSUME GInv, NEW i \in BOOLEAN, NEW d \in Dates, CheckFinalize(i, d)
    PROVE  GInv'
<1>0. TypeOK /\ RecordOK /\ History /\ PromisesKept
  BY DEF GInv
<1>1. /\ promised' = promised \cup {i} /\ Passes("finalize", i, TRUE, d)
      /\ UNCHANGED <<git, record, sheet, entries, section, refreshing>>
  BY DEF CheckFinalize
<1>2. Promise(i) /\ status # "absent"
  <2>1. /\ CoverageOk(i) /\ BuildCovers(i) /\ SnapshotOk /\ status # "absent"
        /\ SelectedRefs(i) # {} /\ SourceRefs \subseteq SelectedRefs(i)
        /\ IF sheet = NoSheet THEN pin = NoSha ELSE AuditOk(i)
    BY <1>1 DEF Passes, DryRunOk, StrictBuild
  <2>2. ASSUME pin # NoSha
        PROVE  /\ Base \in reach[pin]
               /\ \A c \in Candidates(pin) : RowSatisfied(c, i)
               /\ Candidates(pin) \subseteq AcceptedRefs(BOOLEAN) \cup Exempt(i)
    BY <2>1, <2>2 DEF SnapshotOk, Scans, Scannable, CoverageOk, ExpectedCommits, Snapshot, BuildCovers
  <2>3. QED
    BY <2>1, <2>2 DEF Promise
<1>3. TypeOK' /\ History' /\ RecordOK'
  BY <1>0, <1>1 DEF TypeOK, History, RecordOK, Created, git, record
<1>4. PromisesKept'
  BY <1>0, <1>1, <1>2, PromiseUnchanged DEF TypeOK, PromisesKept, git, record
<1>5. QED
  BY <1>3, <1>4 DEF GInv

LEMMA FinalizeInv == ASSUME GInv, NEW day \in Dates, FinalizeRelease(day) PROVE GInv'
<1>0. TypeOK /\ RecordOK /\ History /\ PromisesKept
  BY DEF GInv
<1>1. /\ status = "planned" /\ status' = "released" /\ date' = day
      /\ UNCHANGED <<git, pin, sheet, entries, section, refreshing, promised>>
  BY DEF FinalizeRelease
<1>2. TypeOK' /\ History' /\ RecordOK'
  BY <1>0, <1>1 DEF TypeOK, History, RecordOK, Created, git
<1>3. PromisesKept'
  BY <1>0, <1>1, PromiseUnchanged DEF TypeOK, PromisesKept, git
<1>4. QED
  BY <1>2, <1>3 DEF GInv

LEMMA BuildInv ==
    ASSUME GInv, NEW internal \in BOOLEAN, NEW unreleased \in BOOLEAN, NEW own \in Dates \cup {NoDate},
           BuildChangelog(internal, unreleased, own)
    PROVE  GInv'
<1>0. TypeOK /\ RecordOK /\ History /\ PromisesKept
  BY DEF GInv
<1>1. /\ status # "absent" /\ section' \in {"unreleased"} \cup Dates
      /\ UNCHANGED <<git, record, sheet, entries, refreshing, promised>>
  BY <1>0 DEF BuildChangelog, StrictBuild, TypeOK
<1>2. TypeOK' /\ History' /\ RecordOK'
  BY <1>0, <1>1 DEF TypeOK, History, RecordOK, Created, git, record
<1>3. PromisesKept'
  BY <1>0, <1>1, PromiseUnchanged DEF TypeOK, PromisesKept, git, record
<1>4. QED
  BY <1>2, <1>3 DEF GInv

LEMMA StutterInv == GInv /\ UNCHANGED vars => GInv'
<1> SUFFICES ASSUME GInv, UNCHANGED vars PROVE GInv'
  OBVIOUS
<1>1. PromisesKept'
  BY PromiseUnchanged DEF GInv, TypeOK, PromisesKept, vars, git, record
<1>2. QED
  BY <1>1 DEF GInv, TypeOK, History, RecordOK, Created, vars, git, record

LEMMA NextInv == GInv /\ [Next]_vars => GInv'
<1> SUFFICES ASSUME GInv, [Next]_vars PROVE GInv'
  OBVIOUS
<1>1. CASE Next
  <2>1. CASE Len(reach) < MaxCommits
             /\ \E ps \in SUBSET (Created \ gone), moves \in BOOLEAN : Commit(ps, moves)
    BY <2>1, CommitInv
  <2>2. CASE Collect \/ TagHead
    BY <2>2, CollectInv, TagInv
  <2>3. CASE \E ranged, refresh \in BOOLEAN : Prepare(ranged, refresh)
    BY <2>3, PrepareInv
  <2>4. CASE (\E b \in BOOLEAN : UpdateRange(b)) \/ RefreshRelease
    BY <2>4, RangeInv
  <2>5. CASE \/ \E killed, allow \in BOOLEAN : RefreshRows(killed, allow)
             \/ \E head \in {pin, branch} :
                   CreateAudit(head, sheet # NoSheet) \/ RefreshAudit(head, Removes(head))
             \/ \E c \in Created, d \in Decisions : ApplyAudit(c, d)
    BY <2>5, SheetInv
  <2>6. CASE (\E e \in Entry : AcceptEntry(e)) \/ (\E e \in entries : WithdrawEntry(e))
    BY <2>6, EntriesInv
  <2>7. CASE \E d \in Dates : FinalizeRelease(d)
    BY <2>7, FinalizeInv
  <2>8. CASE ReopenRelease
    BY <2>8, ReopenInv
  <2>9. CASE \E i, u \in BOOLEAN, d \in Dates \cup {NoDate} : BuildChangelog(i, u, d)
    BY <2>9, BuildInv
  <2>10. CASE \E i \in BOOLEAN, d \in Dates : CheckFinalize(i, d)
    BY <2>10, CheckInv
  <2>11. QED
    BY <1>1, <2>1, <2>2, <2>3, <2>4, <2>5, <2>6, <2>7, <2>8, <2>9, <2>10 DEF Next
<1>2. CASE UNCHANGED vars
  BY <1>2, StutterInv
<1>3. QED
  BY <1>1, <1>2

\* A kept promise, a tag and a changelog that is right or none are all that the
\* published check asks for, as long as the head of the range is there; and it is if
\* the tag reaches it.
LEMMA PromiseSuffices == GInv => PublishedFollows
<1> SUFFICES ASSUME GInv, status = "released", tag # NoSha, section \in {date, "no file"},
                    NEW i \in promised
             PROVE  Passes("published", i, TRUE, NoDate) \/ (pin \in gone /\ pin \notin reach[tag])
  BY DEF PublishedFollows
<1>1. date \in Dates /\ date # NoDate /\ section # "none" /\ section # "unreleased"
      /\ section \notin Dates \ {date}
  BY GateAssumption DEF GInv, RecordOK
<1>2. Promise(i) /\ status # "absent"
  BY DEF GInv, PromisesKept
<1>3. CASE pin \in gone
  <2>1. tag \in Created \ gone
    BY DEF GInv, TypeOK
  <2>2. reach[tag] \cap gone = {}
    BY <2>1 DEF GInv, History
  <2>3. QED
    BY <1>3, <2>2
<1>4. CASE pin \notin gone
  <2>1. pin # NoSha => Scannable(pin) /\ Scans
    BY <1>2, <1>4 DEF GInv, TypeOK, Promise, Scans, Scannable, Resolves, Snapshot
  <2>2. CoverageOk(i) /\ BuildCovers(i) /\ SnapshotOk
    BY <1>2, <2>1
    DEF Promise, CoverageOk, ExpectedCommits, Scans, BuildCovers, SnapshotOk, Snapshot
  <2>3. PhaseProblems("published") = {}
    BY <1>1 DEF PhaseProblems, RecordProblems
  <2>4. DryRunOk("published", i, NoDate)
    BY <1>1, <1>2, <2>2 DEF DryRunOk, StrictBuild, Promise
  <2>5. ReleaseStateOk("published", NoDate) /\ OwnershipOk(TRUE)
    BY DEF ReleaseStateOk, OwnershipOk
  <2>6. QED
    BY <1>2, <2>2, <2>3, <2>4, <2>5 DEF Passes, Promise
<1>5. QED
  BY <1>3, <1>4

-----------------------------------------------------------------------------
\* Every variable keeps its type, and no sheet has a row of a merge commit.
THEOREM GateTypesCorrect == Spec => []TypeOK
<1>1. Spec => []GInv
  BY InitInv, NextInv, PTL DEF Spec
<1>2. GInv => TypeOK
  BY DEF GInv
<1>3. QED
  BY <1>1, <1>2, PTL

\* A finalize check that has passed is worth something: once the release is finalized,
\* tagged and built the published check passes with the same options, whatever was
\* committed, rewritten or collected, unless the head of the range itself is gone,
\* which takes a tag that does not reach it.
THEOREM PublishedChecksFollow == Spec => []PublishedFollows
<1>1. Spec => []GInv
  BY InitInv, NextInv, PTL DEF Spec
<1>2. QED
  BY <1>1, PromiseSuffices, PTL

=============================================================================
