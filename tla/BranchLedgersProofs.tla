------------------------- MODULE BranchLedgersProofs -------------------------
(* The ledgers of a project for any refs, processes, commits and any number  *)
(* of commands and kills: what BranchLedgers' run shows of two of each.      *)
EXTENDS BranchLedgers, FiniteSetTheorems, WellFoundedInduction, TLAPS

-----------------------------------------------------------------------------
(* Entries.                                                                  *)

\* A set of ids that is not empty has a largest one.
LEMMA LargestId ==
    ASSUME NEW S \in SUBSET Ids, S # {}
    PROVE  Max(S) \in S /\ \A i \in S : i <= Max(S)
<1> DEFINE T == {n \in Nat : MaxId - n \in S}
<1>1. MaxId \in Nat /\ S \subseteq 1..MaxId
  BY BranchAssumption DEF Ids
<1>2. PICK s \in S : TRUE
  OBVIOUS
<1>3. MaxId - s \in T
  BY <1>1
<1>4. PICK n \in T : \A m \in T : ~(<<m, n>> \in OpToRel(<, Nat))
  BY <1>3, WFMin, NatLessThanWellFounded
<1>5. \A m \in T : ~(m < n)
  BY <1>4 DEF OpToRel
<1>6. MaxId - n \in S
  OBVIOUS
<1>7. ASSUME NEW i \in S
      PROVE  i <= MaxId - n
  <2>1. MaxId - i \in T
    BY <1>1
  <2>2. n <= MaxId - i
    BY <1>1, <1>5, <2>1
  <2>3. QED
    BY <1>1, <2>2
<1>8. \E x \in S : \A y \in S : x >= y
  BY <1>1, <1>6, <1>7
<1>9. Max(S) \in S /\ \A y \in S : Max(S) >= y
  BY <1>8 DEF Max
<1>10. QED
  BY <1>1, <1>9

\* next_entry_id_from gives an id above all that are taken.
LEMMA NextIdIsFree ==
    ASSUME NEW files \in Files
    PROVE  NextId(files) \in Nat \ {0} /\ \A i \in Taken(files) : i < NextId(files)
<1>1. Taken(files) \in SUBSET Ids /\ Ids \subseteq Nat
  BY DEF Taken, Ids
<1>2. CASE Taken(files) = {}
  BY <1>2 DEF NextId
<1>3. CASE Taken(files) # {}
  BY <1>1, <1>3, LargestId DEF NextId, Ids
<1>4. QED
  BY <1>2, <1>3

\* What the files of a ledger become when the file of an id is written.
LEMMA FileWritten ==
    ASSUME NEW files \in Files, NEW id \in Ids, NEW refs \in SUBSET Commits
    PROVE  LET new == [files EXCEPT ![id] = refs]
           IN  /\ new \in Files
               /\ Taken(new) = Taken(files) \cup {id}
               /\ \A i \in Ids : new[i] = IF i = id THEN refs ELSE files[i]
<1>1. refs # NoEntry
  BY BranchAssumption DEF NoEntry
<1>2. QED
  BY <1>1 DEF Files, Taken

LEMMA FileRemoved ==
    ASSUME NEW files \in Files, NEW id
    PROVE  [files EXCEPT ![id] = NoEntry] \in Files
BY DEF Files, NoEntry

LEMMA TakenFiles ==
    ASSUME NEW files \in Files, NEW i \in Taken(files)
    PROVE  i \in Ids /\ files[i] \in SUBSET Commits
BY DEF Files, Taken

LEMMA NoFilesType == NoFiles \in Files /\ Taken(NoFiles) = {} /\ Owned(NoFiles) = {}
BY DEF NoFiles, Files, NoEntry, Taken, Owned

-----------------------------------------------------------------------------
(* Types.                                                                    *)

Kinds == {"create", "add", "start", "merge"}
Releases == [revision : Nat, count : Nat]
Ledgers == [there : BOOLEAN, entries : Files, log : Logs, release : Releases]
Jobs ==
    [kind : Kinds, run : Nat, into : Refs \cup {Config}, from : Refs, refs : SUBSET Commits,
     todo : Files, release : Releases, entries : Files, id : 0..MaxId, to : Refs,
     rows : Logs, checked : Refs, switched : BOOLEAN, overlapped : BOOLEAN,
     base : SUBSET (Parts \cup Commits)]
Positions ==
    {"idle", "acquire", "create", "mkdir", "copy", "config", "read", "next", "load",
     "entries", "entry", "count", "undo", "open", "events", "append"}

Types ==
    /\ ledger \in [Refs -> Ledgers]
    /\ active \in Refs /\ branch \in Refs /\ loose \subseteq Refs
    /\ lock \in Procs \cup {NoProc}
    /\ pc \in [Procs -> Positions]
    /\ job \in [Procs -> Jobs]
    /\ runs \in 0..MaxRuns /\ crashes \in 0..MaxCrashes

LEMMA NewJobType ==
    ASSUME NEW k \in Kinds, NEW n \in Nat, NEW into \in Refs \cup {Config}, NEW from \in Refs,
           NEW refs \in SUBSET Commits
    PROVE  Job(k, n, into, from, refs) \in Jobs
<1>1. MaxId \in Nat /\ Main \in Refs
  BY BranchAssumption
<1>2. <<>> \in Logs
  BY DEF Logs
<1>3. NoFiles \in Files /\ NoRelease \in Releases
  BY NoFilesType DEF NoRelease, Releases
<1>4. QED
  BY <1>1, <1>2, <1>3 DEF Job, Jobs

LEMMA NoJobType == NoJob \in Jobs
BY NewJobType, BranchAssumption DEF NoJob, Kinds

LEMMA NoLedgerType == NoLedger \in Ledgers
<1>1. <<>> \in Logs
  BY DEF Logs
<1>2. NoFiles \in Files /\ NoRelease \in Releases
  BY NoFilesType DEF NoRelease, Releases
<1>3. QED
  BY <1>1, <1>2 DEF NoLedger, Ledgers

LEMMA InitTypes == Init => Types
<1> SUFFICES ASSUME Init PROVE Types
  OBVIOUS
<1>1. PICK first \in {<<>>, << <<0, 0>> >>} :
          ledger = [r \in Refs |-> IF r = Main
                       THEN [there |-> TRUE, entries |-> NoFiles, log |-> first,
                             release |-> [revision |-> Len(first), count |-> 0]]
                       ELSE NoLedger]
  BY DEF Init
<1>2. MaxId \in Nat /\ MaxRuns \in Nat /\ MaxCrashes \in Nat /\ Main \in Refs
  BY BranchAssumption
<1>3. first \in Logs /\ Len(first) \in Nat
  <2>1. <<0, 0>> \in Nat \X (0..MaxId)
    BY <1>2
  <2> DEFINE row == <<0, 0>>
  <2>2. row \in Nat \X (0..MaxId)
    BY <2>1
  <2> HIDE DEF row
  <2>3. <<>> \in Logs /\ <<row>> \in Logs /\ Len(<<>>) = 0 /\ Len(<<row>>) = 1
    BY <2>2 DEF Logs
  <2>4. first = <<>> \/ first = <<row>>
    BY DEF row
  <2>5. QED
    BY <2>3, <2>4
<1>4. ledger \in [Refs -> Ledgers]
  <2>1. [there |-> TRUE, entries |-> NoFiles, log |-> first,
         release |-> [revision |-> Len(first), count |-> 0]] \in Ledgers
    BY <1>3, NoFilesType DEF Ledgers, Releases
  <2>2. QED
    BY <1>1, <2>1, NoLedgerType
<1>5. job \in [Procs -> Jobs]
  BY NoJobType DEF Init
<1>6. pc \in [Procs -> Positions]
  BY DEF Init, Positions
<1>7. /\ active = Main /\ branch = Main /\ lock = NoProc /\ loose = {}
      /\ runs = 0 /\ crashes = 0
  BY DEF Init
<1>8. QED
  BY <1>2, <1>4, <1>5, <1>6, <1>7 DEF Types

LEMMA WroteType ==
    ASSUME Types, NEW p \in Procs, NEW own \in Jobs
    PROVE  Wrote(p, own) \in [Procs -> Jobs]
<1>1. ASSUME NEW q \in Procs
      PROVE  [job[q] EXCEPT !.overlapped = TRUE] \in Jobs
  BY DEF Types, Jobs
<1>2. QED
  BY <1>1 DEF Wrote, Types

LEMMA WhereType == ASSUME Types, NEW p \in Procs PROVE Where(p) \in Refs
BY DEF Types, Where, Jobs

\* A step that changes the record of its own command and where it stands.
LEMMA OwnJobType ==
    ASSUME Types, NEW p \in Procs, NEW own \in Jobs, job' = [job EXCEPT ![p] = own]
    PROVE  job' \in [Procs -> Jobs]
BY DEF Types

LEMMA FinishTypes ==
    ASSUME Types, NEW p \in Procs, Finish(p)
    PROVE  pc' \in [Procs -> Positions] /\ lock' \in Procs \cup {NoProc}
BY DEF Types, Finish, Positions

LEMMA GiveTypes ==
    ASSUME Types, NEW p \in Procs, Give(p)
    PROVE  Types'
<1>1. pc' \in [Procs -> Positions] /\ lock' \in Procs \cup {NoProc}
  BY FinishTypes DEF Give
<1>2. job' \in [Procs -> Jobs]
  BY NoJobType, OwnJobType DEF Give
<1>3. QED
  BY <1>1, <1>2 DEF Give, Types

LEMMA BeginTypes ==
    ASSUME Types, NEW p \in Procs, NEW k \in Kinds, NEW into \in Refs \cup {Config},
           NEW from \in Refs, NEW refs \in SUBSET Commits, Begin(p, k, into, from, refs)
    PROVE  job' \in [Procs -> Jobs] /\ runs' \in 0..MaxRuns
<1>1. MaxRuns \in Nat /\ runs \in Nat /\ branch \in Refs
  BY BranchAssumption DEF Types
<1>2. Job(k, runs + 1, into, from, refs) \in Jobs
  BY <1>1, NewJobType
<1>3. [Job(k, runs + 1, into, from, refs) EXCEPT !.checked = branch] \in Jobs
  BY <1>1, <1>2 DEF Jobs
<1>4. job' \in [Procs -> Jobs]
  BY <1>3, OwnJobType DEF Begin
<1>5. QED
  BY <1>1, <1>4 DEF Begin, Types

LEMMA StartTypes ==
    ASSUME Types, NEW p \in Procs,
           CreateRelease(p) \/ AddEntry(p) \/ BranchStart(p) \/ BranchMerge(p)
    PROVE  Types'
<1>1. ASSUME NEW k \in Kinds, NEW refs \in SUBSET Commits, Begin1(p, k, refs)
      PROVE  Types'
  <2>1. Main \in Refs
    BY BranchAssumption
  <2>2. job' \in [Procs -> Jobs] /\ runs' \in 0..MaxRuns
    BY <1>1, <2>1, BeginTypes DEF Begin1
  <2>3. pc' \in [Procs -> Positions]
    BY <1>1 DEF Begin1, Types, Positions
  <2>4. QED
    BY <1>1, <2>2, <2>3 DEF Begin1, Types
<1>2. CASE CreateRelease(p)
  BY <1>1, <1>2 DEF CreateRelease, Kinds
<1>3. CASE AddEntry(p)
  BY <1>1, <1>3, BranchAssumption DEF AddEntry, Kinds
<1>4. CASE BranchStart(p)
  <2>1. PICK from \in Refs, into \in Refs :
            /\ Begin(p, "start", into, from, {})
            /\ pc' = [pc EXCEPT ![p] = "mkdir"]
            /\ UNCHANGED <<ledger, active, branch, lock, loose, crashes>>
    BY <1>4 DEF BranchStart
  <2>2. job' \in [Procs -> Jobs] /\ runs' \in 0..MaxRuns
    BY <2>1, BeginTypes DEF Kinds
  <2>3. QED
    BY <2>1, <2>2 DEF Types, Positions
<1>5. CASE BranchMerge(p)
  <2>1. PICK from \in Refs, into \in Refs :
            /\ Begin(p, "merge", into, from, {})
            /\ pc' = [pc EXCEPT ![p] = "read"]
            /\ UNCHANGED <<ledger, active, branch, lock, loose, crashes>>
    BY <1>5 DEF BranchMerge
  <2>2. job' \in [Procs -> Jobs] /\ runs' \in 0..MaxRuns
    BY <2>1, BeginTypes DEF Kinds
  <2>3. QED
    BY <2>1, <2>2 DEF Types, Positions
<1>6. QED
  BY <1>2, <1>3, <1>4, <1>5

LEMMA ReadTypes ==
    ASSUME Types, NEW p \in Procs,
           \/ Acquire(p) \/ MergeRead(p) \/ MergeNext(p) \/ LoadRelease(p) \/ LoadEntries(p)
           \/ ReleaseConflict(p) \/ ResolveLog(p) \/ LoadEvents(p)
    PROVE  Types'
<1>1. job[p] \in Jobs /\ Where(p) \in Refs /\ active \in Refs
  BY WhereType DEF Types
<1>2. \A r \in Refs : ledger[r] \in Ledgers
  BY DEF Types
<1>3. CASE Acquire(p)
  BY <1>3 DEF Acquire, Types, Positions
<1>4. CASE MergeRead(p)
  <2> DEFINE from == ledger[job[p].from].entries
             owned == Owned(ledger[job[p].into].entries)
             todo == [i \in Ids |-> IF i \in Taken(from) /\ Missing(from[i], owned)
                                    THEN from[i] ELSE NoEntry]
             base == UNION {from[i] : i \in Taken(from)}
             own == [job[p] EXCEPT !.todo = todo, !.base = base]
  <2>1. from \in Files
    BY <1>1, <1>2 DEF Jobs, Ledgers
  <2>2. todo \in Files /\ base \in SUBSET (Parts \cup Commits)
    BY <2>1, TakenFiles DEF Files
  <2> HIDE DEF todo, base
  <2>3. own \in Jobs
    BY <1>1, <2>2 DEF Jobs
  <2>4. job' = [job EXCEPT ![p] = own]
    BY <1>4 DEF MergeRead, Types, todo, base
  <2>5. QED
    BY <1>4, <2>3, <2>4, OwnJobType DEF MergeRead, Types, Positions
<1>5. CASE MergeNext(p)
  <2>1. PICK i \in Taken(job[p].todo) :
            job' = [job EXCEPT ![p].refs = job[p].todo[i], ![p].todo[i] = NoEntry]
    BY <1>5 DEF MergeNext
  <2> DEFINE own == [job[p] EXCEPT !.refs = job[p].todo[i],
                                   !.todo = [job[p].todo EXCEPT ![i] = NoEntry]]
  <2>2. job[p].todo[i] \in SUBSET Commits /\ [job[p].todo EXCEPT ![i] = NoEntry] \in Files
    BY <1>1, TakenFiles, FileRemoved DEF Jobs
  <2>3. own \in Jobs
    BY <1>1, <2>2 DEF Jobs
  <2>4. job' = [job EXCEPT ![p] = own]
    BY <2>1 DEF Types, Jobs
  <2>5. QED
    BY <1>5, <2>3, <2>4, OwnJobType DEF MergeNext, Types, Positions
<1>6. CASE LoadRelease(p)
  <2> DEFINE own == [job[p] EXCEPT !.release = ledger[Where(p)].release]
  <2>1. own \in Jobs
    BY <1>1, <1>2 DEF Jobs, Ledgers
  <2>2. job' = [job EXCEPT ![p] = own]
    BY <1>6 DEF LoadRelease, Types
  <2>3. QED
    BY <1>6, <2>1, <2>2, OwnJobType DEF LoadRelease, Types, Positions
<1>7. CASE LoadEntries(p)
  <2> DEFINE files == ledger[Where(p)].entries
             own == [job[p] EXCEPT !.entries = files, !.id = NextId(files)]
  <2>1. files \in Files
    BY <1>1, <1>2 DEF Ledgers
  <2>2. NextId(files) \in 0..MaxId
    BY <1>7, <2>1, NextIdIsFree, BranchAssumption DEF LoadEntries
  <2>3. own \in Jobs
    BY <1>1, <2>1, <2>2 DEF Jobs
  <2>4. job' = [job EXCEPT ![p] = own]
    BY <1>7 DEF LoadEntries, Types
  <2>5. QED
    BY <1>7, <2>3, <2>4, OwnJobType DEF LoadEntries, Types, Positions
<1>8. CASE ReleaseConflict(p)
  BY <1>8 DEF ReleaseConflict, Types, Positions
<1>9. CASE ResolveLog(p)
  <2> DEFINE own == [job[p] EXCEPT !.to = Where(p)]
  <2>1. own \in Jobs
    BY <1>1 DEF Jobs
  <2>2. job' = [job EXCEPT ![p] = own]
    BY <1>9 DEF ResolveLog, Types
  <2>3. QED
    BY <1>9, <2>1, <2>2, OwnJobType DEF ResolveLog, Types, Positions
<1>10. CASE LoadEvents(p)
  <2> DEFINE own == [job[p] EXCEPT !.rows = ledger[LogRead(p)].log]
  <2>1. own \in Jobs
    BY <1>1, <1>2 DEF Jobs, Ledgers, LogRead
  <2>2. job' = [job EXCEPT ![p] = own]
    BY <1>10 DEF LoadEvents, Types
  <2>3. QED
    BY <1>10, <2>1, <2>2, OwnJobType DEF LoadEvents, Types, Positions
<1>11. QED
  BY <1>3, <1>4, <1>5, <1>6, <1>7, <1>8, <1>9, <1>10

\* Writing one ledger.
LEMMA LedgerWritten ==
    ASSUME Types, NEW r \in Refs, NEW new \in Ledgers, ledger' = [ledger EXCEPT ![r] = new]
    PROVE  /\ ledger' \in [Refs -> Ledgers]
           /\ ledger'[r] = new
           /\ \A s \in Refs \ {r} : ledger'[s] = ledger[s]
BY DEF Types

\* Writing one part of it.
LEMMA PartWritten ==
    ASSUME NEW old \in Ledgers, NEW files \in Files, NEW log \in Logs, NEW release \in Releases
    PROVE  /\ [old EXCEPT !.there = TRUE] \in Ledgers
           /\ [old EXCEPT !.entries = files] \in Ledgers
           /\ [old EXCEPT !.log = log] \in Ledgers
           /\ [old EXCEPT !.release = release] \in Ledgers
BY DEF Ledgers

LEMMA CopiedType ==
    ASSUME NEW part \in Parts, NEW from \in Ledgers, NEW into \in Ledgers
    PROVE  /\ Copied(part, from, into) \in Ledgers
           /\ Copied(part, from, into).there = into.there
           /\ part # "entries" => Copied(part, from, into).entries = into.entries
           /\ part # "log" => Copied(part, from, into).log = into.log
           /\ part # "release" => Copied(part, from, into).release = into.release
<1>1. CASE part = "release"
  <2> DEFINE new == IF from.release.revision = 0 THEN into.release ELSE from.release
  <2>1. new \in Releases
    BY DEF Ledgers
  <2>2. Copied(part, from, into) = [into EXCEPT !.release = new]
    BY <1>1 DEF Copied, Ledgers
  <2> HIDE DEF new
  <2>3. QED
    BY <1>1, <2>1, <2>2 DEF Ledgers
<1>2. CASE part = "entries"
  <2> DEFINE new == [i \in Ids |-> IF from.entries[i] = NoEntry THEN into.entries[i]
                                   ELSE from.entries[i]]
  <2>1. new \in Files
    BY DEF Ledgers, Files
  <2>2. Copied(part, from, into) = [into EXCEPT !.entries = new]
    BY <1>2 DEF Copied, Ledgers
  <2> HIDE DEF new
  <2>3. QED
    BY <1>2, <2>1, <2>2 DEF Ledgers
<1>3. CASE part = "log"
  <2> DEFINE new == IF from.log = <<>> THEN into.log ELSE from.log
  <2>1. new \in Logs
    BY DEF Ledgers
  <2>2. Copied(part, from, into) = [into EXCEPT !.log = new]
    BY <1>3 DEF Copied, Ledgers
  <2> HIDE DEF new
  <2>3. QED
    BY <1>3, <2>1, <2>2 DEF Ledgers
<1>4. QED
  BY <1>1, <1>2, <1>3 DEF Parts

LEMMA CopyEffect ==
    ASSUME Types, NEW p \in Procs, CopyPart(p)
    PROVE  LET j == job[p] IN \E part \in Parts \ j.base :
             /\ j.from \in Refs
             /\ ledger' = [ledger EXCEPT ![j.into] = Copied(part, ledger[j.from], ledger[j.into])]
             /\ loose' = IF part = "entries" /\ (j.overlapped \/ \E q \in Procs \ {p} : pc[q] # "idle")
                         THEN loose \cup {j.into} ELSE loose
             /\ job' = Wrote(p, [j EXCEPT !.base = j.base \cup {part}])
             /\ [j EXCEPT !.base = j.base \cup {part}] \in Jobs
             /\ pc' = [pc EXCEPT ![p] = IF j.base \cup {part} = Parts THEN "config" ELSE pc[p]]
             /\ pc[p] = "copy"
             /\ UNCHANGED <<active, branch, lock, runs, crashes>>
<1> DEFINE j == job[p]
<1>1. PICK part \in Parts \ j.base :
        /\ ledger' = [ledger EXCEPT ![j.into] = Copied(part, ledger[j.from], @)]
        /\ loose' = IF part = "entries" /\ (j.overlapped \/ \E q \in Procs \ {p} : pc[q] # "idle")
                    THEN loose \cup {j.into} ELSE loose
        /\ job' = Wrote(p, [j EXCEPT !.base = @ \cup {part}])
        /\ pc' = [pc EXCEPT ![p] = IF j.base \cup {part} = Parts THEN "config" ELSE @]
  BY DEF CopyPart
<1>2. j \in Jobs
  BY DEF Types
<1>3. [j EXCEPT !.base = j.base \cup {part}] \in Jobs /\ j.from \in Refs
  BY <1>2 DEF Jobs
<1>4. QED
  BY <1>1, <1>3 DEF CopyPart

LEMMA SaveEntryEffect ==
    ASSUME Types, NEW p \in Procs, SaveEntry(p)
    PROVE  LET r == Where(p)
               new == [ledger[r].entries EXCEPT ![job[p].id] = job[p].refs] IN
           /\ ledger' = [ledger EXCEPT ![r] = [ledger[r] EXCEPT !.entries = new]]
           /\ new \in Files
           /\ [ledger[r] EXCEPT !.entries = new] \in Ledgers
<1>1. Where(p) \in Refs /\ ledger[Where(p)] \in Ledgers /\ job[p] \in Jobs
  BY WhereType DEF Types
<1>2. [ledger[Where(p)].entries EXCEPT ![job[p].id] = job[p].refs] \in Files
  BY <1>1 DEF Ledgers, Jobs, Files
<1>3. QED
  BY <1>1, <1>2 DEF SaveEntry, Ledgers

LEMMA UndoEffect ==
    ASSUME Types, NEW p \in Procs, Undo(p)
    PROVE  LET r == Where(p)
               new == [ledger[r].entries EXCEPT ![job[p].id] = NoEntry] IN
           /\ ledger' = [ledger EXCEPT ![r] = [ledger[r] EXCEPT !.entries = new]]
           /\ new \in Files
           /\ [ledger[r] EXCEPT !.entries = new] \in Ledgers
<1>1. Where(p) \in Refs /\ ledger[Where(p)] \in Ledgers /\ job[p] \in Jobs
  BY WhereType DEF Types
<1>2. [ledger[Where(p)].entries EXCEPT ![job[p].id] = NoEntry] \in Files
  BY <1>1, FileRemoved DEF Ledgers
<1>3. QED
  BY <1>1, <1>2 DEF Undo, Ledgers

LEMMA CountedType == ASSUME Types, NEW p \in Procs PROVE Counted(p) \in Releases
<1>1. job[p] \in Jobs
  BY DEF Types
<1>2. Taken(job[p].entries) \in SUBSET (1..MaxId) /\ MaxId \in Nat
  BY BranchAssumption DEF Taken, Ids
<1>3. IsFiniteSet(1..MaxId)
  BY <1>2, FS_Interval
<1>4. IsFiniteSet(Taken(job[p].entries))
  BY <1>2, <1>3, FS_Subset
<1>5. Cardinality(Taken(job[p].entries)) \in Nat
  BY <1>4, FS_CardinalityType
<1>6. QED
  BY <1>1, <1>5 DEF Counted, Releases, Jobs

LEMMA ReleaseEffect ==
    ASSUME Types, NEW p \in Procs, SaveRelease(p) \/ PersistRelease(p)
    PROVE  LET r == Where(p) IN
           \E new \in Releases :
             /\ ledger' = [ledger EXCEPT ![r] = [ledger[r] EXCEPT !.release = new]]
             /\ [ledger[r] EXCEPT !.release = new] \in Ledgers
             /\ SaveRelease(p) => new = Counted(p)
<1>1. Where(p) \in Refs /\ ledger[Where(p)] \in Ledgers /\ job[p] \in Jobs
  BY WhereType DEF Types
<1>2. CASE SaveRelease(p)
  <2>1. Counted(p) \in Releases
    BY CountedType
  <2>2. ledger' = [ledger EXCEPT ![Where(p)] = [ledger[Where(p)] EXCEPT !.release = Counted(p)]]
    BY <1>1, <1>2 DEF SaveRelease
  <2>3. [ledger[Where(p)] EXCEPT !.release = Counted(p)] \in Ledgers
    BY <1>1, <2>1 DEF Ledgers
  <2>4. QED
    BY <2>1, <2>2, <2>3
<1>3. CASE PersistRelease(p)
  <2> DEFINE new == [revision |-> 1, count |-> 0]
  <2>1. new \in Releases
    BY DEF Releases
  <2>2. ledger' = [ledger EXCEPT ![Where(p)] = [ledger[Where(p)] EXCEPT !.release = new]]
    BY <1>1, <1>3 DEF PersistRelease
  <2>3. [ledger[Where(p)] EXCEPT !.release = new] \in Ledgers
    BY <1>1, <2>1 DEF Ledgers
  <2>4. ~SaveRelease(p)
    BY <1>3 DEF SaveRelease, PersistRelease
  <2>5. QED
    BY <2>1, <2>2, <2>3, <2>4
<1>4. QED
  BY <1>2, <1>3

LEMMA WriteEventsEffect ==
    ASSUME Types, NEW p \in Procs, WriteEvents(p)
    PROVE  LET r == job[p].to
               new == Append(job[p].rows, <<job[p].run, job[p].id>>) IN
           /\ r \in Refs /\ new \in Logs
           /\ ledger' = [ledger EXCEPT ![r] = [ledger[r] EXCEPT !.log = new]]
           /\ [ledger[r] EXCEPT !.log = new] \in Ledgers
<1> DEFINE row == <<job[p].run, job[p].id>>
<1>1. job[p].to \in Refs /\ ledger[job[p].to] \in Ledgers
  BY DEF Types, Jobs
<1>2. job[p].rows \in Logs /\ row \in Nat \X (0..MaxId)
  BY DEF Types, Jobs
<1> HIDE DEF row
<1>3. Append(job[p].rows, row) \in Logs
  BY <1>2 DEF Logs
<1>4. [ledger[job[p].to] EXCEPT !.log = Append(job[p].rows, row)] \in Ledgers
  BY <1>1, <1>3 DEF Ledgers
<1>5. ledger' = [ledger EXCEPT ![job[p].to] =
                    [ledger[job[p].to] EXCEPT !.log = Append(job[p].rows, row)]]
  BY <1>1 DEF WriteEvents, row
<1>6. QED
  BY <1>1, <1>3, <1>4, <1>5 DEF row

LEMMA MakeTreeEffect ==
    ASSUME Types, NEW p \in Procs, MakeTree(p), job[p].into \in Refs
    PROVE  LET r == job[p].into IN
           /\ ledger' = [ledger EXCEPT ![r] = [ledger[r] EXCEPT !.there = TRUE]]
           /\ [ledger[r] EXCEPT !.there = TRUE] \in Ledgers
<1>1. ledger[job[p].into] \in Ledgers
  BY DEF Types
<1>2. QED
  BY <1>1 DEF MakeTree, Ledgers

LEMMA SetConfigJobs ==
    ASSUME Types, NEW p \in Procs, SetConfig(p)
    PROVE  job' \in [Procs -> Jobs]
<1>1. ASSUME NEW q \in Procs
      PROVE  [job[q] EXCEPT !.switched = TRUE] \in Jobs
  BY DEF Types, Jobs
<1>2. QED
  BY <1>1, NoJobType DEF SetConfig, Types


-----------------------------------------------------------------------------
(* What a step of one process leaves of another.                             *)

Starts(p) == CreateRelease(p) \/ AddEntry(p) \/ BranchStart(p) \/ BranchMerge(p)
Reads(p) ==
    \/ Acquire(p) \/ MergeRead(p) \/ MergeNext(p) \/ LoadRelease(p) \/ LoadEntries(p)
    \/ ReleaseConflict(p) \/ ResolveLog(p) \/ LoadEvents(p)
Ends(p) ==
    \/ LockTimeout(p) \/ TreeExists(p) \/ MergeDone(p) \/ NoSuchRelease(p) \/ Refused(p)
    \/ EntryConflict(p) \/ ReleaseExists(p) \/ Kill(p)
Copies(p) == MakeTree(p) \/ CopyPart(p)
Saves(p) == SaveEntry(p) \/ SaveRelease(p) \/ PersistRelease(p) \/ Undo(p)

LEMMA StepKinds ==
    ASSUME NEW p \in Procs
    PROVE  Step(p) \/ Kill(p) <=>
              \/ Starts(p) \/ Reads(p) \/ Ends(p) \/ Copies(p) \/ Saves(p)
              \/ WriteEvents(p) \/ SetConfig(p)
BY DEF Step, Starts, Reads, Ends, Copies, Saves

LEMMA EndEffect ==
    ASSUME NEW p \in Procs, Ends(p)
    PROVE  /\ Finish(p)
           /\ job' = [job EXCEPT ![p] = NoJob]
           /\ UNCHANGED <<ledger, active, branch, loose, runs>>
           /\ crashes' \in {crashes, crashes + 1}
           /\ crashes' # crashes => crashes < MaxCrashes
<1>1. CASE Kill(p)
  BY <1>1 DEF Kill
<1>2. CASE Give(p)
  BY <1>2 DEF Give
<1>3. QED
  BY <1>1, <1>2 DEF Ends, LockTimeout, TreeExists, MergeDone, NoSuchRelease, Refused,
                    EntryConflict, ReleaseExists

LEMMA ReadEffect ==
    ASSUME NEW p \in Procs, Reads(p)
    PROVE  /\ UNCHANGED <<ledger, active, branch, loose, runs, crashes>>
           /\ lock' # lock => Acquire(p)
BY DEF Reads, Acquire, MergeRead, MergeNext, LoadRelease, LoadEntries, ReleaseConflict,
       ResolveLog, LoadEvents

\* The command of a process goes on as it was, with a longer history perhaps.
Kept(j, k) ==
    /\ k.kind = j.kind /\ k.into = j.into /\ k.from = j.from /\ k.refs = j.refs
    /\ k.todo = j.todo /\ k.release = j.release /\ k.entries = j.entries /\ k.id = j.id
    /\ k.to = j.to /\ k.rows = j.rows /\ k.checked = j.checked /\ k.base = j.base
    /\ j.switched => k.switched
    /\ j.overlapped => k.overlapped

Keeps(q) ==
    /\ pc'[q] = pc[q]
    /\ pc[q] # "idle" =>
        /\ Kept(job[q], job'[q])
        /\ ledger' # ledger => job'[q].overlapped
        /\ active' # active => job'[q].switched

LEMMA KeptMarked ==
    ASSUME NEW j \in Jobs
    PROVE  /\ Kept(j, j)
           /\ Kept(j, [j EXCEPT !.overlapped = TRUE]) /\ [j EXCEPT !.overlapped = TRUE].overlapped
           /\ Kept(j, [j EXCEPT !.switched = TRUE]) /\ [j EXCEPT !.switched = TRUE].switched
BY DEF Kept, Jobs

LEMMA WroteKeeps ==
    ASSUME Types, NEW p \in Procs, NEW q \in Procs \ {p}, pc[q] # "idle", NEW own
    PROVE  Kept(job[q], Wrote(p, own)[q]) /\ Wrote(p, own)[q].overlapped
<1>1. Wrote(p, own)[q] = [job[q] EXCEPT !.overlapped = TRUE] /\ job[q] \in Jobs
  BY DEF Wrote, Types
<1>2. QED
  BY <1>1, KeptMarked

LEMMA SetConfigKeeps ==
    ASSUME Types, NEW p \in Procs, SetConfig(p), NEW q \in Procs \ {p}, pc[q] # "idle"
    PROVE  Kept(job[q], job'[q]) /\ job'[q].switched
<1>1. job'[q] = [job[q] EXCEPT !.switched = TRUE] /\ job[q] \in Jobs
  BY DEF SetConfig, Types
<1>2. QED
  BY <1>1, KeptMarked

LEMMA OthersStep ==
    ASSUME Types, NEW p \in Procs, Step(p) \/ Kill(p), NEW q \in Procs \ {p}
    PROVE  Keeps(q)
<1>1. job[q] \in Jobs /\ Kept(job[q], job[q])
  BY KeptMarked DEF Types
<1>2. CASE UNCHANGED <<ledger, active>> /\ pc'[q] = pc[q] /\ job'[q] = job[q]
  BY <1>1, <1>2 DEF Keeps
<1>3. CASE Starts(p)
  <2>1. UNCHANGED <<ledger, active>> /\ pc'[q] = pc[q] /\ job'[q] = job[q]
    BY <1>3 DEF Starts, CreateRelease, AddEntry, BranchStart, BranchMerge, Begin1, Begin, Types
  <2>2. QED
    BY <1>2, <2>1
<1>4. CASE Reads(p)
  <2>1. UNCHANGED <<ledger, active>>
    BY <1>4, ReadEffect
  <2>2. pc'[q] = pc[q] /\ job'[q] = job[q]
    BY <1>4 DEF Reads, Acquire, MergeRead, MergeNext, LoadRelease, LoadEntries,
                ReleaseConflict, ResolveLog, LoadEvents, Types
  <2>3. QED
    BY <1>2, <2>1, <2>2
<1>5. CASE Ends(p)
  <2>1. UNCHANGED <<ledger, active>> /\ pc'[q] = pc[q] /\ job'[q] = job[q]
    BY <1>5, EndEffect DEF Finish, Types
  <2>2. QED
    BY <1>2, <2>1
<1>6. ASSUME NEW own, job' = Wrote(p, own), pc'[q] = pc[q], active' = active
      PROVE  Keeps(q)
  BY <1>6, WroteKeeps DEF Keeps
<1>7. CASE Copies(p)
  <2>1. CASE MakeTree(p)
    BY <1>6, <2>1 DEF MakeTree, Types
  <2>2. CASE CopyPart(p)
    <3>1. PICK own : job' = Wrote(p, own)
      BY <2>2, CopyEffect
    <3>2. pc'[q] = pc[q] /\ active' = active
      BY <2>2 DEF CopyPart, Types
    <3>3. QED
      BY <1>6, <3>1, <3>2
  <2>3. QED
    BY <1>7, <2>1, <2>2 DEF Copies
<1>8. CASE Saves(p)
  <2>1. CASE SaveEntry(p)
    BY <1>6, <2>1 DEF SaveEntry, Types
  <2>2. CASE SaveRelease(p)
    BY <1>6, <2>2 DEF SaveRelease, Types
  <2>3. CASE PersistRelease(p)
    BY <1>6, <2>3 DEF PersistRelease, Types
  <2>4. CASE Undo(p)
    BY <1>6, <2>4 DEF Undo, Finish, Types
  <2>5. QED
    BY <1>8, <2>1, <2>2, <2>3, <2>4 DEF Saves
<1>9. CASE WriteEvents(p)
  <2>1. PICK own : job' = Wrote(p, own)
    BY <1>9 DEF WriteEvents
  <2>2. pc'[q] = pc[q] /\ active' = active
    BY <1>9 DEF WriteEvents, Finish, Types
  <2>3. QED
    BY <1>6, <2>1, <2>2
<1>10. CASE SetConfig(p)
  <2>1. pc'[q] = pc[q] /\ ledger' = ledger
    BY <1>10 DEF SetConfig, Finish, Types
  <2>2. QED
    BY <1>10, <2>1, SetConfigKeeps DEF Keeps
<1>11. QED
  BY <1>3, <1>4, <1>5, <1>7, <1>8, <1>9, <1>10, StepKinds

-----------------------------------------------------------------------------
(* The course of a command and the places it writes.                         *)

\* What kind of command is at a position, and whether it was told its ledger.
Course(p) ==
    pc[p] # "idle" =>
        /\ job[p].into = Config <=> job[p].kind \in {"create", "add"}
        /\ job[p].kind = "start" <=> pc[p] \in {"mkdir", "copy", "config"}
        /\ pc[p] \in {"read", "next"} => job[p].kind = "merge"
        /\ pc[p] \in {"acquire", "create"} => job[p].kind \in {"create", "add"}

Courses == \A p \in Procs : Course(p)

\* A command that goes on is the same command.
LEMMA OwnKept ==
    ASSUME Types, NEW p \in Procs,
           Reads(p) \/ Copies(p) \/ Saves(p) \/ WriteEvents(p), pc'[p] # "idle"
    PROVE  /\ job'[p].kind = job[p].kind /\ job'[p].into = job[p].into
           /\ job'[p].from = job[p].from /\ job'[p].checked = job[p].checked
           /\ job'[p].switched = job[p].switched /\ job'[p].overlapped = job[p].overlapped
<1>1. job[p] \in Jobs
  BY DEF Types
<1>2. CASE Reads(p)
  <2>1. CASE Acquire(p) \/ ReleaseConflict(p)
    BY <2>1 DEF Acquire, ReleaseConflict
  <2>2. CASE MergeRead(p)
    <3>1. PICK todo, base : job'[p] = [job[p] EXCEPT !.todo = todo, !.base = base]
      BY <2>2 DEF MergeRead, Types
    <3>2. QED
      BY <1>1, <3>1 DEF Jobs
  <2>3. CASE MergeNext(p)
    <3>1. PICK i : job'[p] = [job[p] EXCEPT !.refs = job[p].todo[i], !.todo[i] = NoEntry]
      BY <2>3 DEF MergeNext, Types
    <3>2. QED
      BY <1>1, <3>1 DEF Jobs
  <2>4. CASE LoadRelease(p)
    BY <1>1, <2>4 DEF LoadRelease, Types, Jobs
  <2>5. CASE LoadEntries(p)
    <3>1. PICK files, id : job'[p] = [job[p] EXCEPT !.entries = files, !.id = id]
      BY <2>5 DEF LoadEntries, Types
    <3>2. QED
      BY <1>1, <3>1 DEF Jobs
  <2>6. CASE ResolveLog(p)
    BY <1>1, <2>6 DEF ResolveLog, Types, Jobs
  <2>7. CASE LoadEvents(p)
    BY <1>1, <2>7 DEF LoadEvents, Types, Jobs
  <2>8. QED
    BY <1>2, <2>1, <2>2, <2>3, <2>4, <2>5, <2>6, <2>7 DEF Reads
<1>3. CASE MakeTree(p)
  BY <1>1, <1>3 DEF MakeTree, Wrote
<1>4. CASE CopyPart(p)
  <2>1. PICK part \in Parts : job' = Wrote(p, [job[p] EXCEPT !.base = job[p].base \cup {part}])
    BY <1>4, CopyEffect
  <2>2. job'[p] = [job[p] EXCEPT !.base = job[p].base \cup {part}]
    BY <2>1 DEF Wrote
  <2>3. QED
    BY <1>1, <2>2 DEF Jobs
<1>5. CASE Saves(p)
  BY <1>1, <1>5 DEF Saves, SaveEntry, SaveRelease, PersistRelease, Undo, Finish, Wrote, Types
<1>6. CASE WriteEvents(p)
  BY <1>1, <1>6 DEF WriteEvents, Finish, Wrote, Types
<1>7. QED
  BY <1>2, <1>3, <1>4, <1>5, <1>6 DEF Copies

\* A command that begins.
LEMMA Begun ==
    ASSUME Types, NEW p \in Procs, Starts(p)
    PROVE  /\ pc[p] = "idle"
           /\ \/ /\ job'[p].kind \in {"create", "add"} /\ job'[p].into = Config
                 /\ pc'[p] = "acquire" /\ GuardPasses
              \/ /\ job'[p].kind = "start" /\ job'[p].into \in Refs /\ pc'[p] = "mkdir"
                 /\ job'[p].from \in Refs
              \/ /\ job'[p].kind = "merge" /\ job'[p].into \in Refs /\ pc'[p] = "read"
                 /\ ledger[job'[p].into].there
           /\ job'[p].checked = branch /\ ~job'[p].switched /\ ~job'[p].overlapped
           /\ job'[p].base = {} /\ job'[p].release = NoRelease
           /\ UNCHANGED <<ledger, active, lock, loose>>
<1> DEFINE New(k, into, from, refs) ==
              [Job(k, runs + 1, into, from, refs) EXCEPT !.checked = branch]
<1>1. ASSUME NEW k, NEW into, NEW from, NEW refs
      PROVE  LET j == New(k, into, from, refs) IN
             /\ j.kind = k /\ j.into = into /\ j.from = from
             /\ j.checked = branch /\ ~j.switched /\ ~j.overlapped
             /\ j.base = {} /\ j.release = NoRelease
  BY DEF Job
<1> HIDE DEF New
<1>2. ASSUME NEW k \in {"create", "add"}, NEW refs, Begin1(p, k, refs)
      PROVE  /\ job'[p] = New(k, Config, Main, refs) /\ pc'[p] = "acquire" /\ pc[p] = "idle"
             /\ GuardPasses
             /\ UNCHANGED <<ledger, active, lock, loose>>
  BY <1>2 DEF Begin1, Begin, Types, New
<1>3. CASE CreateRelease(p)
  BY <1>1, <1>2, <1>3 DEF CreateRelease
<1>4. CASE AddEntry(p)
  BY <1>1, <1>2, <1>4 DEF AddEntry
<1>5. CASE BranchStart(p)
  <2>1. PICK from \in Refs, into \in Refs :
            /\ Begin(p, "start", into, from, {})
            /\ pc' = [pc EXCEPT ![p] = "mkdir"]
            /\ UNCHANGED <<ledger, active, branch, lock, loose, crashes>>
    BY <1>5 DEF BranchStart
  <2>2. job'[p] = New("start", into, from, {}) /\ pc[p] = "idle"
    BY <2>1 DEF Begin, Types, New
  <2>3. QED
    BY <1>1, <2>1, <2>2 DEF Types
<1>6. CASE BranchMerge(p)
  <2>1. PICK from \in Refs, into \in Refs :
            /\ ledger[into].there
            /\ Begin(p, "merge", into, from, {})
            /\ pc' = [pc EXCEPT ![p] = "read"]
            /\ UNCHANGED <<ledger, active, branch, lock, loose, crashes>>
    BY <1>6 DEF BranchMerge
  <2>2. job'[p] = New("merge", into, from, {}) /\ pc[p] = "idle"
    BY <2>1 DEF Begin, Types, New
  <2>3. QED
    BY <1>1, <2>1, <2>2 DEF Types
<1>7. QED
  BY <1>3, <1>4, <1>5, <1>6 DEF Starts

\* A command that is over.
LEMMA Over ==
    ASSUME Types, NEW p \in Procs,
           Ends(p) \/ SetConfig(p) \/ Undo(p) \/ (WriteEvents(p) /\ job[p].kind # "merge")
    PROVE  pc'[p] = "idle" /\ job'[p] = NoJob
<1>1. CASE Ends(p)
  BY <1>1, EndEffect DEF Finish, Types
<1>2. CASE SetConfig(p)
  BY <1>2 DEF SetConfig, Finish, Types
<1>3. CASE Undo(p)
  BY <1>3 DEF Undo, Finish, Wrote, Types
<1>4. CASE WriteEvents(p) /\ job[p].kind # "merge"
  BY <1>4 DEF WriteEvents, Finish, Wrote, Types
<1>5. QED
  BY <1>1, <1>2, <1>3, <1>4

LEMMA CoursesStep ==
    ASSUME Types, Courses, [Next]_vars
    PROVE  Courses'
<1> USE ConfigAssumption
<1>1. CASE UNCHANGED <<pc, job>>
  BY <1>1 DEF Courses, Course
<1>2. ASSUME NEW p \in Procs, Step(p) \/ Kill(p)
      PROVE  Courses'
  <2>1. ASSUME NEW q \in Procs \ {p}
        PROVE  Course(q)'
    <3>1. Keeps(q) /\ Course(q)
      BY <1>2, <2>1, OthersStep DEF Courses
    <3>2. QED
      BY <1>2, <3>1 DEF Keeps, Kept, Course
  <2>2. Course(p)'
    <3>1. CASE Starts(p)
      BY <3>1, Begun DEF Course
    <3>2. CASE pc'[p] = "idle" /\ job'[p] = NoJob
      BY <3>2 DEF Course
    <3>3. CASE Reads(p)
      <4>1. pc'[p] # "idle"
        BY <3>3 DEF Reads, Acquire, MergeRead, MergeNext, LoadRelease, LoadEntries,
                    ReleaseConflict, ResolveLog, LoadEvents, Types
      <4>2. job'[p].kind = job[p].kind /\ job'[p].into = job[p].into
        BY <3>3, <4>1, OwnKept
      <4>3. QED
        BY <3>3, <4>2 DEF Courses, Course, Types, Reads, Acquire, MergeRead, MergeNext,
              LoadRelease, LoadEntries, ReleaseConflict, ResolveLog, LoadEvents
    <3>4. CASE Copies(p)
      <4>1. pc[p] \in {"mkdir", "copy"} /\ pc'[p] \in {"copy", "config"}
        BY <3>4 DEF Copies, MakeTree, CopyPart, Types
      <4>2. job'[p].kind = job[p].kind /\ job'[p].into = job[p].into
        BY <3>4, <4>1, OwnKept
      <4>3. QED
        BY <4>1, <4>2 DEF Courses, Course
    <3>5. CASE SaveEntry(p) \/ SaveRelease(p) \/ PersistRelease(p)
      <4>1. pc[p] \in {"entry", "count", "create"} /\ pc'[p] \in {"count", "open"}
        BY <3>5 DEF SaveEntry, SaveRelease, PersistRelease, Types
      <4>2. job'[p].kind = job[p].kind /\ job'[p].into = job[p].into
        BY <3>5, <4>1, OwnKept DEF Saves
      <4>3. QED
        BY <4>1, <4>2 DEF Courses, Course
    <3>6. CASE WriteEvents(p) /\ job[p].kind = "merge"
      <4>1. pc[p] = "append" /\ pc'[p] = "next"
        BY <3>6 DEF WriteEvents, Types
      <4>2. job'[p].kind = job[p].kind /\ job'[p].into = job[p].into
        BY <3>6, <4>1, OwnKept
      <4>3. QED
        BY <3>6, <4>1, <4>2 DEF Courses, Course
    <3>7. QED
      BY <1>2, <3>1, <3>2, <3>3, <3>4, <3>5, <3>6, Over, StepKinds DEF Saves
  <2>3. QED
    BY <2>1, <2>2 DEF Courses
<1>3. QED
  BY <1>1, <1>2 DEF Next, Rest, Checkout, EditConfig, vars


\* A step writes one ledger: the one it was told, or the one that is resolved.
LEMMA Written ==
    ASSUME Types, Courses, NEW p \in Procs, Step(p) \/ Kill(p)
    PROVE  /\ ledger' \in [Refs -> Ledgers]
           /\ \A r \in Refs : ledger[r].there => ledger'[r].there
           /\ \A r \in Refs : ledger'[r] # ledger[r] =>
                 \/ (MakeTree(p) \/ CopyPart(p)) /\ r = job[p].into
                 \/ Saves(p) /\ r = Where(p)
                 \/ WriteEvents(p) /\ r = job[p].to
<1>1. job[p] \in Jobs /\ Where(p) \in Refs /\ \A r \in Refs : ledger[r] \in Ledgers
  BY WhereType DEF Types
<1>2. CASE ledger' = ledger
  BY <1>2 DEF Types
<1>3. ASSUME NEW r \in Refs, NEW new \in Ledgers, ledger' = [ledger EXCEPT ![r] = new],
             new.there = ledger[r].there \/ new.there
      PROVE  /\ ledger' \in [Refs -> Ledgers]
             /\ \A s \in Refs : ledger[s].there => ledger'[s].there
             /\ \A s \in Refs : ledger'[s] # ledger[s] => s = r
  BY <1>3, LedgerWritten
<1>4. CASE Copies(p)
  <2>1. job[p].into \in Refs
    BY <1>1, <1>4, ConfigAssumption DEF Courses, Course, Copies, MakeTree, CopyPart, Jobs
  <2>2. CASE MakeTree(p)
    <3>1. [ledger[job[p].into] EXCEPT !.there = TRUE].there
      BY <1>1, <2>1 DEF Ledgers
    <3>2. QED
      BY <1>3, <2>1, <2>2, <3>1, MakeTreeEffect
  <2>3. CASE CopyPart(p)
    <3>1. PICK part \in Parts :
              /\ job[p].from \in Refs
              /\ ledger' = [ledger EXCEPT ![job[p].into] =
                               Copied(part, ledger[job[p].from], ledger[job[p].into])]
      BY <2>3, CopyEffect
    <3>2. /\ Copied(part, ledger[job[p].from], ledger[job[p].into]) \in Ledgers
          /\ Copied(part, ledger[job[p].from], ledger[job[p].into]).there = ledger[job[p].into].there
      BY <1>1, <2>1, <3>1, CopiedType
    <3>3. QED
      BY <1>3, <2>1, <2>3, <3>1, <3>2
  <2>4. QED
    BY <1>4, <2>2, <2>3 DEF Copies
<1>5. CASE Saves(p)
  <2>1. PICK new \in Ledgers : /\ ledger' = [ledger EXCEPT ![Where(p)] = new]
                               /\ new.there = ledger[Where(p)].there
    <3>1. CASE SaveEntry(p)
      <4> DEFINE files == [ledger[Where(p)].entries EXCEPT ![job[p].id] = job[p].refs]
      <4>1. /\ ledger' = [ledger EXCEPT ![Where(p)] = [ledger[Where(p)] EXCEPT !.entries = files]]
            /\ [ledger[Where(p)] EXCEPT !.entries = files] \in Ledgers
        BY <3>1, SaveEntryEffect
      <4> HIDE DEF files
      <4>2. [ledger[Where(p)] EXCEPT !.entries = files].there = ledger[Where(p)].there
        BY <1>1 DEF Ledgers
      <4>3. QED
        BY <4>1, <4>2
    <3>2. CASE Undo(p)
      <4> DEFINE files == [ledger[Where(p)].entries EXCEPT ![job[p].id] = NoEntry]
      <4>1. /\ ledger' = [ledger EXCEPT ![Where(p)] = [ledger[Where(p)] EXCEPT !.entries = files]]
            /\ [ledger[Where(p)] EXCEPT !.entries = files] \in Ledgers
        BY <3>2, UndoEffect
      <4> HIDE DEF files
      <4>2. [ledger[Where(p)] EXCEPT !.entries = files].there = ledger[Where(p)].there
        BY <1>1 DEF Ledgers
      <4>3. QED
        BY <4>1, <4>2
    <3>3. CASE SaveRelease(p) \/ PersistRelease(p)
      <4>1. PICK new \in Releases :
                /\ ledger' = [ledger EXCEPT ![Where(p)] = [ledger[Where(p)] EXCEPT !.release = new]]
                /\ [ledger[Where(p)] EXCEPT !.release = new] \in Ledgers
        BY <3>3, ReleaseEffect
      <4>2. [ledger[Where(p)] EXCEPT !.release = new].there = ledger[Where(p)].there
        BY <1>1 DEF Ledgers
      <4>3. QED
        BY <4>1, <4>2
    <3>4. QED
      BY <1>5, <3>1, <3>2, <3>3 DEF Saves
  <2>2. QED
    BY <1>1, <1>3, <1>5, <2>1
<1>6. CASE WriteEvents(p)
  <2> DEFINE log == Append(job[p].rows, <<job[p].run, job[p].id>>)
             r == job[p].to
  <2>1. /\ r \in Refs
        /\ ledger' = [ledger EXCEPT ![r] = [ledger[r] EXCEPT !.log = log]]
        /\ [ledger[r] EXCEPT !.log = log] \in Ledgers
    BY <1>6, WriteEventsEffect
  <2> HIDE DEF log
  <2>2. [ledger[r] EXCEPT !.log = log].there = ledger[r].there
    BY <1>1, <2>1 DEF Ledgers
  <2>3. QED
    BY <1>3, <1>6, <2>1, <2>2
<1>7. CASE Starts(p) \/ Reads(p) \/ Ends(p) \/ SetConfig(p)
  BY <1>2, <1>7, Begun, ReadEffect, EndEffect DEF SetConfig
<1>8. QED
  BY <1>4, <1>5, <1>6, <1>7, StepKinds

LEMMA TypesStep ==
    ASSUME Types, Courses, [Next]_vars
    PROVE  Types'
<1>1. CASE UNCHANGED vars
  BY <1>1 DEF vars, Types
<1>2. CASE Checkout
  BY <1>2 DEF Checkout, Types
<1>3. CASE EditConfig
  BY <1>3 DEF EditConfig, Types
<1>4. ASSUME NEW p \in Procs, Step(p) \/ Kill(p)
      PROVE  Types'
  <2>1. CASE Starts(p)
    BY <2>1, StartTypes DEF Starts
  <2>2. CASE Reads(p)
    BY <2>2, ReadTypes DEF Reads
  <2>3. CASE Ends(p)
    <3>1. pc' \in [Procs -> Positions] /\ lock' \in Procs \cup {NoProc}
      BY <2>3, EndEffect, FinishTypes
    <3>2. job' \in [Procs -> Jobs]
      BY <2>3, EndEffect, NoJobType, OwnJobType
    <3>3. crashes' \in 0..MaxCrashes
      BY <2>3, EndEffect, BranchAssumption DEF Types
    <3>4. QED
      BY <2>3, <3>1, <3>2, <3>3, EndEffect DEF Types
  <2>4. ASSUME ~Starts(p), ~Reads(p), ~Ends(p), ~SetConfig(p)
        PROVE  Types'
    <3>1. ledger' \in [Refs -> Ledgers]
      BY <1>4, Written
    <3>2. Copies(p) \/ Saves(p) \/ WriteEvents(p)
      BY <1>4, <2>4, StepKinds
    <3>3. UNCHANGED <<active, branch, runs, crashes>>
      BY <3>2 DEF Copies, Saves, MakeTree, CopyPart, SaveEntry, SaveRelease, PersistRelease,
                  Undo, WriteEvents
    <3>4. pc' \in [Procs -> Positions] /\ lock' \in Procs \cup {NoProc}
      BY <3>2, FinishTypes DEF Copies, Saves, MakeTree, CopyPart, SaveEntry, SaveRelease,
                  PersistRelease, Undo, WriteEvents, Types, Positions
    <3>5. job' \in [Procs -> Jobs]
      <4>1. job[p] \in Jobs
        BY DEF Types
      <4>2. CASE CopyPart(p)
        <5>1. PICK part \in Parts :
                  /\ job' = Wrote(p, [job[p] EXCEPT !.base = job[p].base \cup {part}])
                  /\ [job[p] EXCEPT !.base = job[p].base \cup {part}] \in Jobs
          BY <4>2, CopyEffect
        <5>2. QED
          BY <5>1, WroteType
      <4>3. CASE ~CopyPart(p)
        BY <3>2, <4>1, <4>3, NoJobType, WroteType DEF Copies, Saves, MakeTree, SaveEntry,
              SaveRelease, PersistRelease, Undo, WriteEvents
      <4>4. QED
        BY <4>2, <4>3
    <3>6. loose' \subseteq Refs
      <4>1. job[p] \in Jobs /\ Where(p) \in Refs
        BY WhereType DEF Types
      <4>2. CASE CopyPart(p)
        <5>1. loose' = loose \/ loose' = loose \cup {job[p].into}
          BY <4>2, CopyEffect
        <5>2. job[p].into \in Refs
          BY <4>1, <4>2, ConfigAssumption DEF Courses, Course, CopyPart, Jobs
        <5>3. QED
          BY <5>1, <5>2 DEF Types
      <4>3. CASE ~CopyPart(p)
        BY <3>2, <4>1, <4>3 DEF Copies, Saves, MakeTree, SaveEntry, SaveRelease,
              PersistRelease, Undo, WriteEvents, Types
      <4>4. QED
        BY <4>2, <4>3
    <3>7. QED
      BY <3>1, <3>3, <3>4, <3>5, <3>6 DEF Types
  <2>5. CASE SetConfig(p)
    <3>1. pc' \in [Procs -> Positions] /\ lock' \in Procs \cup {NoProc}
      BY <2>5, FinishTypes DEF SetConfig
    <3>2. job[p].into \in Refs
      BY <2>5, ConfigAssumption DEF Courses, Course, SetConfig, Types, Jobs
    <3>3. job' \in [Procs -> Jobs]
      BY <2>5, SetConfigJobs
    <3>4. QED
      BY <2>5, <3>1, <3>2, <3>3 DEF SetConfig, Types
  <2>6. QED
    BY <2>1, <2>2, <2>3, <2>4, <2>5
<1>5. QED
  BY <1>1, <1>2, <1>3, <1>4 DEF Next, Rest


-----------------------------------------------------------------------------
(* The ledgers there are.                                                    *)

\* The active ledger is there, as is the one a command works on; a ledger that
\* is not there has no files.
Places ==
    /\ ledger[active].there
    /\ \A r \in Refs : ~ledger[r].there => ledger[r] = NoLedger
    /\ \A p \in Procs : pc[p] \notin {"idle", "mkdir"} /\ job[p].into # Config =>
                            ledger[job[p].into].there
    /\ \A p \in Procs : pc[p] \in {"events", "append"} => ledger[job[p].to].there

\* Only a command that got the lock holds it.
LockHeld == lock # NoProc => pc[lock] \notin {"idle", "acquire"}

LEMMA InitPlaces == Init => Courses /\ Places /\ LockHeld
<1> SUFFICES ASSUME Init PROVE Courses /\ Places /\ LockHeld
  OBVIOUS
<1>1. /\ active = Main /\ lock = NoProc /\ Main \in Refs
      /\ \A p \in Procs : pc[p] = "idle"
  BY BranchAssumption DEF Init
<1>2. \A r \in Refs : (r = Main /\ ledger[r].there) \/ ledger[r] = NoLedger
  BY DEF Init
<1>3. ledger[Main].there
  BY <1>1 DEF Init
<1>4. QED
  BY <1>1, <1>2, <1>3 DEF Courses, Course, Places, LockHeld

\* The ledger that is resolved is there once a command has begun.
LEMMA WhereIsThere ==
    ASSUME Types, Places, NEW p \in Procs, pc[p] \notin {"idle", "mkdir"}
    PROVE  ledger[Where(p)].there
BY DEF Places, Where

LEMMA PlacesStep ==
    ASSUME Types, Courses, Places, [Next]_vars
    PROVE  Places'
<1>1. CASE UNCHANGED <<ledger, active, pc, job>>
  BY <1>1 DEF Places
<1>2. CASE EditConfig
  BY <1>2 DEF EditConfig, Places
<1>3. ASSUME NEW p \in Procs, Step(p) \/ Kill(p)
      PROVE  Places'
  <2>1. \A r \in Refs : ledger[r].there => ledger'[r].there
    BY <1>3, Written
  <2>2. \A q \in Procs : job[q] \in Jobs
    BY DEF Types
  <2>3. ASSUME NEW r \in Refs, ~ledger'[r].there
        PROVE  ledger'[r] = NoLedger
    <3>1. ~ledger[r].there /\ ledger[r] = NoLedger
      BY <2>1, <2>3 DEF Places
    <3>2. ~(Saves(p) /\ r = Where(p))
      BY <3>1, WhereIsThere DEF Saves, SaveEntry, SaveRelease, PersistRelease, Undo
    <3>3. ~(WriteEvents(p) /\ r = job[p].to)
      BY <3>1 DEF WriteEvents, Places
    <3>4. ~(CopyPart(p) /\ r = job[p].into)
      BY <3>1, ConfigAssumption DEF CopyPart, Places
    <3>5. ~(MakeTree(p) /\ r = job[p].into)
      BY <2>3, MakeTreeEffect DEF Types, Ledgers
    <3>6. QED
      BY <1>3, <3>1, <3>2, <3>3, <3>4, <3>5, Written
  <2>4. ledger'[active'].there
    <3>1. CASE SetConfig(p)
      BY <3>1, ConfigAssumption, <2>2 DEF SetConfig, Places, Courses, Course, Jobs
    <3>2. CASE ~SetConfig(p)
      <4>1. active' = active
        BY <1>3, <3>2, StepKinds, Begun, ReadEffect, EndEffect DEF Copies, Saves, MakeTree,
           CopyPart, SaveEntry, SaveRelease, PersistRelease, Undo, WriteEvents
      <4>2. QED
        BY <2>1, <4>1 DEF Places, Types
    <3>3. QED
      BY <3>1, <3>2
  <2>5. ASSUME NEW q \in Procs \ {p}
        PROVE  /\ pc'[q] \notin {"idle", "mkdir"} /\ job'[q].into # Config =>
                      ledger'[job'[q].into].there
               /\ pc'[q] \in {"events", "append"} => ledger'[job'[q].to].there
    BY <1>3, <2>1, <2>2, <2>5, OthersStep DEF Keeps, Kept, Places, Jobs
  <2>6. pc'[p] \notin {"idle", "mkdir"} /\ job'[p].into # Config => ledger'[job'[p].into].there
    <3>1. CASE Starts(p)
      BY <2>1, <3>1, Begun
    <3>2. CASE MakeTree(p)
      <4>1. job[p].into \in Refs /\ job'[p].into = job[p].into
        BY <2>2, <3>2, OwnKept, ConfigAssumption DEF Courses, Course, MakeTree, Copies, Jobs, Types
      <4>2. QED
        BY <3>2, <4>1, MakeTreeEffect DEF Types, Ledgers
    <3>3. ASSUME Reads(p) \/ CopyPart(p) \/ Saves(p) \/ WriteEvents(p), pc'[p] # "idle",
                 job'[p].into # Config
          PROVE  ledger'[job'[p].into].there
      <4>1. job'[p].into = job[p].into
        BY <3>3, OwnKept DEF Copies
      <4>2. pc[p] \notin {"idle", "mkdir"}
        BY <3>3 DEF Reads, Acquire, MergeRead, MergeNext, LoadRelease, LoadEntries,
               ReleaseConflict, ResolveLog, LoadEvents, CopyPart, Saves, SaveEntry, SaveRelease,
               PersistRelease, Undo, WriteEvents
      <4>3. QED
        BY <2>1, <2>2, <3>3, <4>1, <4>2 DEF Places, Jobs
    <3>4. QED
      BY <1>3, <3>1, <3>2, <3>3, Over, StepKinds DEF Copies
  <2>7. pc'[p] \in {"events", "append"} => ledger'[job'[p].to].there
    <3>1. CASE ResolveLog(p)
      <4>1. job'[p].to = Where(p) /\ Where(p) \in Refs /\ pc[p] = "open"
        BY <2>2, <3>1, WhereType DEF ResolveLog, Types, Jobs
      <4>2. QED
        BY <2>1, <4>1, WhereIsThere
    <3>2. CASE LoadEvents(p)
      <4>1. job'[p].to = job[p].to /\ pc[p] = "events"
        BY <2>2, <3>2 DEF LoadEvents, Types, Jobs
      <4>2. QED
        BY <2>1, <2>2, <4>1 DEF Places, Jobs
    <3>3. CASE ~ResolveLog(p) /\ ~LoadEvents(p)
      <4>1. pc'[p] \notin {"events", "append"}
        <5>1. CASE Starts(p)
          BY <5>1, Begun
        <5>2. CASE Reads(p)
          BY <3>3, <5>2 DEF Reads, Acquire, MergeRead, MergeNext, LoadRelease, LoadEntries,
               ReleaseConflict, Types
        <5>3. CASE Copies(p) \/ Saves(p) \/ WriteEvents(p)
          BY <5>3 DEF Copies, MakeTree, CopyPart, Saves, SaveEntry, SaveRelease,
               PersistRelease, Undo, WriteEvents, Finish, Types
        <5>4. QED
          BY <1>3, <5>1, <5>2, <5>3, Over, StepKinds
      <4>2. QED
        BY <4>1
    <3>4. QED
      BY <3>1, <3>2, <3>3
  <2>8. QED
    BY <2>3, <2>4, <2>5, <2>6, <2>7 DEF Places
<1>4. QED
  BY <1>1, <1>2, <1>3 DEF Next, Rest, Checkout, vars

LEMMA LockHeldStep ==
    ASSUME Types, LockHeld, [Next]_vars
    PROVE  LockHeld'
<1>1. CASE UNCHANGED <<lock, pc>>
  BY <1>1 DEF LockHeld
<1>2. ASSUME NEW p \in Procs, Step(p) \/ Kill(p)
      PROVE  LockHeld'
  <2>1. NoProc \notin Procs
    BY BranchAssumption
  <2>2. \A q \in Procs \ {p} : pc'[q] = pc[q]
    BY <1>2, OthersStep DEF Keeps
  <2>3. CASE Finish(p)
    BY <2>1, <2>2, <2>3 DEF Finish, LockHeld, Types
  <2>4. CASE Starts(p)
    BY <2>1, <2>2, <2>4, Begun DEF LockHeld, Types
  <2>5. CASE Acquire(p)
    BY <2>1, <2>5 DEF Acquire, LockHeld, Types
  <2>6. CASE lock' = lock /\ pc'[p] \notin {"idle", "acquire"}
    BY <2>2, <2>6 DEF LockHeld, Types
  <2>7. CASE ~Finish(p) /\ ~Starts(p) /\ ~Acquire(p)
    <3>1. Reads(p) \/ Copies(p) \/ SaveEntry(p) \/ SaveRelease(p) \/ PersistRelease(p)
             \/ WriteEvents(p)
      BY <1>2, <2>7, StepKinds, EndEffect DEF Saves, SetConfig, Undo
    <3>2. QED
      BY <2>6, <2>7, <3>1 DEF Reads, MergeRead, MergeNext, LoadRelease, LoadEntries,
           ReleaseConflict, ResolveLog, LoadEvents, Copies, MakeTree, CopyPart, SaveEntry,
           SaveRelease, PersistRelease, WriteEvents, Types
  <2>8. QED
    BY <2>3, <2>4, <2>5, <2>7
<1>3. QED
  BY <1>1, <1>2 DEF Next, Rest, Checkout, EditConfig, vars


Base == Types /\ Courses /\ Places /\ LockHeld

LEMMA BaseStep == ASSUME Base, [Next]_vars PROVE Base'
BY TypesStep, CoursesStep, PlacesStep, LockHeldStep DEF Base

LEMMA BaseAlways == Spec => []Base
<1>1. Init => Base
  BY InitTypes, InitPlaces DEF Base
<1>2. Base /\ [Next]_vars => Base'
  BY BaseStep
<1>3. QED
  BY <1>1, <1>2, PTL DEF Spec

\* Every variable keeps its type, the lock is held by a command in the middle of
\* its work, and the active ledger exists.
THEOREM LedgersTyped == Spec => []TypeOK
<1>1. Base => TypeOK
  BY DEF Base, Types, Places, LockHeld, TypeOK, Ledgers, Releases
<1>2. QED
  BY <1>1, BaseAlways, PTL

-----------------------------------------------------------------------------
(* Where a command writes.                                                   *)

\* With the guard on, the active ledger is that of the branch the command began
\* on until the config is switched.
Guarded ==
    \A p \in Procs :
        pc[p] # "idle" /\ job[p].into = Config /\ ~job[p].switched /\ Guard = "on" =>
            active = job[p].checked

\* append_event writes the log it resolved.
Resolved ==
    \A p \in Procs : pc[p] \in {"events", "append"} =>
        IF job[p].into = Config THEN job[p].switched \/ job[p].to = active
                                ELSE job[p].to = job[p].into

LEMMA ActiveChanges ==
    ASSUME Types, NEW p \in Procs, Step(p) \/ Kill(p), ~SetConfig(p)
    PROVE  active' = active
BY StepKinds, Begun, ReadEffect, EndEffect DEF Copies, Saves, MakeTree, CopyPart, SaveEntry,
   SaveRelease, PersistRelease, Undo, WriteEvents

LEMMA GuardedStep ==
    ASSUME Base, Guarded, Resolved, [Next]_vars
    PROVE  Guarded' /\ Resolved'
<1>1. CASE UNCHANGED <<active, pc, job>>
  BY <1>1 DEF Guarded, Resolved
<1>2. CASE EditConfig
  BY <1>2 DEF EditConfig, Guarded, Resolved
<1>3. ASSUME NEW p \in Procs, Step(p) \/ Kill(p)
      PROVE  Guarded' /\ Resolved'
  <2>1. Types /\ job[p] \in Jobs /\ pc \in [Procs -> Positions]
    BY DEF Base, Types
  <2>2. ASSUME NEW q \in Procs \ {p}, pc'[q] # "idle"
        PROVE  /\ job'[q].into = Config /\ ~job'[q].switched /\ Guard = "on" =>
                      active' = job'[q].checked
               /\ pc'[q] \in {"events", "append"} =>
                      IF job'[q].into = Config THEN job'[q].switched \/ job'[q].to = active'
                                               ELSE job'[q].to = job'[q].into
    <3>1. Keeps(q)
      BY <1>3, <2>1, OthersStep
    <3>2. QED
      BY <2>2, <3>1 DEF Keeps, Kept, Guarded, Resolved
  <2>3. ASSUME pc'[p] # "idle"
        PROVE  /\ job'[p].into = Config /\ ~job'[p].switched /\ Guard = "on" =>
                      active' = job'[p].checked
               /\ pc'[p] \in {"events", "append"} =>
                      IF job'[p].into = Config THEN job'[p].switched \/ job'[p].to = active'
                                               ELSE job'[p].to = job'[p].into
    <3>1. CASE Starts(p)
      BY <2>1, <3>1, Begun, ConfigAssumption DEF GuardPasses
    <3>2. CASE ~Starts(p)
      <4>1. Reads(p) \/ Copies(p) \/ Saves(p) \/ WriteEvents(p)
        BY <1>3, <2>1, <2>3, <3>2, StepKinds, Over
      <4>2. /\ job'[p].into = job[p].into /\ job'[p].checked = job[p].checked
            /\ job'[p].switched = job[p].switched
        BY <2>1, <2>3, <4>1, OwnKept
      <4>3. active' = active /\ pc[p] # "idle"
        BY <1>3, <2>1, <2>3, <4>1, ActiveChanges, Over DEF Reads, Acquire, MergeRead, MergeNext,
           LoadRelease, LoadEntries, ReleaseConflict, ResolveLog, LoadEvents, Copies, MakeTree,
           CopyPart, Saves, SaveEntry, SaveRelease, PersistRelease, Undo, WriteEvents
      <4>4. CASE pc'[p] \notin {"events", "append"}
        BY <4>2, <4>3, <4>4 DEF Guarded
      <4>5. CASE ResolveLog(p)
        <5>1. job'[p].to = Where(p)
          BY <2>1, <4>5 DEF ResolveLog, Types
        <5>2. QED
          BY <4>2, <4>3, <5>1 DEF Guarded, Where
      <4>6. CASE LoadEvents(p)
        <5>1. job'[p].to = job[p].to /\ pc[p] = "events"
          BY <2>1, <4>6 DEF LoadEvents, Types, Jobs
        <5>2. QED
          BY <4>2, <4>3, <5>1 DEF Guarded, Resolved
      <4>7. ~ResolveLog(p) /\ ~LoadEvents(p) => pc'[p] \notin {"events", "append"}
        BY <2>1, <4>1 DEF Reads, Acquire, MergeRead, MergeNext, LoadRelease, LoadEntries,
               ReleaseConflict, Copies, MakeTree, CopyPart, Saves, SaveEntry, SaveRelease,
               PersistRelease, Undo, WriteEvents, Finish
      <4>8. QED
        BY <4>4, <4>5, <4>6, <4>7
    <3>3. QED
      BY <3>1, <3>2
  <2>4. QED
    BY <2>2, <2>3 DEF Guarded, Resolved
<1>4. QED
  BY <1>1, <1>2, <1>3 DEF Next, Rest, Checkout, vars

LEMMA GuardedAlways == Spec => [](Base /\ Guarded /\ Resolved)
<1>1. Init => Guarded /\ Resolved
  BY DEF Init, Guarded, Resolved
<1>2. Base /\ Guarded /\ Resolved /\ [Next]_vars => Guarded' /\ Resolved'
  BY GuardedStep
<1>3. QED
  BY <1>1, <1>2, BaseAlways, PTL DEF Spec

\* With the guard on, a command writes the ledger of the branch it began on and
\* a merge the ledger it was told, unless a branch start switched the config
\* meanwhile, however many commands run at once.
THEOREM WritesStay == Spec => WritesStayInLedger
<1>1. ASSUME Base, Guarded, Resolved, [Next]_vars, NEW p \in Procs, NEW r \in Refs
      PROVE  WriteStays(p, r)
  <2> SUFFICES ASSUME pc'[p] # pc[p], ledger'[r] # ledger[r]
               PROVE  \/ r = job[p].into
                      \/ /\ job[p].into = Config
                         /\ job[p].switched \/ (Guard = "on" => r = job[p].checked)
    BY DEF WriteStays
  <2>1. PICK q \in Procs : Step(q) \/ Kill(q)
    BY <1>1 DEF Next, Rest, Checkout, EditConfig, vars
  <2>2. q = p
    BY <1>1, <2>1, OthersStep DEF Keeps, Base
  <2>3. pc[p] # "idle"
    BY <1>1, <2>1, <2>2, Begun, StepKinds DEF Base, Reads, Acquire, MergeRead, MergeNext, LoadRelease,
       LoadEntries, ReleaseConflict, ResolveLog, LoadEvents, Copies, MakeTree, CopyPart, Saves,
       SaveEntry, SaveRelease, PersistRelease, Undo, WriteEvents, SetConfig, Ends, LockTimeout,
       TreeExists, MergeDone, NoSuchRelease, Refused, EntryConflict, ReleaseExists, Kill
  <2>4. \/ r = job[p].into
        \/ Saves(p) /\ r = Where(p)
        \/ WriteEvents(p) /\ r = job[p].to
    BY <1>1, <2>1, <2>2, Written DEF Base
  <2>5. QED
    BY <1>1, <2>3, <2>4 DEF Where, WriteEvents, Guarded, Resolved
<1>2. Base /\ Guarded /\ Resolved /\ [Next]_vars =>
          [\A p \in Procs, r \in Refs : WriteStays(p, r)]_vars
  BY <1>1
<1>3. QED
  BY <1>2, GuardedAlways, PTL DEF Spec, WritesStayInLedger


-----------------------------------------------------------------------------
(* What a log loses.                                                         *)

\* Between the load of the log and its write nothing has been written, unless
\* the command knows of it.
LogIsRead ==
    \A p \in Procs : pc[p] = "append" /\ ~job[p].overlapped /\ ~job[p].switched =>
        job[p].rows = ledger[active].log

\* A new ledger has no log and no entries until they are copied.
TreeIsNew ==
    \A p \in Procs : pc[p] = "copy" /\ ~job[p].overlapped =>
        /\ "log" \in job[p].base \/ ledger[job[p].into].log = <<>>
        /\ "entries" \in job[p].base \/ ledger[job[p].into].entries = NoFiles

LEMMA EventsAppend ==
    ASSUME NEW log \in Logs, NEW row \in Nat \X (0..MaxId)
    PROVE  Events(log) \subseteq Events(Append(log, row))
<1>1. \A i \in 1..Len(log) : i \in 1..Len(Append(log, row)) /\ Append(log, row)[i] = log[i]
  BY DEF Logs
<1>2. QED
  BY <1>1 DEF Events

LEMMA LogsStep ==
    ASSUME Base, LogIsRead, TreeIsNew, [Next]_vars
    PROVE  LogIsRead' /\ TreeIsNew'
<1>1. CASE UNCHANGED <<ledger, active, pc, job>>
  BY <1>1 DEF LogIsRead, TreeIsNew
<1>2. CASE EditConfig
  BY <1>2 DEF EditConfig, LogIsRead, TreeIsNew
<1>3. ASSUME NEW p \in Procs, Step(p) \/ Kill(p)
      PROVE  LogIsRead' /\ TreeIsNew'
  <2>1. Types /\ Courses /\ Places /\ job[p] \in Jobs /\ pc \in [Procs -> Positions]
    BY DEF Base, Types
  <2>2. ASSUME NEW q \in Procs \ {p}
        PROVE  /\ pc'[q] = "append" /\ ~job'[q].overlapped /\ ~job'[q].switched =>
                      job'[q].rows = ledger'[active'].log
               /\ pc'[q] = "copy" /\ ~job'[q].overlapped =>
                      /\ "log" \in job'[q].base \/ ledger'[job'[q].into].log = <<>>
                      /\ "entries" \in job'[q].base \/ ledger'[job'[q].into].entries = NoFiles
    <3>1. Keeps(q)
      BY <1>3, <2>1, OthersStep
    <3>2. QED
      BY <3>1 DEF Keeps, Kept, LogIsRead, TreeIsNew
  <2>3. pc'[p] = "append" => LoadEvents(p)
    BY <1>3, <2>1, StepKinds, Begun, Over DEF Reads, Acquire, MergeRead, MergeNext, LoadRelease,
       LoadEntries, ReleaseConflict, ResolveLog, Copies, MakeTree, CopyPart, Saves, SaveEntry,
       SaveRelease, PersistRelease, Undo, WriteEvents
  <2>4. pc'[p] = "copy" => MakeTree(p) \/ CopyPart(p)
    BY <1>3, <2>1, StepKinds, Begun, Over DEF Reads, Acquire, MergeRead, MergeNext, LoadRelease,
       LoadEntries, ReleaseConflict, ResolveLog, LoadEvents, Copies, Saves, SaveEntry,
       SaveRelease, PersistRelease, Undo, WriteEvents
  <2>5. LoadEvents(p) => job'[p].rows = ledger'[active'].log
    BY <2>1 DEF LoadEvents, LogRead, Types, Jobs
  <2>6. ASSUME pc'[p] = "copy", ~job'[p].overlapped
        PROVE  /\ "log" \in job'[p].base \/ ledger'[job'[p].into].log = <<>>
               /\ "entries" \in job'[p].base \/ ledger'[job'[p].into].entries = NoFiles
    <3>1. /\ job'[p].into = job[p].into /\ job'[p].overlapped = job[p].overlapped
          /\ job[p].into \in Refs
      BY <2>1, <2>4, <2>6, OwnKept, ConfigAssumption DEF Copies, Courses, Course, MakeTree,
         CopyPart, Jobs
    <3>2. CASE MakeTree(p)
      <4>1. ledger[job[p].into] = NoLedger
        BY <2>1, <3>1, <3>2 DEF MakeTree, Places
      <4>2. ledger'[job[p].into] = [NoLedger EXCEPT !.there = TRUE]
        BY <2>1, <3>1, <3>2, <4>1, MakeTreeEffect DEF Types
      <4>3. QED
        BY <3>1, <4>2 DEF NoLedger
    <3>3. CASE CopyPart(p)
      <4>1. PICK part \in Parts :
                /\ job[p].from \in Refs
                /\ ledger' = [ledger EXCEPT ![job[p].into] =
                                 Copied(part, ledger[job[p].from], ledger[job[p].into])]
                /\ job' = Wrote(p, [job[p] EXCEPT !.base = job[p].base \cup {part}])
        BY <2>1, <3>3, CopyEffect
      <4>2. job'[p].base = job[p].base \cup {part}
        BY <2>1, <4>1 DEF Wrote, Jobs
      <4>3. /\ part # "log" => ledger'[job[p].into].log = ledger[job[p].into].log
            /\ part # "entries" => ledger'[job[p].into].entries = ledger[job[p].into].entries
        <5>1. ledger[job[p].into] \in Ledgers /\ ledger[job[p].from] \in Ledgers
          BY <2>1, <3>1, <4>1 DEF Types
        <5>2. ledger'[job[p].into] = Copied(part, ledger[job[p].from], ledger[job[p].into])
          BY <2>1, <3>1, <4>1 DEF Types
        <5>3. QED
          BY <5>1, <5>2, CopiedType
      <4>4. pc[p] = "copy"
        BY <3>3 DEF CopyPart
      <4>5. QED
        BY <2>6, <3>1, <4>2, <4>3, <4>4 DEF TreeIsNew
    <3>4. QED
      BY <2>4, <2>6, <3>2, <3>3
  <2>7. QED
    BY <2>2, <2>3, <2>5, <2>6 DEF LogIsRead, TreeIsNew
<1>4. QED
  BY <1>1, <1>2, <1>3 DEF Next, Rest, Checkout, vars

LEMMA LogsAlways == Spec => [](Base /\ Resolved /\ LogIsRead /\ TreeIsNew)
<1>1. Init => LogIsRead /\ TreeIsNew
  BY DEF Init, LogIsRead, TreeIsNew
<1>2. Base /\ LogIsRead /\ TreeIsNew /\ [Next]_vars => LogIsRead' /\ TreeIsNew'
  BY LogsStep
<1>3. QED
  BY <1>1, <1>2, GuardedAlways, PTL DEF Spec

\* An event disappears from a log only when a merge into a ledger that is not
\* active writes over it, or when a command wrote, copied or switched the config
\* between the two steps of another.
THEOREM EventsStayThere == Spec => EventsSurvive
<1>1. ASSUME Base, Resolved, LogIsRead, TreeIsNew, [Next]_vars, NEW r \in Refs
      PROVE  EventsStay(r)
  <2>1. CASE ledger'[r] = ledger[r]
    BY <2>1 DEF EventsStay
  <2>2. CASE ledger'[r] # ledger[r]
    <3>1. PICK p \in Procs : Step(p) \/ Kill(p)
      BY <1>1, <2>2 DEF Next, Rest, Checkout, EditConfig, vars
    <3>2. Types /\ Courses /\ job[p] \in Jobs /\ ledger[r] \in Ledgers
      BY <1>1 DEF Base, Types
    <3>3. ASSUME NEW new \in Ledgers, NEW s \in Refs, ledger' = [ledger EXCEPT ![s] = new],
                 new.log = ledger[s].log
          PROVE  EventsStay(r)
      BY <3>2, <3>3, LedgerWritten DEF EventsStay
    <3>4. CASE MakeTree(p) /\ r = job[p].into
      <4>1. [ledger[r] EXCEPT !.there = TRUE].log = ledger[r].log
        BY <3>2 DEF Ledgers
      <4>2. QED
        BY <3>2, <3>3, <3>4, <4>1, MakeTreeEffect
    <3>5. CASE CopyPart(p) /\ r = job[p].into
      <4>1. PICK part \in Parts \ job[p].base :
                /\ job[p].from \in Refs
                /\ ledger' = [ledger EXCEPT ![r] = Copied(part, ledger[job[p].from], ledger[r])]
        BY <3>2, <3>5, CopyEffect
      <4>2. /\ ledger'[r] = Copied(part, ledger[job[p].from], ledger[r])
            /\ part # "log" => ledger'[r].log = ledger[r].log
        BY <3>2, <4>1, CopiedType DEF Types
      <4>3. CASE part = "log" /\ ~job[p].overlapped
        BY <1>1, <3>5, <4>1, <4>3 DEF CopyPart, TreeIsNew, EventsStay, Events
      <4>4. CASE job[p].overlapped
        BY <3>5, <4>4 DEF CopyPart, EventsStay
      <4>5. CASE part # "log"
        BY <4>2, <4>5 DEF EventsStay
      <4>6. QED
        BY <4>3, <4>4, <4>5
    <3>6. CASE Saves(p) /\ r = Where(p)
      <4>1. CASE SaveEntry(p) \/ Undo(p)
        <5>1. PICK files \in Files :
                  /\ ledger' = [ledger EXCEPT ![r] = [ledger[r] EXCEPT !.entries = files]]
                  /\ [ledger[r] EXCEPT !.entries = files] \in Ledgers
          BY <3>2, <3>6, <4>1, SaveEntryEffect, UndoEffect
        <5>2. [ledger[r] EXCEPT !.entries = files].log = ledger[r].log
          BY <3>2 DEF Ledgers
        <5>3. QED
          BY <3>3, <5>1, <5>2
      <4>2. CASE SaveRelease(p) \/ PersistRelease(p)
        <5>1. PICK new \in Releases :
                  /\ ledger' = [ledger EXCEPT ![r] = [ledger[r] EXCEPT !.release = new]]
                  /\ [ledger[r] EXCEPT !.release = new] \in Ledgers
          BY <3>2, <3>6, <4>2, ReleaseEffect
        <5>2. [ledger[r] EXCEPT !.release = new].log = ledger[r].log
          BY <3>2 DEF Ledgers
        <5>3. QED
          BY <3>3, <5>1, <5>2
      <4>3. QED
        BY <3>6, <4>1, <4>2 DEF Saves
    <3>7. CASE WriteEvents(p) /\ r = job[p].to
      <4>1. pc[p] = "append"
        BY <3>7 DEF WriteEvents
      <4>2. CASE job[p].overlapped \/ job[p].switched \/ (job[p].kind = "merge" /\ r # active)
        BY <3>7, <4>1, <4>2 DEF EventsStay
      <4>3. CASE ~job[p].overlapped /\ ~job[p].switched /\ ~(job[p].kind = "merge" /\ r # active)
        <5> DEFINE row == <<job[p].run, job[p].id>>
        <5>1. job[p].kind = "merge" \/ r = active
          BY <1>1, <3>2, <3>7, <4>1, <4>3 DEF Courses, Course, Resolved, Jobs, Kinds
        <5>2. job[p].rows = ledger[r].log
          BY <1>1, <4>1, <4>3, <5>1 DEF LogIsRead
        <5>3. row \in Nat \X (0..MaxId) /\ ledger[r].log \in Logs
          BY <3>2 DEF Jobs, Ledgers
        <5>4. ledger'[r].log = Append(job[p].rows, row)
          <6>1. ledger' = [ledger EXCEPT ![r].log = Append(job[p].rows, row)]
            BY <3>7 DEF WriteEvents
          <6>2. QED
            BY <3>2, <6>1 DEF Types, Ledgers
        <5> HIDE DEF row
        <5>5. QED
          BY <5>2, <5>3, <5>4, EventsAppend DEF EventsStay
      <4>4. QED
        BY <4>2, <4>3
    <3>8. QED
      BY <2>2, <3>1, <3>2, <3>4, <3>5, <3>6, <3>7, Written
  <2>3. QED
    BY <2>1, <2>2
<1>2. Base /\ Resolved /\ LogIsRead /\ TreeIsNew /\ [Next]_vars => [\A r \in Refs : EventsStay(r)]_vars
  BY <1>1
<1>3. QED
  BY <1>2, LogsAlways, PTL DEF Spec, EventsSurvive


-----------------------------------------------------------------------------
(* The owners of a commit.                                                   *)

\* What a command that is about to save an entry knows: its commits had no
\* owner in the entries it read, its id was the next one, and those are still
\* the entries of the ledger, unless the id has been taken.
Checked(p) ==
    /\ job[p].id = NextId(job[p].entries) /\ job[p].id \in Ids
    /\ ~Duplicate(job[p].refs, job[p].entries)
    /\ \/ job[p].switched \/ Where(p) \in loose
       \/ job[p].id \in Taken(ledger[Where(p)].entries)
       \/ ledger[Where(p)].entries = job[p].entries

SavesAreChecked == \A p \in Procs : pc[p] = "entry" => Checked(p)

\* An entry that owns nothing of what the others own leaves every commit its owner.
LEMMA OnceAdded ==
    ASSUME NEW files \in Files, NEW refs \in SUBSET Commits, NEW id \in Ids,
           Once(files), ~Duplicate(refs, files), id \notin Taken(files)
    PROVE  Once([files EXCEPT ![id] = refs])
<1> DEFINE new == [files EXCEPT ![id] = refs]
<1>1. Taken(new) = Taken(files) \cup {id} /\ \A i \in Ids : new[i] = IF i = id THEN refs ELSE files[i]
  BY FileWritten
<1>2. \A i \in Taken(files) : i \in Ids /\ i # id /\ files[i] \cap refs = {}
  BY TakenFiles DEF Duplicate
<1> HIDE DEF new
<1>3. ASSUME NEW i \in Taken(new), NEW k \in Taken(new), i # k
      PROVE  new[i] \cap new[k] = {}
  <2>1. CASE i = id
    BY <1>1, <1>2, <1>3, <2>1
  <2>2. CASE k = id
    BY <1>1, <1>2, <1>3, <2>2
  <2>3. CASE i # id /\ k # id
    BY <1>1, <1>2, <1>3, <2>3 DEF Once
  <2>4. QED
    BY <2>1, <2>2, <2>3
<1>4. QED
  BY <1>3 DEF Once, new

\* What saving an entry makes of the entries of its ledger.
LEMMA EntrySaved ==
    ASSUME Types, NEW p \in Procs, SaveEntry(p)
    PROVE  LET r == Where(p)
               old == ledger[r].entries
               new == [old EXCEPT ![job[p].id] = job[p].refs] IN
           /\ r \in Refs /\ old \in Files /\ job[p].entries \in Files
           /\ job[p].refs \in SUBSET Commits
           /\ ledger'[r].entries = new
           /\ \A s \in Refs \ {r} : ledger'[s] = ledger[s]
           /\ loose' = IF job[p].switched THEN loose \cup {r} ELSE loose
           /\ job[p].id \in Taken(old) => new = old
<1> DEFINE r == Where(p)
           new == [ledger[r].entries EXCEPT ![job[p].id] = job[p].refs]
<1>1. r \in Refs /\ ledger[r] \in Ledgers /\ job[p] \in Jobs
  BY WhereType DEF Types
<1>2. /\ ledger' = [ledger EXCEPT ![r] = [ledger[r] EXCEPT !.entries = new]]
      /\ [ledger[r] EXCEPT !.entries = new] \in Ledgers
  BY SaveEntryEffect
<1>3. ledger[r].entries \in Files /\ job[p].entries \in Files /\ job[p].refs \in SUBSET Commits
  BY <1>1 DEF Ledgers, Jobs
<1>4. job[p].id \in Taken(ledger[r].entries) => new = ledger[r].entries
  BY <1>3 DEF SaveEntry, EntryFits, Taken, Files
<1>5. loose' = IF job[p].switched THEN loose \cup {r} ELSE loose
  BY DEF SaveEntry
<1> HIDE DEF new
<1>6. ledger'[r].entries = new
  BY <1>1, <1>2, LedgerWritten DEF Ledgers
<1>7. \A s \in Refs \ {r} : ledger'[s] = ledger[s]
  BY <1>1, <1>2 DEF Types
<1>8. QED
  BY <1>1, <1>3, <1>4, <1>5, <1>6, <1>7 DEF new

\* The other steps that change the entries of a ledger.
LEMMA EntriesChange ==
    ASSUME Base, NEW p \in Procs, Step(p) \/ Kill(p), ~SaveEntry(p), NEW r \in Refs,
           ledger'[r].entries # ledger[r].entries
    PROVE  \/ Undo(p) /\ r \in loose'
           \/ CopyPart(p) /\ r = job[p].into
<1>1. Types /\ Courses /\ ledger[r] \in Ledgers
  BY DEF Base, Types
<1>2. ~(MakeTree(p) /\ r = job[p].into)
  <2>1. [ledger[r] EXCEPT !.there = TRUE].entries = ledger[r].entries
    BY <1>1 DEF Ledgers
  <2>2. QED
    BY <1>1, <2>1, MakeTreeEffect DEF Types
<1>3. ~((SaveRelease(p) \/ PersistRelease(p)) /\ r = Where(p))
  <2>1. ASSUME NEW new \in Releases
        PROVE  [ledger[r] EXCEPT !.release = new].entries = ledger[r].entries
    BY <1>1 DEF Ledgers
  <2>2. ASSUME SaveRelease(p) \/ PersistRelease(p), r = Where(p)
        PROVE  FALSE
    <3>1. PICK new \in Releases :
              /\ ledger' = [ledger EXCEPT ![r] = [ledger[r] EXCEPT !.release = new]]
      BY <1>1, <2>2, ReleaseEffect
    <3>2. ledger'[r] = [ledger[r] EXCEPT !.release = new]
      BY <1>1, <3>1 DEF Types
    <3>3. QED
      BY <2>1, <3>2
  <2>3. QED
    BY <2>2
<1>4. ~(WriteEvents(p) /\ r = job[p].to)
  <2>1. ASSUME NEW new \in Logs
        PROVE  [ledger[r] EXCEPT !.log = new].entries = ledger[r].entries
    BY <1>1 DEF Ledgers
  <2>2. ASSUME WriteEvents(p), r = job[p].to
        PROVE  FALSE
    <3>1. PICK new \in Logs : ledger' = [ledger EXCEPT ![r] = [ledger[r] EXCEPT !.log = new]]
      BY <1>1, <2>2, WriteEventsEffect
    <3>2. ledger'[r] = [ledger[r] EXCEPT !.log = new]
      BY <1>1, <3>1 DEF Types
    <3>3. QED
      BY <2>1, <3>2
  <2>3. QED
    BY <2>2
<1>5. Undo(p) /\ r = Where(p) => r \in loose'
  BY DEF Undo
<1>6. QED
  BY <1>1, <1>2, <1>3, <1>4, <1>5, Written DEF Saves

LEMMA LooseGrows ==
    ASSUME Types, NEW p \in Procs, Step(p) \/ Kill(p)
    PROVE  loose \subseteq loose'
<1>1. CASE CopyPart(p)
  BY <1>1, CopyEffect
<1>2. CASE ~CopyPart(p)
  BY <1>2, StepKinds, Begun, ReadEffect, EndEffect DEF Copies, Saves, MakeTree, SaveEntry,
     SaveRelease, PersistRelease, Undo, WriteEvents, SetConfig
<1>3. QED
  BY <1>1, <1>2


LEMMA ChecksStep ==
    ASSUME Base, SavesAreChecked, [Next]_vars
    PROVE  SavesAreChecked'
<1>1. CASE UNCHANGED <<ledger, active, loose, pc, job>>
  BY <1>1 DEF SavesAreChecked, Checked, Where
<1>2. CASE EditConfig
  BY <1>2 DEF EditConfig, SavesAreChecked
<1>3. ASSUME NEW p \in Procs, Step(p) \/ Kill(p)
      PROVE  SavesAreChecked'
  <2>1. Types /\ Courses /\ job \in [Procs -> Jobs] /\ pc \in [Procs -> Positions]
    BY DEF Base, Types
  <2>2. loose \subseteq loose'
    BY <1>3, <2>1, LooseGrows
  <2>3. ASSUME NEW q \in Procs \ {p}, pc'[q] = "entry"
        PROVE  Checked(q)'
    <3>1. Keeps(q) /\ pc[q] = "entry" /\ Checked(q)
      BY <1>3, <2>1, <2>3, OthersStep DEF Keeps, SavesAreChecked
    <3>2. Kept(job[q], job'[q])
      BY <3>1 DEF Keeps
    <3>3. /\ (job[q].id = NextId(job[q].entries))' /\ job'[q].id \in Ids
          /\ (~Duplicate(job[q].refs, job[q].entries))'
      BY <3>1, <3>2 DEF Checked, Kept
    <3>4. \/ job'[q].switched \/ Where(q)' \in loose'
          \/ job'[q].id \in Taken(ledger'[Where(q)'].entries)
          \/ ledger'[Where(q)'].entries = job'[q].entries
      <4> SUFFICES ASSUME ~job'[q].switched, Where(q)' \notin loose',
                          job'[q].id \notin Taken(ledger'[Where(q)'].entries)
                   PROVE  ledger'[Where(q)'].entries = job'[q].entries
        OBVIOUS
      <4> DEFINE r == Where(q)
      <4>1. Where(q)' = r /\ r \in Refs /\ ~job[q].switched /\ job'[q].id = job[q].id
              /\ job'[q].entries = job[q].entries
        BY <2>1, <3>1, <3>2, WhereType DEF Keeps, Kept, Where
      <4> HIDE DEF r
      <4>2. r \notin loose
        BY <2>2, <4>1
      <4>3. CASE ledger'[r].entries = ledger[r].entries
        BY <3>1, <4>1, <4>2, <4>3 DEF Checked, r
      <4>4. CASE ledger'[r].entries # ledger[r].entries
        <5>1. CASE SaveEntry(p)
          <6> DEFINE old == ledger[r].entries
          <6>1. r = Where(p)
            BY <2>1, <4>1, <4>4, <5>1, EntrySaved
          <6>2. /\ old \in Files /\ job[p].refs \in SUBSET Commits
                /\ ledger'[r].entries = [old EXCEPT ![job[p].id] = job[p].refs]
                /\ job[p].id \notin Taken(old)
                /\ loose' = IF job[p].switched THEN loose \cup {r} ELSE loose
            BY <2>1, <4>4, <5>1, <6>1, EntrySaved
          <6>3. Checked(p)
            BY <5>1 DEF SaveEntry, SavesAreChecked
          <6>4. ~job[p].switched
            BY <4>1, <6>2
          <6>5. job[p].id = NextId(old) /\ job[p].id \in Ids
            BY <4>2, <6>1, <6>2, <6>3, <6>4 DEF Checked
          <6>6. Taken(ledger'[r].entries) = Taken(old) \cup {job[p].id}
            <7> DEFINE files == old
                       id == job[p].id
                       refs == job[p].refs
            <7>1. files \in Files /\ refs \in SUBSET Commits /\ id \in Ids
                    /\ ledger'[r].entries = [files EXCEPT ![id] = refs]
              BY <6>2, <6>5
            <7> HIDE DEF files, id, refs
            <7>2. Taken(ledger'[r].entries) = Taken(files) \cup {id}
              BY <7>1, FileWritten
            <7>3. QED
              BY <7>2 DEF files, id
          <6>7. job[q].id \notin Taken(old)
            BY <4>1, <6>6
          <6>8. job[q].id = NextId(old)
            BY <3>1, <4>1, <4>2, <6>7 DEF Checked, r
          <6>9. QED
            BY <4>1, <6>5, <6>6, <6>8
        <5>2. CASE ~SaveEntry(p)
          <6>1. CopyPart(p) /\ r = job[p].into
            BY <1>3, <4>1, <4>4, <5>2, EntriesChange
          <6>2. PICK part \in Parts :
                    /\ job[p].from \in Refs
                    /\ ledger' = [ledger EXCEPT ![r] = Copied(part, ledger[job[p].from], ledger[r])]
                    /\ part = "entries" => loose' = loose \cup {r}
            BY <2>1, <3>1, <6>1, CopyEffect
          <6>3. part = "entries"
            <7>1. ledger'[r] = Copied(part, ledger[job[p].from], ledger[r])
              BY <2>1, <4>1, <6>2 DEF Types
            <7>2. ledger[r] \in Ledgers /\ ledger[job[p].from] \in Ledgers
              BY <2>1, <4>1, <6>2 DEF Types
            <7>3. QED
              BY <4>4, <7>1, <7>2, CopiedType
          <6>4. QED
            BY <4>1, <6>2, <6>3
        <5>3. QED
          BY <5>1, <5>2
      <4>5. QED
        BY <4>1, <4>3, <4>4
    <3>5. QED
      BY <3>3, <3>4 DEF Checked
  <2>4. ASSUME pc'[p] = "entry"
        PROVE  Checked(p)'
    <3>1. LoadEntries(p)
      BY <1>3, <2>1, <2>4, StepKinds, Begun, Over DEF Reads, Acquire, MergeRead, MergeNext,
         LoadRelease, ReleaseConflict, ResolveLog, LoadEvents, Copies, MakeTree, CopyPart, Saves,
         SaveEntry, SaveRelease, PersistRelease, Undo, WriteEvents
    <3> DEFINE files == ledger[Where(p)].entries
    <3>2. files \in Files /\ job[p] \in Jobs
      BY <2>1, WhereType DEF Types, Ledgers
    <3>3. job'[p] = [job[p] EXCEPT !.entries = files, !.id = NextId(files)]
      BY <2>1, <3>1 DEF LoadEntries
    <3>4. NextId(files) \in Ids
      BY <3>1, <3>2, NextIdIsFree, BranchAssumption DEF LoadEntries, Ids
    <3>5. ~Duplicate(job[p].refs, files) /\ ledger' = ledger
      BY <3>1 DEF LoadEntries
    <3> HIDE DEF files
    <3>6. /\ job'[p].entries = files /\ job'[p].id = NextId(files) /\ job'[p].refs = job[p].refs
          /\ job'[p].into = job[p].into
      BY <3>2, <3>3 DEF Jobs
    <3>7. Where(p)' = Where(p)
      BY <3>1, <3>6 DEF LoadEntries, Where
    <3>8. ledger'[Where(p)'].entries = job'[p].entries
      BY <3>5, <3>6, <3>7 DEF files
    <3>9. QED
      BY <3>4, <3>5, <3>6, <3>8 DEF Checked
  <2>5. QED
    BY <2>3, <2>4 DEF SavesAreChecked
<1>4. QED
  BY <1>1, <1>2, <1>3 DEF Next, Rest, Checkout, vars

LEMMA ChecksAlways == Spec => [](Base /\ TreeIsNew /\ SavesAreChecked)
<1>1. Init => SavesAreChecked
  BY DEF Init, SavesAreChecked
<1>2. Base /\ SavesAreChecked /\ [Next]_vars => SavesAreChecked'
  BY ChecksStep
<1>3. QED
  BY <1>1, <1>2, LogsAlways, PTL DEF Spec

\* Entries copied over none are those that were copied.
LEMMA OnceCopied ==
    ASSUME NEW from \in Ledgers, NEW into \in Ledgers, into.entries = NoFiles, Once(from.entries)
    PROVE  Once(Copied("entries", from, into).entries)
<1> DEFINE new == [i \in Ids |-> IF from.entries[i] = NoEntry THEN into.entries[i]
                                 ELSE from.entries[i]]
<1>1. Copied("entries", from, into) = [into EXCEPT !.entries = new]
  BY DEF Copied, Ledgers
<1>2. from.entries \in Files
  BY DEF Ledgers
<1>3. new = from.entries
  BY <1>2 DEF NoFiles, Files
<1> HIDE DEF new
<1>4. Copied("entries", from, into).entries = from.entries
  BY <1>1, <1>3 DEF Ledgers
<1>5. QED
  BY <1>4

\* Commits that had one owner in a ledger keep one, unless an undo, a command
\* that was moved to another ledger, or a copy beside a command changed its
\* entries, or a ledger was copied in which they had two already.
THEOREM OwnersStay == Spec => OwnersStayOnce
<1>1. ASSUME Base, TreeIsNew, SavesAreChecked, [Next]_vars, NEW r \in Refs
      PROVE  StaysOnce(r)
  <2> SUFFICES ASSUME Once(ledger[r].entries), ~Once(ledger'[r].entries), r \notin loose'
               PROVE  \E p \in Procs : pc[p] = "copy" /\ ~Once(ledger[job[p].from].entries)
    BY DEF StaysOnce
  <2>1. ledger'[r].entries # ledger[r].entries
    OBVIOUS
  <2>2. PICK p \in Procs : Step(p) \/ Kill(p)
    BY <1>1, <2>1 DEF Next, Rest, Checkout, EditConfig, vars
  <2>3. Types /\ Courses /\ ledger[r] \in Ledgers
    BY <1>1 DEF Base, Types
  <2>4. r \notin loose
    BY <2>2, <2>3, LooseGrows
  <2>5. ~SaveEntry(p)
    <3> SUFFICES ASSUME SaveEntry(p) PROVE FALSE
      OBVIOUS
    <3>1. r = Where(p)
      BY <2>1, <2>3, EntrySaved
    <3>2. /\ ledger[r].entries \in Files /\ job[p].refs \in SUBSET Commits
          /\ ledger'[r].entries = [ledger[r].entries EXCEPT ![job[p].id] = job[p].refs]
          /\ job[p].id \notin Taken(ledger[r].entries)
          /\ ~job[p].switched
      BY <2>1, <2>3, <3>1, EntrySaved
    <3>3. Checked(p)
      BY <1>1 DEF SaveEntry, SavesAreChecked
    <3>4. /\ job[p].id \in Ids
          /\ ~Duplicate(job[p].refs, ledger[r].entries)
      BY <2>4, <3>1, <3>2, <3>3 DEF Checked
    <3> DEFINE files == ledger[r].entries
               id == job[p].id
               refs == job[p].refs
    <3>5. /\ files \in Files /\ refs \in SUBSET Commits /\ id \in Ids \ Taken(files)
          /\ ~Duplicate(refs, files) /\ Once(files)
          /\ ledger'[r].entries = [files EXCEPT ![id] = refs]
      BY <3>2, <3>4
    <3> HIDE DEF files, id, refs
    <3>6. QED
      BY <3>5, OnceAdded
  <2>6. CopyPart(p) /\ r = job[p].into
    BY <1>1, <2>1, <2>2, <2>5, EntriesChange
  <2>7. PICK part \in Parts \ job[p].base :
            /\ job[p].from \in Refs
            /\ ledger' = [ledger EXCEPT ![r] = Copied(part, ledger[job[p].from], ledger[r])]
            /\ part = "entries" /\ job[p].overlapped => loose' = loose \cup {r}
    BY <2>3, <2>6, CopyEffect
  <2>8. /\ ledger'[r] = Copied(part, ledger[job[p].from], ledger[r])
        /\ ledger[job[p].from] \in Ledgers
    BY <2>3, <2>7 DEF Types
  <2>9. part = "entries" /\ ~job[p].overlapped
    BY <2>1, <2>3, <2>7, <2>8, CopiedType
  <2>10. ledger[r].entries = NoFiles /\ pc[p] = "copy"
    BY <1>1, <2>6, <2>7, <2>9 DEF CopyPart, TreeIsNew
  <2>11. QED
    BY <2>3, <2>8, <2>9, <2>10, OnceCopied
<1>2. Base /\ TreeIsNew /\ SavesAreChecked /\ [Next]_vars => [\A r \in Refs : StaysOnce(r)]_vars
  BY <1>1
<1>3. QED
  BY <1>2, ChecksAlways, PTL DEF Spec, OwnersStayOnce


-----------------------------------------------------------------------------
(* What a merge has brought.                                                 *)

\* The commits of the branch are in the target, still to be added, or those of
\* the entry at hand; what was read of the target is what it holds; and the
\* count of its release is that of its entries once an entry has been added.
Bringing(p) ==
    LET j == job[p]
        target == ledger[j.into] IN
    /\ pc[p] = "read" => j.release = NoRelease
    /\ pc[p] \in {"load", "entries", "entry"} =>
          j.base \subseteq Owned(target.entries) \cup Owned(j.todo) \cup j.refs
    /\ pc[p] \in {"next", "count", "open", "events", "append"} =>
          j.base \subseteq Owned(target.entries) \cup Owned(j.todo)
    /\ pc[p] = "entry" => j.entries = target.entries
    /\ pc[p] = "count" =>
          Cardinality(Taken(target.entries)) = Cardinality(Taken(j.entries)) + 1
    /\ pc[p] \in {"open", "events", "append"} \/ (pc[p] = "next" /\ j.release # NoRelease) =>
          target.release.count = Cardinality(Taken(target.entries))

Merges(p) == pc[p] # "idle" /\ job[p].kind = "merge" /\ ~job[p].overlapped
MergesBring == \A p \in Procs : Merges(p) => Bringing(p)

LEMMA TakenFinite ==
    ASSUME NEW files \in Files
    PROVE  IsFiniteSet(Taken(files)) /\ Cardinality(Taken(files)) \in Nat
<1>1. Taken(files) \in SUBSET (1..MaxId) /\ MaxId \in Nat
  BY BranchAssumption DEF Taken, Ids
<1>2. IsFiniteSet(1..MaxId)
  BY <1>1, FS_Interval
<1>3. IsFiniteSet(Taken(files))
  BY <1>1, <1>2, FS_Subset
<1>4. QED
  BY <1>3, FS_CardinalityType

LEMMA OwnedAdded ==
    ASSUME NEW files \in Files, NEW id \in Ids \ Taken(files), NEW refs \in SUBSET Commits
    PROVE  LET new == [files EXCEPT ![id] = refs] IN
           /\ Owned(files) \subseteq Owned(new) /\ refs \subseteq Owned(new)
           /\ Cardinality(Taken(new)) = Cardinality(Taken(files)) + 1
<1> DEFINE new == [files EXCEPT ![id] = refs]
<1>1. Taken(new) = Taken(files) \cup {id} /\ \A i \in Ids : new[i] = IF i = id THEN refs ELSE files[i]
  BY FileWritten
<1> HIDE DEF new
<1>2. \A i \in Taken(files) : i \in Taken(new) /\ new[i] = files[i] /\ i \in Ids
  BY <1>1, TakenFiles
<1>3. id \in Taken(new) /\ new[id] = refs
  BY <1>1
<1>4. Owned(files) \subseteq Owned(new) /\ refs \subseteq Owned(new)
  BY <1>2, <1>3 DEF Owned, Taken
<1>5. Cardinality(Taken(new)) = Cardinality(Taken(files)) + 1
  BY <1>1, TakenFinite, FS_AddElement
<1>6. QED
  BY <1>4, <1>5 DEF new

LEMMA OwnedTaken ==
    ASSUME NEW files \in Files, NEW i \in Taken(files)
    PROVE  Owned(files) \subseteq Owned([files EXCEPT ![i] = NoEntry]) \cup files[i]
<1> DEFINE new == [files EXCEPT ![i] = NoEntry]
<1>1. \A k \in Ids : new[k] = IF k = i THEN NoEntry ELSE files[k]
  BY DEF Files
<1> HIDE DEF new
<1>2. ASSUME NEW k \in Ids, files[k] # NoEntry
      PROVE  files[k] \subseteq Owned(new) \cup files[i]
  BY <1>1, <1>2 DEF Owned
<1>3. QED
  BY <1>2 DEF Owned, new

\* merge skips an entry only when it has no commits or the target owns them all.
LEMMA OwnedMissing ==
    ASSUME NEW from \in Files, NEW owned,
           NEW todo, todo = [i \in Ids |-> IF i \in Taken(from) /\ Missing(from[i], owned)
                                           THEN from[i] ELSE NoEntry]
    PROVE  UNION {from[i] : i \in Taken(from)} \subseteq owned \cup Owned(todo)
<1>1. ASSUME NEW i \in Taken(from)
      PROVE  from[i] \subseteq owned \cup Owned(todo)
  <2>1. i \in Ids /\ from[i] # NoEntry
    BY DEF Taken
  <2>2. CASE Missing(from[i], owned)
    BY <2>1, <2>2 DEF Owned
  <2>3. CASE ~Missing(from[i], owned)
    BY <2>3 DEF Missing
  <2>4. QED
    BY <2>2, <2>3
<1>2. QED
  BY <1>1


\* The steps of a merge itself.
LEMMA OwnMergeStep ==
    ASSUME Base, SavesAreChecked, NEW p \in Procs, Step(p) \/ Kill(p), Merges(p), Bringing(p),
           Merges(p)'
    PROVE  Bringing(p)'
<1> DEFINE j == job[p]
           target == ledger[j.into]
<1>1. Types /\ j \in Jobs /\ pc \in [Procs -> Positions] /\ job \in [Procs -> Jobs]
  BY DEF Base, Types
<1>2. j.kind = "merge" /\ j.into \in Refs /\ Where(p) = j.into
  BY <1>1, ConfigAssumption DEF Merges, Base, Courses, Course, Jobs, Where
<1>3. target \in Ledgers /\ target.entries \in Files
  BY <1>1, <1>2 DEF Types, Ledgers
<1>4. pc'[p] # "idle" /\ pc[p] # "idle"
  BY DEF Merges
<1>5. Reads(p) \/ SaveEntry(p) \/ SaveRelease(p) \/ WriteEvents(p)
  BY <1>1, <1>2, <1>4, StepKinds, Begun, Over DEF Base, Courses, Course, Copies, Saves, MakeTree,
     CopyPart, PersistRelease
<1>6. job'[p].into = j.into
  BY <1>1, <1>4, <1>5, OwnKept DEF Saves
<1>7. CASE MergeRead(p)
  <2> DEFINE from == ledger[j.from].entries
             todo == [i \in Ids |-> IF i \in Taken(from) /\ Missing(from[i], Owned(target.entries))
                                    THEN from[i] ELSE NoEntry]
             base == UNION {from[i] : i \in Taken(from)}
  <2>1. from \in Files
    BY <1>1 DEF Types, Ledgers, Jobs
  <2>2. base \subseteq Owned(target.entries) \cup Owned(todo)
    BY <2>1, OwnedMissing
  <2>3. /\ job'[p] = [j EXCEPT !.todo = todo, !.base = base]
        /\ pc[p] = "read" /\ pc'[p] = "next" /\ ledger' = ledger
    BY <1>1, <1>7 DEF MergeRead
  <2> HIDE DEF todo, base
  <2>4. job'[p].todo = todo /\ job'[p].base = base /\ job'[p].release = j.release
    BY <1>1, <2>3 DEF Jobs
  <2>5. j.release = NoRelease
    BY <2>3 DEF Bringing
  <2>6. QED
    BY <1>6, <2>2, <2>3, <2>4, <2>5 DEF Bringing
<1>8. CASE MergeNext(p)
  <2>1. PICK i \in Taken(j.todo) :
            job' = [job EXCEPT ![p].refs = j.todo[i], ![p].todo[i] = NoEntry]
    BY <1>8 DEF MergeNext
  <2>2. /\ job'[p].refs = j.todo[i] /\ job'[p].todo = [j.todo EXCEPT ![i] = NoEntry]
        /\ job'[p].base = j.base
    BY <1>1, <2>1 DEF Jobs
  <2>3. pc[p] = "next" /\ pc'[p] = "load" /\ ledger' = ledger
    BY <1>1, <1>8 DEF MergeNext
  <2>4. Owned(j.todo) \subseteq Owned(job'[p].todo) \cup job'[p].refs
    BY <1>1, <2>2, OwnedTaken DEF Jobs
  <2>5. j.base \subseteq Owned(target.entries) \cup Owned(j.todo)
    BY <2>3 DEF Bringing
  <2>6. job'[p].base \subseteq Owned(target.entries) \cup Owned(job'[p].todo) \cup job'[p].refs
    BY <2>2, <2>4, <2>5
  <2>7. QED
    BY <1>6, <2>3, <2>6 DEF Bringing
<1>9. CASE LoadRelease(p)
  <2>1. /\ job'[p] = [j EXCEPT !.release = ledger[Where(p)].release]
        /\ pc[p] = "load" /\ pc'[p] = "entries" /\ ledger' = ledger
    BY <1>1, <1>9 DEF LoadRelease
  <2>2. job'[p].base = j.base /\ job'[p].todo = j.todo /\ job'[p].refs = j.refs
    BY <1>1, <2>1 DEF Jobs
  <2>3. QED
    BY <1>6, <2>1, <2>2 DEF Bringing
<1>10. CASE LoadEntries(p)
  <2> DEFINE files == target.entries
             id == NextId(files)
  <2>1. /\ job'[p] = [j EXCEPT !.entries = files, !.id = id]
        /\ pc[p] = "entries" /\ pc'[p] = "entry" /\ ledger' = ledger
    BY <1>1, <1>2, <1>10 DEF LoadEntries
  <2> HIDE DEF files, id
  <2>2. /\ job'[p].base = j.base /\ job'[p].todo = j.todo /\ job'[p].refs = j.refs
        /\ job'[p].entries = files
    BY <1>1, <2>1 DEF Jobs
  <2>3. ledger'[job'[p].into].entries = job'[p].entries
    BY <1>6, <2>1, <2>2 DEF files
  <2>4. j.base \subseteq Owned(target.entries) \cup Owned(j.todo) \cup j.refs
    BY <2>1 DEF Bringing
  <2>5. QED
    BY <1>6, <2>1, <2>2, <2>3, <2>4 DEF Bringing
<1>11. CASE SaveEntry(p)
  <2> DEFINE files == target.entries
             id == j.id
             refs == j.refs
  <2>1. pc[p] = "entry" /\ pc'[p] = "count" /\ job'[p] = j
    BY <1>1, <1>11 DEF SaveEntry, Wrote
  <2>2. j.entries = files /\ j.base \subseteq Owned(files) \cup Owned(j.todo) \cup refs
    BY <2>1 DEF Bringing
  <2>3. id \in Ids \ Taken(files)
    <3>1. Checked(p)
      BY <2>1 DEF SavesAreChecked
    <3>2. id = NextId(files) /\ id \in Ids
      BY <2>2, <3>1 DEF Checked
    <3>3. QED
      BY <1>3, <3>2, NextIdIsFree
  <2>4. files \in Files /\ refs \in SUBSET Commits
    BY <1>1, <1>3 DEF Jobs
  <2> DEFINE new == [files EXCEPT ![id] = refs]
  <2>5. ledger'[j.into].entries = new
    BY <1>1, <1>2, <1>11, EntrySaved
  <2> HIDE DEF files, id, refs
  <2>6. /\ Owned(files) \subseteq Owned(new) /\ refs \subseteq Owned(new)
        /\ Cardinality(Taken(new)) = Cardinality(Taken(files)) + 1
    BY <2>3, <2>4, OwnedAdded
  <2> HIDE DEF new
  <2>7. job'[p].base \subseteq Owned(ledger'[job'[p].into].entries) \cup Owned(job'[p].todo)
    BY <1>6, <2>1, <2>2, <2>5, <2>6
  <2>8. Cardinality(Taken(ledger'[job'[p].into].entries)) = Cardinality(Taken(job'[p].entries)) + 1
    BY <1>6, <2>1, <2>2, <2>5, <2>6
  <2>9. QED
    BY <2>1, <2>7, <2>8 DEF Bringing
<1>12. CASE SaveRelease(p)
  <2>1. pc[p] = "count" /\ pc'[p] = "open" /\ job'[p] = j
    BY <1>1, <1>12 DEF SaveRelease, Wrote
  <2>2. /\ ledger' = [ledger EXCEPT ![j.into] = [target EXCEPT !.release = Counted(p)]]
    BY <1>1, <1>2, <1>12 DEF SaveRelease, Types
  <2>3. ledger'[j.into] = [target EXCEPT !.release = Counted(p)]
    BY <1>1, <1>2, <2>2 DEF Types
  <2>4. /\ ledger'[j.into].entries = target.entries
        /\ ledger'[j.into].release = Counted(p)
    BY <1>3, <2>3 DEF Ledgers
  <2>5. Counted(p).count = Cardinality(Taken(j.entries)) + 1
    BY DEF Counted
  <2>6. QED
    BY <1>6, <2>1, <2>4, <2>5 DEF Bringing
<1>13. CASE ReleaseConflict(p)
  BY <1>1, <1>13 DEF ReleaseConflict, Bringing
<1>14. CASE ResolveLog(p) \/ LoadEvents(p)
  <2>1. PICK to, rows : job'[p] \in {[j EXCEPT !.to = to], [j EXCEPT !.rows = rows]}
    BY <1>1, <1>14 DEF ResolveLog, LoadEvents
  <2>2. /\ job'[p].base = j.base /\ job'[p].todo = j.todo /\ job'[p].refs = j.refs
    BY <1>1, <2>1 DEF Jobs
  <2>3. pc[p] \in {"open", "events"} /\ pc'[p] \in {"events", "append"} /\ ledger' = ledger
    BY <1>1, <1>14 DEF ResolveLog, LoadEvents
  <2>4. QED
    BY <1>6, <2>2, <2>3 DEF Bringing
<1>15. CASE WriteEvents(p)
  <2>1. pc[p] = "append" /\ pc'[p] = "next" /\ job'[p] = j
    BY <1>1, <1>2, <1>15 DEF WriteEvents, Wrote
  <2>2. PICK new \in Logs : ledger' = [ledger EXCEPT ![j.to] = [ledger[j.to] EXCEPT !.log = new]]
    BY <1>1, <1>15, WriteEventsEffect
  <2>3. ledger'[j.into] = target \/ ledger'[j.into] = [target EXCEPT !.log = new]
    BY <1>1, <1>2, <2>2 DEF Types
  <2>4. /\ ledger'[j.into].entries = target.entries
        /\ ledger'[j.into].release = target.release
    BY <1>3, <2>3 DEF Ledgers
  <2>5. QED
    BY <1>6, <2>1, <2>4 DEF Bringing
<1>16. ~Acquire(p)
  BY <1>2 DEF Acquire, Base, Courses, Course
<1>17. QED
  BY <1>5, <1>7, <1>8, <1>9, <1>10, <1>11, <1>12, <1>13, <1>14, <1>15, <1>16 DEF Reads

LEMMA MergesStep ==
    ASSUME Base, SavesAreChecked, MergesBring, [Next]_vars
    PROVE  MergesBring'
<1>1. CASE UNCHANGED <<ledger, pc, job>>
  BY <1>1 DEF MergesBring, Merges, Bringing
<1>2. ASSUME NEW p \in Procs, Step(p) \/ Kill(p)
      PROVE  MergesBring'
  <2>1. Types
    BY DEF Base
  <2>2. ASSUME NEW q \in Procs \ {p}, Merges(q)'
        PROVE  Bringing(q)'
    <3>1. /\ Kept(job[q], job'[q]) /\ pc'[q] = pc[q] /\ pc[q] # "idle"
          /\ ledger' # ledger => job'[q].overlapped
      BY <1>2, <2>1, <2>2, OthersStep DEF Keeps, Merges
    <3>2. ledger' = ledger /\ Merges(q)
      BY <2>2, <3>1 DEF Merges, Kept
    <3>3. Bringing(q)
      BY <3>2 DEF MergesBring
    <3>4. QED
      BY <3>1, <3>2, <3>3 DEF Bringing, Kept
  <2>3. ASSUME Merges(p)'
        PROVE  Bringing(p)'
    <3>1. CASE Starts(p)
      BY <2>1, <2>3, <3>1, Begun DEF Merges, Bringing
    <3>2. CASE ~Starts(p)
      <4>1. Reads(p) \/ Copies(p) \/ Saves(p) \/ WriteEvents(p)
        BY <1>2, <2>1, <2>3, <3>2, StepKinds, Over DEF Merges
      <4>2. /\ job'[p].kind = job[p].kind /\ job'[p].overlapped = job[p].overlapped
        BY <2>1, <2>3, <4>1, OwnKept DEF Merges
      <4>3. pc[p] # "idle"
        BY <4>1 DEF Reads, Acquire, MergeRead, MergeNext, LoadRelease, LoadEntries,
           ReleaseConflict, ResolveLog, LoadEvents, Copies, MakeTree, CopyPart, Saves, SaveEntry,
           SaveRelease, PersistRelease, Undo, WriteEvents
      <4>4. Merges(p)
        BY <2>3, <4>2, <4>3 DEF Merges
      <4>5. QED
        BY <1>2, <2>3, <4>4, OwnMergeStep DEF MergesBring
    <3>3. QED
      BY <3>1, <3>2
  <2>4. QED
    BY <2>2, <2>3 DEF MergesBring
<1>3. QED
  BY <1>1, <1>2 DEF Next, Rest, Checkout, EditConfig, vars

\* A merge that reaches its end without others writing has brought every commit
\* of the branch, and its release counts the entries there are.
THEOREM MergesComplete == Spec => MergeIsComplete
<1>1. Init => MergesBring
  BY DEF Init, MergesBring, Merges
<1>2. Base /\ SavesAreChecked /\ MergesBring /\ [Next]_vars => MergesBring'
  BY MergesStep
<1>3. ASSUME Base, MergesBring, NEW p \in Procs, MergeDone(p), ~job[p].overlapped
      PROVE  Brought(p)
  <2>1. pc[p] = "next" /\ Owned(job[p].todo) = {}
    BY <1>3 DEF MergeDone, Taken, Owned
  <2>2. Merges(p)
    BY <1>3, <2>1 DEF Merges, Base, Courses, Course
  <2>3. QED
    BY <1>3, <2>1, <2>2 DEF MergesBring, Bringing, Brought
<1>4. Base /\ MergesBring =>
          [\A p \in Procs : MergeDone(p) /\ ~job[p].overlapped => Brought(p)]_vars
  BY <1>3
<1>5. QED
  BY <1>1, <1>2, <1>4, ChecksAlways, PTL DEF Spec, MergeIsComplete


=============================================================================
