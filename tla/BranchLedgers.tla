--------------------------- MODULE BranchLedgers --------------------------
(***************************************************************************)
(* The ledgers of a project, one per ledger_ref, and the commands that     *)
(* fork one (branch start), switch to one (the ledger_ref of the config)   *)
(* and merge one into another by source_refs (branch merge), together with *)
(* the commands that write the active ledger meanwhile.                    *)
(*                                                                         *)
(* A service never keeps the ledger it works on: each load, save and       *)
(* append resolves ledger_ref anew, from its argument when it was given    *)
(* one (merge) and from the config otherwise.  branch start and branch     *)
(* merge run without the write lock, entry add and release create with it. *)
(*                                                                         *)
(* One release is modelled.  An entry is the set of commits it owns (its   *)
(* summary goes with them), the log a sequence of <<run, entry id>>.  One  *)
(* file is written atomically; a process may be killed between two steps.  *)
(***************************************************************************)
EXTENDS Naturals, Sequences, FiniteSetsExt

CONSTANTS
    Refs,       \* ledger refs, which are also the names of git branches
    Main,       \* the ref a project begins with
    Procs,      \* processes of the CLI
    NoProc,     \* nobody, for the lock
    Commits,    \* what source_refs name
    NoCommit,   \* stands for the absence of an entry
    Sources,    \* the sets of source_refs that entry add is given
    Guard,      \* ledger_branch_guard: "off", "warn" or "on"
    MaxId,      \* bound: entry ids
    MaxRuns,    \* bound: commands started in a behaviour
    MaxCrashes  \* bound: processes killed in a behaviour

ASSUME BranchAssumption ==
    /\ Main \in Refs
    /\ NoProc \notin Procs
    /\ Sources \subseteq SUBSET Commits
    /\ NoCommit \notin Commits
    /\ Guard \in {"off", "warn", "on"}
    /\ MaxId \in Nat /\ MaxRuns \in Nat /\ MaxCrashes \in Nat

VARIABLES
    ledger,     \* ref -> its directory: release.md, entries, events.jsonl
    active,     \* ledger_ref of the config
    branch,     \* the branch git has checked out
    lock,       \* the holder of write.lock
    pc,         \* process -> the next step of its command
    job,        \* process -> the command it runs and what it has read
    loose,      \* history: ledgers whose entries changed by an undo, by a command
                \* that had read another ledger, or by a copy beside a command
    runs,       \* number of commands started
    crashes     \* number of processes killed

vars == <<ledger, active, branch, lock, pc, job, loose, runs, crashes>>

Ids == 1..MaxId
NoEntry == {NoCommit}
Files == [Ids -> (SUBSET Commits) \cup {NoEntry}]
NoFiles == [i \in Ids |-> NoEntry]
NoRelease == [revision |-> 0, count |-> 0]
NoLedger == [there |-> FALSE, release |-> NoRelease, entries |-> NoFiles, log |-> <<>>]

\* into: the ledger_ref given to the service, Config when it has none.
\* from: the ledger read by merge, the parent of start.  refs: source_refs of
\* the entry at hand; todo: those still to be added.  to: the ledger whose log
\* was resolved.  checked, switched, overlapped: history, as is base for merge.
\* base: the commits to be merged; the parts already copied.
Config == "the config"
ASSUME ConfigAssumption == Config \notin Refs

Job(k, n, into, from, refs) ==
    [kind |-> k, run |-> n, into |-> into, from |-> from, refs |-> refs, todo |-> NoFiles,
     release |-> NoRelease, entries |-> NoFiles, id |-> 0, to |-> Main, rows |-> <<>>,
     checked |-> Main, switched |-> FALSE, overlapped |-> FALSE,
     base |-> {}]
NoJob == Job("create", 0, Config, Main, {})

Init ==
    /\ \E first \in {<<>>, << <<0, 0>> >>} :
          ledger = [r \in Refs |-> IF r = Main
                       THEN [there |-> TRUE, entries |-> NoFiles, log |-> first,
                             release |-> [revision |-> Len(first), count |-> 0]]
                       ELSE NoLedger]
    /\ active = Main
    /\ branch = Main
    /\ lock = NoProc
    /\ pc = [p \in Procs |-> "idle"]
    /\ job = [p \in Procs |-> NoJob]
    /\ loose = {}
    /\ runs = 0
    /\ crashes = 0

\* Where a load, a save or an append of p goes at this moment.
Where(p) == IF job[p].into = Config THEN active ELSE job[p].into

Owned(files) == UNION {files[i] : i \in {j \in Ids : files[j] # NoEntry}}
Taken(files) == {i \in Ids : files[i] # NoEntry}
NextId(files) == IF Taken(files) = {} THEN 1 ELSE Max(Taken(files)) + 1

\* History: every other running command learns of a write of p.
Wrote(p, own) ==
    [q \in Procs |-> IF q = p THEN own
                     ELSE IF pc[q] = "idle" THEN job[q] ELSE [job[q] EXCEPT !.overlapped = TRUE]]

-----------------------------------------------------------------------------
(* Starting a command: the branch guard, then the lock.                    *)

Begin(p, k, into, from, refs) ==
    /\ runs < MaxRuns
    /\ pc[p] = "idle"
    /\ runs' = runs + 1
    /\ job' = [job EXCEPT ![p] = [Job(k, runs + 1, into, from, refs) EXCEPT !.checked = branch]]

\* Variant: the guard warns and lets the command pass.
GuardWarns == TRUE

\* check_branch_guard: refused while git is on another branch and the guard is
\* on, before the lock is asked for.
GuardPasses == Guard = "on" => branch = active

Begin1(p, k, refs) ==
    /\ GuardPasses
    /\ Begin(p, k, Config, Main, refs)
    /\ pc' = [pc EXCEPT ![p] = "acquire"]
    /\ UNCHANGED <<ledger, active, branch, lock, loose, crashes>>

CreateRelease(p) == Begin1(p, "create", {})
AddEntry(p) == \E refs \in Sources : Begin1(p, "add", refs)

Acquire(p) ==
    /\ pc[p] = "acquire"
    /\ lock = NoProc
    /\ lock' = p
    /\ pc' = [pc EXCEPT ![p] = IF job[p].kind = "create" THEN "create" ELSE "load"]
    /\ UNCHANGED <<ledger, active, branch, job, loose, runs, crashes>>

\* Variant: only a command that succeeds or is refused late gives the lock back.
FinishHolding(p) ==
    /\ pc' = [pc EXCEPT ![p] = "idle"]
    /\ lock' = IF lock = p /\ pc[p] # "load" THEN NoProc ELSE lock

\* The command is over, by success, by an error or by the timeout of the lock.
Finish(p) ==
    /\ pc' = [pc EXCEPT ![p] = "idle"]
    /\ lock' = IF lock = p THEN NoProc ELSE lock

Give(p) ==
    /\ Finish(p)
    /\ job' = [job EXCEPT ![p] = NoJob]
    /\ UNCHANGED <<ledger, active, branch, loose, runs, crashes>>

LockTimeout(p) == pc[p] = "acquire" /\ lock # NoProc /\ Give(p)

-----------------------------------------------------------------------------
(* branch start.                                                           *)

BranchStart(p) ==
    \E from, into \in Refs :
        /\ from # into
        /\ ledger[from].there
        /\ ~ledger[into].there
        /\ Begin(p, "start", into, from, {})
        /\ pc' = [pc EXCEPT ![p] = "mkdir"]
        /\ UNCHANGED <<ledger, active, branch, lock, loose, crashes>>

\* copytree makes the directory, which must not exist by now, and copies file
\* by file in the order the directory lists them.
MakeTree(p) ==
    /\ pc[p] = "mkdir"
    /\ ~ledger[job[p].into].there
    /\ ledger' = [ledger EXCEPT ![job[p].into].there = TRUE]
    /\ job' = Wrote(p, job[p])
    /\ pc' = [pc EXCEPT ![p] = "copy"]
    /\ UNCHANGED <<active, branch, lock, loose, runs, crashes>>

TreeExists(p) == pc[p] = "mkdir" /\ ledger[job[p].into].there /\ Give(p)

Parts == {"release", "entries", "log"}

\* Files are written over and never removed: an entry that the target got
\* meanwhile under another id stays.
Copied(part, from, into) ==
    CASE part = "release" -> [into EXCEPT !.release = IF from.release.revision = 0 THEN @ ELSE from.release]
      [] part = "entries" -> [into EXCEPT !.entries = [i \in Ids |-> IF from.entries[i] = NoEntry
                                                         THEN @[i] ELSE from.entries[i]]]
      [] part = "log" -> [into EXCEPT !.log = IF from.log = <<>> THEN @ ELSE from.log]

CopyPart(p) ==
    LET j == job[p] IN
    /\ pc[p] = "copy"
    /\ \E part \in Parts \ j.base :
        /\ ledger' = [ledger EXCEPT ![j.into] = Copied(part, ledger[j.from], @)]
        /\ loose' = IF part = "entries" /\ (j.overlapped \/ \E q \in Procs \ {p} : pc[q] # "idle")
                    THEN loose \cup {j.into} ELSE loose
        /\ job' = Wrote(p, [j EXCEPT !.base = @ \cup {part}])
        /\ pc' = [pc EXCEPT ![p] = IF j.base \cup {part} = Parts THEN "config" ELSE @]
    /\ UNCHANGED <<active, branch, lock, runs, crashes>>

\* Every command that resolves ledger_ref from now on works on the new ledger,
\* the running ones included.  The rebuild of the indexes that follows has no
\* effect on a ledger.
SetConfig(p) ==
    /\ pc[p] = "config"
    /\ active' = job[p].into
    /\ job' = [q \in Procs |-> IF q = p THEN NoJob
                    ELSE IF pc[q] = "idle" THEN job[q] ELSE [job[q] EXCEPT !.switched = TRUE]]
    /\ Finish(p)
    /\ UNCHANGED <<ledger, branch, loose, runs, crashes>>

-----------------------------------------------------------------------------
(* branch merge.                                                           *)

BranchMerge(p) ==
    \E from, into \in Refs :
        /\ from # into
        /\ ledger[from].there
        /\ ledger[into].there
        /\ Begin(p, "merge", into, from, {})
        /\ pc' = [pc EXCEPT ![p] = "read"]
        /\ UNCHANGED <<ledger, active, branch, lock, loose, crashes>>

\* Variant: an entry is added only when none of its commits is in the target.
MissingAll(refs, owned) == refs # {} /\ refs \cap owned = {}

\* An entry is added unless it has no source_refs or all of them are in the
\* target already.
Missing(refs, owned) == refs # {} /\ ~(refs \subseteq owned)

MergeRead(p) ==
    LET from == ledger[job[p].from].entries
        owned == Owned(ledger[job[p].into].entries)
    IN
    /\ pc[p] = "read"
    /\ job' = [job EXCEPT ![p].todo = [i \in Ids |->
                                IF i \in Taken(from) /\ Missing(from[i], owned)
                                THEN from[i] ELSE NoEntry],
                          ![p].base = UNION {from[i] : i \in Taken(from)}]
    /\ pc' = [pc EXCEPT ![p] = "next"]
    /\ UNCHANGED <<ledger, active, branch, lock, loose, runs, crashes>>

MergeNext(p) ==
    /\ pc[p] = "next"
    /\ \E i \in Taken(job[p].todo) :
        /\ \A k \in Taken(job[p].todo) : i <= k
        /\ job' = [job EXCEPT ![p].refs = job[p].todo[i], ![p].todo[i] = NoEntry]
    /\ pc' = [pc EXCEPT ![p] = "load"]
    /\ UNCHANGED <<ledger, active, branch, lock, loose, runs, crashes>>

MergeDone(p) == pc[p] = "next" /\ Taken(job[p].todo) = {} /\ Give(p)

-----------------------------------------------------------------------------
(* add_release_entry, for entry add and for every entry of a merge.        *)

LoadRelease(p) ==
    /\ pc[p] = "load"
    /\ ledger[Where(p)].release.revision # 0
    /\ job' = [job EXCEPT ![p].release = ledger[Where(p)].release]
    /\ pc' = [pc EXCEPT ![p] = "entries"]
    /\ UNCHANGED <<ledger, active, branch, lock, loose, runs, crashes>>

NoSuchRelease(p) == pc[p] = "load" /\ ledger[Where(p)].release.revision = 0 /\ Give(p)

\* Variant: only an entry that repeats another one.
DuplicateRepeats(refs, files) == \E i \in Taken(files) : files[i] = refs

\* _duplicate_batch_issues: a commit of the entry has an owner, or the entry
\* repeats another one.
Duplicate(refs, files) ==
    \E i \in Taken(files) : files[i] \cap refs # {} \/ files[i] = refs

LoadEntries(p) ==
    LET files == ledger[Where(p)].entries IN
    /\ NextId(files) <= MaxId
    /\ pc[p] = "entries"
    /\ ~Duplicate(job[p].refs, files)
    /\ job' = [job EXCEPT ![p].entries = files, ![p].id = NextId(files)]
    /\ pc' = [pc EXCEPT ![p] = "entry"]
    /\ UNCHANGED <<ledger, active, branch, lock, loose, runs, crashes>>

Refused(p) == pc[p] = "entries" /\ Duplicate(job[p].refs, ledger[Where(p)].entries) /\ Give(p)

\* save_entry: the bundle must exist and a file of this id must be the same.
EntryFits(p, r) ==
    /\ ledger[r].release.revision # 0
    /\ ledger[r].entries[job[p].id] \in {NoEntry, job[p].refs}

SaveEntry(p) ==
    LET r == Where(p) IN
    /\ pc[p] = "entry"
    /\ EntryFits(p, r)
    /\ ledger' = [ledger EXCEPT ![r].entries[job[p].id] = job[p].refs]
    /\ loose' = IF job[p].switched THEN loose \cup {r} ELSE loose
    /\ job' = Wrote(p, job[p])
    /\ pc' = [pc EXCEPT ![p] = "count"]
    /\ UNCHANGED <<active, branch, lock, runs, crashes>>

EntryConflict(p) == pc[p] = "entry" /\ ~EntryFits(p, Where(p)) /\ Give(p)

\* save_release: one revision more than on disk, the same when nothing changes.
Counted(p) == [revision |-> job[p].release.revision + 1,
               count |-> Cardinality(Taken(job[p].entries)) + 1]
ReleaseFits(new, old) ==
    \/ old.revision # 0 /\ new.revision = old.revision + (IF new.count = old.count THEN 0 ELSE 1)
    \/ old.revision = 0 /\ new.revision = 1

SaveRelease(p) ==
    LET r == Where(p) IN
    /\ pc[p] = "count"
    /\ ReleaseFits(Counted(p), ledger[r].release)
    /\ ledger' = [ledger EXCEPT ![r].release = Counted(p)]
    /\ job' = Wrote(p, job[p])
    /\ pc' = [pc EXCEPT ![p] = "open"]
    /\ UNCHANGED <<active, branch, lock, loose, runs, crashes>>

\* The release has changed: the entry is deleted again, from whichever ledger
\* is resolved by then, and the command is refused.
ReleaseConflict(p) ==
    /\ pc[p] = "count"
    /\ ~ReleaseFits(Counted(p), ledger[Where(p)].release)
    /\ pc' = [pc EXCEPT ![p] = "undo"]
    /\ UNCHANGED <<ledger, active, branch, lock, job, loose, runs, crashes>>

Undo(p) ==
    LET r == Where(p) IN
    /\ pc[p] = "undo"
    /\ ledger' = [ledger EXCEPT ![r].entries[job[p].id] = NoEntry]
    /\ loose' = loose \cup {r}
    /\ job' = Wrote(p, NoJob)
    /\ Finish(p)
    /\ UNCHANGED <<active, branch, runs, crashes>>

\* _persist_new_release of release create.
PersistRelease(p) ==
    LET r == Where(p) IN
    /\ pc[p] = "create"
    /\ ledger[r].release.revision = 0
    /\ ledger' = [ledger EXCEPT ![r].release = [revision |-> 1, count |-> 0]]
    /\ job' = Wrote(p, job[p])
    /\ pc' = [pc EXCEPT ![p] = "open"]
    /\ UNCHANGED <<active, branch, lock, loose, runs, crashes>>

ReleaseExists(p) == pc[p] = "create" /\ ledger[Where(p)].release.revision # 0 /\ Give(p)

-----------------------------------------------------------------------------
(* append_event, which is told the ledger whose log it writes, but reads   *)
(* the log of the active one.                                              *)

ResolveLog(p) ==
    /\ pc[p] = "open"
    /\ job' = [job EXCEPT ![p].to = Where(p)]
    /\ pc' = [pc EXCEPT ![p] = "events"]
    /\ UNCHANGED <<ledger, active, branch, lock, loose, runs, crashes>>

\* Variant: the ledger a project begins with.
LogReadMain(p) == Main

LogRead(p) == active

LoadEvents(p) ==
    /\ pc[p] = "events"
    /\ job' = [job EXCEPT ![p].rows = ledger[LogRead(p)].log]
    /\ pc' = [pc EXCEPT ![p] = "append"]
    /\ UNCHANGED <<ledger, active, branch, lock, loose, runs, crashes>>

WriteEvents(p) ==
    LET r == job[p].to IN
    /\ pc[p] = "append"
    /\ ledger' = [ledger EXCEPT ![r].log = Append(job[p].rows, <<job[p].run, job[p].id>>)]
    /\ IF job[p].kind = "merge"
         THEN pc' = [pc EXCEPT ![p] = "next"] /\ job' = Wrote(p, job[p]) /\ UNCHANGED lock
         ELSE Finish(p) /\ job' = Wrote(p, NoJob)
    /\ UNCHANGED <<active, branch, loose, runs, crashes>>

-----------------------------------------------------------------------------
Kill(p) ==
    /\ crashes < MaxCrashes
    /\ pc[p] # "idle"
    /\ crashes' = crashes + 1
    /\ Finish(p)
    /\ job' = [job EXCEPT ![p] = NoJob]
    /\ UNCHANGED <<ledger, active, branch, loose, runs>>

\* External: git checkout.
Checkout ==
    /\ runs < MaxRuns
    /\ branch' \in Refs \ {branch}
    /\ UNCHANGED <<ledger, active, lock, pc, job, loose, runs, crashes>>

\* External: ledger_ref is edited, or comes with the config of the branch that
\* is checked out, while no command runs.
EditConfig ==
    /\ runs < MaxRuns
    /\ \A p \in Procs : pc[p] = "idle"
    /\ active' \in {r \in Refs \ {active} : ledger[r].there}
    /\ UNCHANGED <<ledger, branch, lock, pc, job, loose, runs, crashes>>

Step(p) ==
    \/ CreateRelease(p) \/ AddEntry(p) \/ Acquire(p) \/ LockTimeout(p)
    \/ BranchStart(p) \/ MakeTree(p) \/ TreeExists(p) \/ CopyPart(p) \/ SetConfig(p)
    \/ BranchMerge(p) \/ MergeRead(p) \/ MergeNext(p) \/ MergeDone(p)
    \/ LoadRelease(p) \/ NoSuchRelease(p) \/ LoadEntries(p) \/ Refused(p)
    \/ SaveEntry(p) \/ EntryConflict(p) \/ SaveRelease(p) \/ ReleaseConflict(p)
    \/ Undo(p) \/ PersistRelease(p) \/ ReleaseExists(p)
    \/ ResolveLog(p) \/ LoadEvents(p) \/ WriteEvents(p)

\* The user gives no further command.
Rest == (\A p \in Procs : pc[p] = "idle") /\ UNCHANGED vars

Next == Rest \/ Checkout \/ EditConfig \/ \E p \in Procs : Step(p) \/ Kill(p)

Spec == Init /\ [][Next]_vars

-----------------------------------------------------------------------------
(* Properties.                                                             *)

Logs == Seq(Nat \X (0..MaxId))

\* Every variable has its type, a process that holds the lock is in the middle
\* of a command and a process without a command holds nothing.
TypeOK ==
    /\ ledger \in [Refs -> [there : BOOLEAN, entries : Files, log : Logs,
                            release : [revision : Nat, count : Nat]]]
    /\ active \in Refs /\ branch \in Refs /\ loose \subseteq Refs
    /\ lock \in Procs \cup {NoProc}
    /\ lock # NoProc => pc[lock] \notin {"idle", "acquire"}
    /\ runs \in 0..MaxRuns /\ crashes \in 0..MaxCrashes
    /\ ledger[active].there

Once(files) == \A i, k \in Taken(files) : i # k => files[i] \cap files[k] = {}

StaysOnce(r) ==
    Once(ledger[r].entries) /\ ~Once(ledger'[r].entries) =>
        \/ r \in loose'
        \/ \E p \in Procs : pc[p] = "copy" /\ ~Once(ledger[job[p].from].entries)

\* Hazard: merge takes no lock and reads the entries before it adds any
\* (services/branch.py:250).  Two writers at once do not give a commit a second
\* owner, since both take the same id and one save is refused.  The code leaves
\* three ways: a branch start moves a running entry add to another ledger; the
\* undo of a refused save frees an id that another command has counted past; a
\* copy goes over a ledger that another command has read.
OwnersStayOnce == [][\A r \in Refs : StaysOnce(r)]_vars

WriteStays(p, r) ==
    pc'[p] # pc[p] /\ ledger'[r] # ledger[r] =>
        \/ r = job[p].into
        \/ job[p].into = Config /\ (job[p].switched \/ (Guard = "on" => r = job[p].checked))

\* Hazard: ledger_ref is resolved anew by every load, save and append
\* (storage/paths.py:279), and the guard compares it with the branch only once,
\* before the lock (cli_common.py:326).  With the guard on, a command writes
\* the ledger of the branch that was checked out when it started, and a merge
\* the ledger it was told, unless a branch start changed the config meanwhile.
WritesStayInLedger == [][\A p \in Procs, r \in Refs : WriteStays(p, r)]_vars

Events(log) == {log[i] : i \in 1..Len(log)}

EventsStay(r) ==
    Events(ledger[r].log) \subseteq Events(ledger'[r].log) \/
        \E p \in Procs :
            \/ pc[p] = "append" /\ job[p].kind = "merge" /\ r = job[p].to /\ r # active
            \/ pc[p] \in {"append", "copy"} /\ (job[p].overlapped \/ job[p].switched)

\* Hazard: append_event is given the ledger to write and reads the log of the
\* active one (services/events.py:46).  An event disappears from a log only
\* when a merge into a ledger that is not active writes over it, or when
\* commands overlapped, one of which takes no lock.
EventsSurvive == [][\A r \in Refs : EventsStay(r)]_vars

Brought(p) ==
    /\ job[p].base \subseteq Owned(ledger[job[p].into].entries)
    /\ job[p].release # NoRelease => ledger[job[p].into].release.count =
                                        Cardinality(Taken(ledger[job[p].into].entries))

\* Hazard: an entry that shares some of its commits with the target is refused
\* half-way (services/branch.py:277).  A merge that reaches its end without
\* others writing has brought every commit of the branch to the target, and the
\* count of the release it added to is that of its entries.
MergeIsComplete == [][\A p \in Procs : MergeDone(p) /\ ~job[p].overlapped => Brought(p)]_vars

=============================================================================
