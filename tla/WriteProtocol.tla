--------------------------- MODULE WriteProtocol --------------------------
(***************************************************************************)
(* How a command of the CLI changes the files of a ledger, step by step,   *)
(* and what several commands running at once do to each other: the write   *)
(* lock (storage/locking.py, run_command of cli_common.py), the check of   *)
(* the record revision in every save (storage/store.py), the rewrite of    *)
(* the event log (services/events.py) and the rebuild of the indexes.      *)
(*                                                                         *)
(* The services share one shape: load the records to be changed, save them *)
(* one after another, append an event, rebuild the indexes.  A command is  *)
(* the list of records it saves, and whether cli.py gives run_command the  *)
(* workspace, without which no lock is taken.  A record's content is the   *)
(* set of command runs whose changes it contains.                          *)
(*                                                                         *)
(* One file is written atomically (external: ledgercore's atomic writes),  *)
(* so a step reads or writes one file; listing the records to index is one *)
(* step.  A process may be killed between any two steps.                   *)
(***************************************************************************)
EXTENDS Naturals, Sequences, FiniteSets

CONSTANTS
    Procs,      \* processes of the CLI
    NoProc,     \* nobody, for the lock
    Records,    \* release, entry and audit files
    Commands,   \* kinds of commands
    Plan,       \* command -> the records it saves, in order, each once
    Locking,    \* the commands that run under the write lock
    MaxRuns,    \* bound: commands started in a behaviour
    MaxCrashes  \* bound: processes killed in a behaviour

ASSUME ProtocolAssumption ==
    /\ NoProc \notin Procs
    /\ Commands # {}
    /\ Plan \in [Commands -> Seq(Records) \ {<<>>}]
    /\ \A c \in Commands : \A i, j \in 1..Len(Plan[c]) :
            Plan[c][i] = Plan[c][j] => i = j
    /\ Locking \subseteq Commands
    /\ MaxRuns \in Nat /\ MaxCrashes \in Nat

VARIABLES
    disk,       \* record -> its revision (0: no file) and the runs it contains
    log,        \* events.jsonl
    index,      \* record -> revision, the derived indexes
    lock,       \* the holder of write.lock
    pc,         \* process -> the next step of its command
    job,        \* process -> the command it runs and what it has read
    runs,       \* number of commands started
    crashes,    \* number of processes killed
    base,       \* history: disk and log when the lock was last taken
    saved       \* history: <<run, record>> of every save that succeeded

vars == <<disk, log, index, lock, pc, job, runs, crashes, base, saved>>

Absent == [revision |-> 0, applied |-> {}]
Nothing == [r \in Records |-> Absent]

\* at: position in the plan; seen: records as loaded; events: the log as
\* loaded; rows: the index rows as computed.
Job(c, n) == [command |-> c, run |-> n, at |-> 1, seen |-> Nothing,
              events |-> <<>>, rows |-> [r \in Records |-> 0]]

Init ==
    /\ disk = Nothing
    /\ log = <<>>
    /\ index = [r \in Records |-> 0]
    /\ lock = NoProc
    /\ pc = [p \in Procs |-> "idle"]
    /\ job = [p \in Procs |-> Job(CHOOSE c \in Commands : TRUE, 0)]
    /\ runs = 0
    /\ crashes = 0
    /\ base = [disk |-> Nothing, log |-> <<>>]
    /\ saved = {}

PlanOf(p) == Plan[job[p].command]
Target(p) == PlanOf(p)[job[p].at]
FilesOf(c) == {Plan[c][i] : i \in 1..Len(Plan[c])}

-----------------------------------------------------------------------------
(* The lock.                                                               *)

\* Variant: the lock file is left behind and counts as held.
ReleaseLeavingFile(p) == lock

\* Leaving run_command, or dying, gives the lock back; a process that does not
\* hold it changes nothing.
Release(p) == IF lock = p THEN NoProc ELSE lock

End(p) ==
    /\ pc' = [pc EXCEPT ![p] = "idle"]
    /\ lock' = Release(p)

Start(p, c) ==
    /\ runs < MaxRuns
    /\ pc[p] = "idle"
    /\ runs' = runs + 1
    /\ job' = [job EXCEPT ![p] = Job(c, runs + 1)]
    /\ pc' = [pc EXCEPT ![p] = IF c \in Locking THEN "acquire" ELSE "load"]
    /\ UNCHANGED <<disk, log, index, lock, crashes, base, saved>>

\* Variant: the lock is taken whoever holds it.
AcquireHeld(p) ==
    /\ pc[p] = "acquire"
    /\ lock' = p
    /\ base' = [disk |-> disk, log |-> log]
    /\ pc' = [pc EXCEPT ![p] = "load"]
    /\ UNCHANGED <<disk, log, index, job, runs, crashes, saved>>

Acquire(p) ==
    /\ pc[p] = "acquire"
    /\ lock = NoProc
    /\ lock' = p
    /\ base' = [disk |-> disk, log |-> log]
    /\ pc' = [pc EXCEPT ![p] = "load"]
    /\ UNCHANGED <<disk, log, index, job, runs, crashes, saved>>

\* The lock is held by another process for the whole timeout: a conflict.
LockTimeout(p) ==
    /\ pc[p] = "acquire"
    /\ lock # NoProc
    /\ pc' = [pc EXCEPT ![p] = "idle"]
    /\ UNCHANGED <<disk, log, index, lock, job, runs, crashes, base, saved>>

-----------------------------------------------------------------------------
(* The records.                                                            *)

\* Load the next record of the plan; after the last one go back to the first.
Load(p) ==
    LET whole == job[p].at = Len(PlanOf(p)) IN
    /\ pc[p] = "load"
    /\ job' = [job EXCEPT ![p].seen[Target(p)] = disk[Target(p)],
                          ![p].at = IF whole THEN 1 ELSE @ + 1]
    /\ pc' = [pc EXCEPT ![p] = IF whole THEN "validate" ELSE "load"]
    /\ UNCHANGED <<disk, log, index, lock, runs, crashes, base, saved>>

\* _validate_revision_transition: the revision to be written is one more than
\* the revision loaded, and must be one more than the revision on disk.
RevisionFits(p) == job[p].seen[Target(p)].revision = disk[Target(p)].revision

Validate(p) ==
    /\ pc[p] = "validate"
    /\ RevisionFits(p)
    /\ pc' = [pc EXCEPT ![p] = "write"]
    /\ UNCHANGED <<disk, log, index, lock, job, runs, crashes, base, saved>>

\* The save is refused and the command ends; what it has saved before stays.
Conflict(p) ==
    /\ pc[p] = "validate"
    /\ ~RevisionFits(p)
    /\ End(p)
    /\ UNCHANGED <<disk, log, index, job, runs, crashes, base, saved>>

\* Variant: the event is appended after the first record.
AfterFirstSave(p) == "events"

\* The step after a save.
AfterSave(p) == IF job[p].at = Len(PlanOf(p)) THEN "events" ELSE "validate"

Write(p) ==
    LET old == job[p].seen[Target(p)] IN
    /\ pc[p] = "write"
    /\ disk' = [disk EXCEPT ![Target(p)] =
                    [revision |-> old.revision + 1,
                     applied |-> old.applied \cup {job[p].run}]]
    /\ saved' = saved \cup {<<job[p].run, Target(p)>>}
    /\ pc' = [pc EXCEPT ![p] = AfterSave(p)]
    /\ job' = [job EXCEPT ![p].at = @ + 1]
    /\ UNCHANGED <<log, index, lock, runs, crashes, base>>

-----------------------------------------------------------------------------
(* The event log: read it, add a row, write all of it.                     *)

LoadEvents(p) ==
    /\ pc[p] = "events"
    /\ job' = [job EXCEPT ![p].events = log]
    /\ pc' = [pc EXCEPT ![p] = "append"]
    /\ UNCHANGED <<disk, log, index, lock, runs, crashes, base, saved>>

\* Variant: the number of rows itself, not the next one.
NextIdReused(rows) == Len(rows)

\* next_prefixed_id: one more than the largest id, which is the row's number.
NextId(rows) == Len(rows) + 1

AppendEvent(p) ==
    LET rows == job[p].events IN
    /\ pc[p] = "append"
    /\ log' = Append(rows, [id |-> NextId(rows), run |-> job[p].run])
    /\ pc' = [pc EXCEPT ![p] = "list"]
    /\ UNCHANGED <<disk, index, lock, job, runs, crashes, base, saved>>

-----------------------------------------------------------------------------
(* The indexes.                                                            *)

IndexRows(p) == [r \in Records |-> disk[r].revision]

ListRecords(p) ==
    /\ pc[p] = "list"
    /\ job' = [job EXCEPT ![p].rows = IndexRows(p)]
    /\ pc' = [pc EXCEPT ![p] = "reindex"]
    /\ UNCHANGED <<disk, log, index, lock, runs, crashes, base, saved>>

WriteIndex(p) ==
    /\ pc[p] = "reindex"
    /\ index' = job[p].rows
    /\ End(p)
    /\ UNCHANGED <<disk, log, job, runs, crashes, base, saved>>

-----------------------------------------------------------------------------
\* The process is killed, or an error that no step handles ends the command.
Crash(p) ==
    /\ crashes < MaxCrashes
    /\ pc[p] # "idle"
    /\ crashes' = crashes + 1
    /\ End(p)
    /\ UNCHANGED <<disk, log, index, job, runs, base, saved>>

Step(p) ==
    \/ Acquire(p) \/ LockTimeout(p)
    \/ Load(p) \/ Validate(p) \/ Conflict(p) \/ Write(p)
    \/ LoadEvents(p) \/ AppendEvent(p)
    \/ ListRecords(p) \/ WriteIndex(p)

Next ==
    \E p \in Procs :
        \/ \E c \in Commands : Start(p, c)
        \/ Step(p)
        \/ Crash(p)

\* A started process goes on running; nobody has to start one or to kill one.
Fairness == \A p \in Procs : WF_vars(Step(p))

Spec == Init /\ [][Next]_vars /\ Fairness

-----------------------------------------------------------------------------
Record == [revision : Nat, applied : SUBSET Nat]
Event == [id : Nat, run : Nat]
Steps == {"idle", "acquire", "load", "validate", "write", "events", "append",
          "list", "reindex"}

\* The event ids are the numbers of the rows, whatever the interleaving.
TypeOK ==
    /\ disk \in [Records -> Record]
    /\ log \in Seq(Event)
    /\ \A i \in 1..Len(log) : log[i].id = i
    /\ index \in [Records -> Nat]
    /\ lock \in Procs \cup {NoProc}
    /\ pc \in [Procs -> Steps]
    /\ job \in [Procs -> [command : Commands, run : Nat, at : Nat \ {0},
                          seen : [Records -> Record], events : Seq(Event),
                          rows : [Records -> Nat]]]
    /\ runs \in Nat /\ crashes \in Nat
    /\ base \in [disk : [Records -> Record], log : Seq(Event)]
    /\ saved \subseteq (1..runs) \X Records

\* Updates are not lost: a save that succeeded is still contained in the record,
\* however many commands saved the record since.
NoLostUpdate == \A s \in saved : s[1] \in disk[s[2]].applied

\* The event log says nothing that did not happen: a run that has an event has
\* saved every record of its plan, also when it has ended since, and no run has
\* two events.
EventsAreTrue ==
    /\ \A p \in Procs : pc[p] \in {"events", "append", "list", "reindex"} =>
            \A r \in FilesOf(job[p].command) : <<job[p].run, r>> \in saved
    /\ \A i, j \in 1..Len(log) : log[i].run = log[j].run => i = j
    /\ \A i \in 1..Len(log) : \E c \in Commands :
            \A r \in FilesOf(c) : <<log[i].run, r>> \in saved

\* Commands that exclude each other are atomic: seen from outside the lock, a
\* run is one step with all its records and its event, or a torn prefix.
Outside == IF lock = NoProc THEN [disk |-> disk, log |-> log] ELSE base
Ledger == INSTANCE AtomicLedger
            WITH store <- Outside.disk, log <- Outside.log, Runs <- 1..MaxRuns
ImplementsAtomicLedger == Ledger!Spec

\* Nobody keeps the lock: it comes free after every command, killed or not.
LockIsReleased == \A p \in Procs : lock = p ~> lock = NoProc

\* No row of the event log is ever changed or removed.
LogKeepsEvents ==
    [][Len(log) <= Len(log') /\ \A i \in 1..Len(log) : log'[i] = log[i]]_vars

=============================================================================
