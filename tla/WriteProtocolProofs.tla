------------------------- MODULE WriteProtocolProofs -------------------------
(* What WriteProtocol's runs show of two processes, for any number of       *)
(* processes, commands and records.                                         *)
EXTENDS WriteProtocol, TLAPS

-----------------------------------------------------------------------------
(* The inductive invariant.                                                 *)

\* Where a command is, and what it has saved by then.
Position ==
    \A p \in Procs :
        /\ pc[p] # "idle" => job[p].run \in 1..runs
        /\ pc[p] = "acquire" => job[p].at = 1
        /\ pc[p] \in {"load", "validate", "write"} => job[p].at \in 1..Len(PlanOf(p))
        /\ pc[p] \in {"validate", "write"} =>
              \A i \in 1 .. job[p].at - 1 : <<job[p].run, PlanOf(p)[i]>> \in saved
        /\ pc[p] \in {"events", "append", "list", "reindex"} =>
              \A r \in FilesOf(job[p].command) : <<job[p].run, r>> \in saved

\* A run belongs to one process.
DistinctRuns ==
    \A p, q \in Procs :
        pc[p] # "idle" /\ pc[q] # "idle" /\ job[p].run = job[q].run => p = q

\* The steps of a command before its event is in the log.
Before == {"acquire", "load", "validate", "write", "events", "append"}

\* Rows of an event log, written or still to be written back: numbered, each of
\* a run that has saved all its records, no two of one run, none of a run whose
\* event is still to come.
True(rows, S, n, P, J) ==
    /\ \A i \in 1..Len(rows) : rows[i].id = i /\ rows[i].run \in 1..n
    /\ \A i \in 1..Len(rows) : \E c \in Commands :
            \A r \in FilesOf(c) : <<rows[i].run, r>> \in S
    /\ \A i, j \in 1..Len(rows) : rows[i].run = rows[j].run => i = j
    /\ \A i \in 1..Len(rows), p \in Procs : P[p] \in Before => J[p].run # rows[i].run

RowsAreTrue ==
    /\ True(log, saved, runs, pc, job)
    /\ \A p \in Procs : pc[p] = "append" => True(job[p].events, saved, runs, pc, job)

IInv == TypeOK /\ Position /\ DistinctRuns /\ RowsAreTrue

-----------------------------------------------------------------------------
LEMMA PlanType ==
    ASSUME NEW c \in Commands
    PROVE  /\ Plan[c] \in Seq(Records) /\ Len(Plan[c]) \in Nat \ {0}
           /\ \A i \in 1..Len(Plan[c]) : Plan[c][i] \in Records
BY ProtocolAssumption

LEMMA InitInv == Init => IInv
<1> SUFFICES ASSUME Init PROVE IInv
  OBVIOUS
<1>1. (CHOOSE c \in Commands : TRUE) \in Commands
  BY ProtocolAssumption
<1>2. TypeOK
  BY <1>1 DEF Init, TypeOK, Nothing, Absent, Record, Event, Steps, Job
<1>3. Position /\ DistinctRuns /\ RowsAreTrue
  BY DEF Init, Position, DistinctRuns, RowsAreTrue, True, Before
<1>4. QED
  BY <1>2, <1>3 DEF IInv

\* A step of one process.
ProcStep(p) == (\E c \in Commands : Start(p, c)) \/ Step(p) \/ Crash(p)

\* The target of a command that loads or saves is a record.
LEMMA TargetType ==
    ASSUME IInv, NEW p \in Procs, pc[p] \in {"load", "validate", "write"}
    PROVE  Target(p) \in Records
BY PlanType DEF IInv, TypeOK, Position, Target, PlanOf

JobSet == [command : Commands, run : Nat, at : Nat \ {0},
           seen : [Records -> Record], events : Seq(Event), rows : [Records -> Nat]]

LEMMA JobUpdateType ==
    ASSUME NEW j \in JobSet
    PROVE  /\ \A n \in Nat \ {0} : [j EXCEPT !.at = n] \in JobSet
           /\ \A n \in Nat \ {0}, s \in [Records -> Record] :
                 [j EXCEPT !.seen = s, !.at = n] \in JobSet
           /\ \A e \in Seq(Event) : [j EXCEPT !.events = e] \in JobSet
           /\ \A r \in [Records -> Nat] : [j EXCEPT !.rows = r] \in JobSet
BY DEF JobSet

LEMMA TypeStep == ASSUME IInv, NEW p \in Procs, ProcStep(p) PROVE TypeOK'
<1> USE DEF IInv, TypeOK, Steps
<1>0. job[p] \in JobSet
  BY DEF JobSet
<1>1. ASSUME NEW c \in Commands, Start(p, c) PROVE TypeOK'
  BY <1>1 DEF Start, Job, Nothing, Absent, Record, Event
<1>2. CASE Acquire(p)
  BY <1>2 DEF Acquire
<1>3. CASE LockTimeout(p)
  BY <1>3 DEF LockTimeout
<1>4. CASE Load(p)
  <2> DEFINE r == Target(p)
             seen == [job[p].seen EXCEPT ![r] = disk[r]]
             at == IF job[p].at = Len(PlanOf(p)) THEN 1 ELSE job[p].at + 1
             j == [job[p] EXCEPT !.seen = seen, !.at = at]
  <2>1. r \in Records
    BY <1>4, TargetType DEF Load
  <2>2. seen \in [Records -> Record] /\ at \in Nat \ {0}
    BY <2>1
  <2>3. j \in JobSet
    BY <1>0, <2>2, JobUpdateType
  <2>4. job' = [job EXCEPT ![p] = j]
    BY <1>4 DEF Load
  <2>5. job' \in [Procs -> JobSet]
    BY <2>3, <2>4 DEF JobSet
  <2>6. QED
    BY <1>4, <2>5 DEF Load, JobSet
<1>5. CASE Validate(p)
  BY <1>5 DEF Validate
<1>6. CASE Conflict(p)
  BY <1>6 DEF Conflict, End, Release
<1>7. CASE Write(p)
  <2> DEFINE r == Target(p)
             old == job[p].seen[r]
             new == [revision |-> old.revision + 1, applied |-> old.applied \cup {job[p].run}]
  <2>1. r \in Records /\ job[p].run \in 1..runs
    BY <1>7, TargetType DEF Write, Position
  <2>2. new \in Record
    BY <2>1 DEF Record
  <2>3. disk' \in [Records -> Record] /\ saved' \subseteq (1..runs) \X Records
    BY <1>7, <2>1, <2>2 DEF Write
  <2>4. [job[p] EXCEPT !.at = @ + 1] \in JobSet
    <3>1. job[p].at + 1 \in Nat \ {0}
      OBVIOUS
    <3>2. QED
      BY <1>0, <3>1, JobUpdateType
  <2>5. job' \in [Procs -> JobSet]
    BY <1>7, <2>4 DEF Write, JobSet
  <2>6. QED
    BY <1>7, <2>3, <2>5 DEF Write, AfterSave, JobSet
<1>8. CASE LoadEvents(p)
  <2>1. [job[p] EXCEPT !.events = log] \in JobSet
    BY <1>0, JobUpdateType
  <2>2. job' \in [Procs -> JobSet]
    BY <1>8, <2>1 DEF LoadEvents, JobSet
  <2>3. QED
    BY <1>8, <2>2 DEF LoadEvents, JobSet
<1>9. CASE AppendEvent(p)
  <2> DEFINE rows == job[p].events
             e == [id |-> Len(rows) + 1, run |-> job[p].run]
  <2>1. rows \in Seq(Event) /\ e \in Event
    BY DEF Event
  <2>2. \A i \in 1..Len(rows) : rows[i].id = i
    BY <1>9 DEF AppendEvent, RowsAreTrue, True
  <2>3. log' = Append(rows, e)
    BY <1>9 DEF AppendEvent, NextId
  <2>4. log' \in Seq(Event) /\ \A i \in 1..Len(log') : log'[i].id = i
    BY <2>1, <2>2, <2>3
  <2>5. QED
    BY <1>9, <2>4 DEF AppendEvent
<1>10. CASE ListRecords(p)
  <2>1. IndexRows(p) \in [Records -> Nat]
    BY DEF IndexRows, Record
  <2>2. [job[p] EXCEPT !.rows = IndexRows(p)] \in JobSet
    BY <1>0, <2>1, JobUpdateType
  <2>3. job' \in [Procs -> JobSet]
    BY <1>10, <2>2 DEF ListRecords, JobSet
  <2>4. QED
    BY <1>10, <2>3 DEF ListRecords, JobSet
<1>11. CASE WriteIndex(p)
  BY <1>11 DEF WriteIndex, End, Release
<1>12. CASE Crash(p)
  BY <1>12 DEF Crash, End, Release
<1>13. QED
  BY <1>1, <1>2, <1>3, <1>4, <1>5, <1>6, <1>7, <1>8, <1>9, <1>10, <1>11, <1>12 DEF ProcStep, Step

\* A step never takes a process back to a step before its event, other than by
\* starting a run with a new number.
Forward(p) ==
    /\ saved \subseteq saved' /\ runs \in Nat /\ runs' \in Nat /\ runs <= runs'
    /\ \A q \in Procs \ {p} : pc'[q] = pc[q] /\ job'[q] = job[q]
    /\ pc'[p] # "idle" =>
          \/ /\ pc[p] # "idle" /\ (pc'[p] \in Before => pc[p] \in Before)
             /\ job'[p].run = job[p].run /\ job'[p].command = job[p].command
          \/ pc[p] = "idle" /\ runs' = runs + 1 /\ job'[p].run = runs + 1

LEMMA StepsForward == ASSUME IInv, NEW p \in Procs, ProcStep(p) PROVE Forward(p)
<1> USE DEF IInv, TypeOK, Before, Forward
<1>1. ASSUME NEW c \in Commands, Start(p, c)
      PROVE  /\ saved' = saved /\ runs' = runs + 1
             /\ pc[p] = "idle" /\ \A q \in Procs \ {p} : pc'[q] = pc[q] /\ job'[q] = job[q]
             /\ job'[p].run = runs + 1
  BY <1>1 DEF Start, Job
<1>2. CASE Load(p)
  BY <1>2 DEF Load
<1>3. CASE Write(p)
  BY <1>3 DEF Write, AfterSave
<1>4. CASE LoadEvents(p) \/ AppendEvent(p) \/ ListRecords(p)
  BY <1>4 DEF LoadEvents, AppendEvent, ListRecords
<1>5. CASE Acquire(p) \/ LockTimeout(p) \/ Validate(p) \/ Conflict(p) \/ WriteIndex(p) \/ Crash(p)
  BY <1>5 DEF Acquire, LockTimeout, Validate, Conflict, WriteIndex, Crash, End
<1>6. QED
  BY <1>1, <1>2, <1>3, <1>4, <1>5 DEF ProcStep, Step

LEMMA PositionStep == ASSUME IInv, NEW p \in Procs, ProcStep(p) PROVE Position'
<1>0. TypeOK /\ Forward(p)
  BY StepsForward DEF IInv
<1> DEFINE At(q) ==
        /\ pc[q] # "idle" => job[q].run \in 1..runs
        /\ pc[q] = "acquire" => job[q].at = 1
        /\ pc[q] \in {"load", "validate", "write"} => job[q].at \in 1..Len(PlanOf(q))
        /\ pc[q] \in {"validate", "write"} =>
              \A i \in 1 .. job[q].at - 1 : <<job[q].run, PlanOf(q)[i]>> \in saved
        /\ pc[q] \in {"events", "append", "list", "reindex"} =>
              \A r \in FilesOf(job[q].command) : <<job[q].run, r>> \in saved
<1>1. \A q \in Procs : At(q)
  BY DEF Position, IInv
<1>2. ASSUME NEW q \in Procs \ {p} PROVE At(q)'
  <2>1. /\ pc'[q] = pc[q] /\ job'[q] = job[q] /\ saved \subseteq saved'
        /\ runs \in Nat /\ runs' \in Nat /\ runs <= runs'
    BY <1>0 DEF Forward
  <2>2. QED
    BY <1>1, <2>1 DEF PlanOf
<1>3. At(p)'
  <2> USE <1>0 DEF TypeOK
  <2>1. ASSUME NEW c \in Commands, Start(p, c) PROVE At(p)'
    BY <2>1, PlanType DEF Start, Job, PlanOf
  <2>2. CASE Load(p)
    <3>1. /\ job'[p].run = job[p].run /\ PlanOf(p)' = PlanOf(p) /\ saved' = saved /\ runs' = runs
          /\ job'[p].at = IF job[p].at = Len(PlanOf(p)) THEN 1 ELSE job[p].at + 1
          /\ pc'[p] = IF job[p].at = Len(PlanOf(p)) THEN "validate" ELSE "load"
      BY <2>2 DEF Load, PlanOf
    <3>2. Len(PlanOf(p)) \in Nat \ {0} /\ job[p].at \in 1..Len(PlanOf(p)) /\ job[p].run \in 1..runs
      BY <1>1, <2>2, PlanType DEF Load, PlanOf
    <3>3. QED
      BY <3>1, <3>2
  <2>3. CASE Write(p)
    <3>1. job'[p].run = job[p].run /\ job'[p].command = job[p].command /\ job'[p].at = job[p].at + 1
      BY <2>3 DEF Write
    <3>2. job[p].at \in 1..Len(PlanOf(p)) /\ Len(PlanOf(p)) \in Nat
      BY <1>1, <2>3, PlanType DEF Write, PlanOf
    <3>3. \A i \in 1..job[p].at : <<job[p].run, PlanOf(p)[i]>> \in saved'
      BY <1>1, <2>3, <3>2 DEF Write, Target
    <3>4. CASE job[p].at = Len(PlanOf(p))
      BY <1>1, <2>3, <3>1, <3>3, <3>4 DEF Write, AfterSave, FilesOf, PlanOf
    <3>5. CASE job[p].at # Len(PlanOf(p))
      BY <1>1, <2>3, <3>1, <3>2, <3>3, <3>5 DEF Write, AfterSave, PlanOf
    <3>6. QED
      BY <3>4, <3>5
  <2>4. CASE LoadEvents(p) \/ AppendEvent(p) \/ ListRecords(p)
    <3>1. /\ pc[p] \in {"events", "append", "list"} /\ pc'[p] \in {"append", "list", "reindex"}
          /\ job'[p].run = job[p].run /\ job'[p].command = job[p].command
          /\ saved' = saved /\ runs' = runs
      BY <2>4 DEF LoadEvents, AppendEvent, ListRecords
    <3>2. QED
      BY <1>1, <3>1
  <2>5. CASE Acquire(p)
    <3>1. Len(PlanOf(p)) \in Nat \ {0}
      BY PlanType DEF PlanOf
    <3>2. QED
      BY <1>1, <2>5, <3>1 DEF Acquire, PlanOf
  <2>8. CASE Validate(p)
    BY <1>1, <2>8 DEF Validate, PlanOf
  <2>6. CASE LockTimeout(p) \/ Conflict(p) \/ WriteIndex(p) \/ Crash(p)
    BY <2>6 DEF LockTimeout, Conflict, WriteIndex, Crash, End
  <2>7. QED
    BY <2>1, <2>2, <2>3, <2>4, <2>5, <2>6, <2>8 DEF ProcStep, Step
<1>4. QED
  BY <1>2, <1>3 DEF Position

LEMMA DistinctStep == ASSUME IInv, NEW p \in Procs, ProcStep(p) PROVE DistinctRuns'
<1>0. TypeOK /\ Position /\ DistinctRuns /\ Forward(p)
  BY StepsForward DEF IInv
<1> SUFFICES ASSUME NEW q \in Procs, NEW o \in Procs, q # o,
                    pc'[q] # "idle", pc'[o] # "idle", job'[q].run = job'[o].run
             PROVE  FALSE
  BY DEF DistinctRuns
<1>1. \A x \in Procs : pc[x] # "idle" => job[x].run \in 1..runs
  BY <1>0 DEF Position
<1>2. CASE q # p /\ o # p
  BY <1>0, <1>2 DEF Forward, DistinctRuns
<1>3. ASSUME NEW x \in Procs \ {p}, pc'[p] # "idle", pc'[x] # "idle"
      PROVE  job'[p].run # job'[x].run
  <2>1. pc[x] # "idle" /\ job'[x].run = job[x].run /\ job[x].run \in 1..runs
    BY <1>0, <1>1, <1>3 DEF Forward
  <2>2. CASE pc[p] # "idle"
    BY <1>0, <1>3, <2>1, <2>2 DEF Forward, DistinctRuns
  <2>3. CASE pc[p] = "idle"
    <3>1. job'[p].run = runs + 1 /\ runs \in Nat
      BY <1>0, <1>3, <2>3 DEF Forward
    <3>2. QED
      BY <2>1, <3>1
  <2>4. QED
    BY <2>2, <2>3
<1>4. QED
  BY <1>2, <1>3

LEMMA RowsStep == ASSUME IInv, NEW p \in Procs, ProcStep(p) PROVE RowsAreTrue'
<1> USE DEF IInv, TypeOK
<1>0. Forward(p)
  BY StepsForward
<1>1. \A q \in Procs : pc'[q] \in Before =>
          (pc[q] \in Before /\ job'[q].run = job[q].run) \/ job'[q].run > runs
  BY <1>0 DEF Forward, Before
<1>2. ASSUME NEW rows, True(rows, saved, runs, pc, job)
      PROVE  True(rows, saved', runs', pc', job')
  <2>1. saved \subseteq saved' /\ runs \in Nat /\ runs' \in Nat /\ runs <= runs'
    BY <1>0 DEF Forward
  <2>2. \A i \in 1..Len(rows) : rows[i].id = i /\ rows[i].run \in 1..runs /\ rows[i].run \in 1..runs'
    BY <1>2, <2>1 DEF True
  <2>3. \A i \in 1..Len(rows) : \E c \in Commands :
                \A r \in FilesOf(c) : <<rows[i].run, r>> \in saved'
    BY <1>2, <2>1 DEF True
  <2>4. \A i \in 1..Len(rows), q \in Procs : pc'[q] \in Before => job'[q].run # rows[i].run
    <3> SUFFICES ASSUME NEW i \in 1..Len(rows), NEW q \in Procs, pc'[q] \in Before
                 PROVE  job'[q].run # rows[i].run
      OBVIOUS
    <3>1. CASE pc[q] \in Before /\ job'[q].run = job[q].run
      BY <1>2, <3>1 DEF True
    <3>2. CASE job'[q].run > runs
      BY <2>1, <2>2, <3>2
    <3>3. QED
      BY <1>1, <3>1, <3>2
  <2>5. QED
    BY <1>2, <2>2, <2>3, <2>4 DEF True
<1>3. CASE AppendEvent(p)
  <2> DEFINE rows == job[p].events
             e == [id |-> Len(rows) + 1, run |-> job[p].run]
  <2>1. log' = Append(rows, e) /\ pc' = [pc EXCEPT ![p] = "list"]
        /\ saved' = saved /\ runs' = runs /\ job' = job /\ pc[p] = "append"
    BY <1>3 DEF AppendEvent, NextId
  <2>2. True(rows, saved, runs, pc, job) /\ rows \in Seq(Event)
    BY <2>1 DEF RowsAreTrue
  <2>3. \A i \in 1..Len(rows) : rows[i].run # job[p].run
    BY <2>1, <2>2 DEF True, Before
  <2>4. job[p].run \in 1..runs
        /\ \E c \in Commands : \A r \in FilesOf(c) : <<job[p].run, r>> \in saved
    <3>1. \A r \in FilesOf(job[p].command) : <<job[p].run, r>> \in saved
      BY <2>1 DEF Position
    <3>2. job[p].command \in Commands
      OBVIOUS
    <3>3. QED
      BY <2>1, <3>1, <3>2 DEF Position
  <2>5. \A q \in Procs : pc'[q] \in Before => job[q].run # job[p].run
    BY <2>1 DEF DistinctRuns, Before
  <2>6. True(log', saved', runs', pc', job')
    <3>1. Len(log') = Len(rows) + 1 /\ log'[Len(rows) + 1] = e
          /\ \A i \in 1..Len(rows) : log'[i] = rows[i]
      BY <2>1, <2>2
    <3>2. True(rows, saved', runs', pc', job')
      BY <1>2, <2>2
    <3>3. e.id = Len(rows) + 1 /\ e.run = job[p].run
      OBVIOUS
    <3>4. \A i \in 1..Len(log') : /\ log'[i].id = i /\ log'[i].run \in 1..runs'
                                  /\ \E c \in Commands :
                                        \A r \in FilesOf(c) : <<log'[i].run, r>> \in saved'
      <4> SUFFICES ASSUME NEW i \in 1..Len(log')
                   PROVE  /\ log'[i].id = i /\ log'[i].run \in 1..runs'
                          /\ \E c \in Commands :
                                 \A r \in FilesOf(c) : <<log'[i].run, r>> \in saved'
        OBVIOUS
      <4>1. CASE i \in 1..Len(rows)
        BY <3>1, <3>2, <4>1 DEF True
      <4>2. CASE i = Len(rows) + 1
        BY <2>1, <2>4, <3>1, <3>3, <4>2
      <4>3. QED
        BY <2>2, <3>1, <4>1, <4>2
    <3>5. \A i, j \in 1..Len(log') : log'[i].run = log'[j].run => i = j
      <4>1. \A i, j \in 1..Len(rows) : log'[i].run = log'[j].run => i = j
        BY <3>1, <3>2 DEF True
      <4>2. \A i \in 1..Len(rows) : log'[i].run # log'[Len(rows) + 1].run
        BY <2>3, <3>1, <3>3
      <4>3. \A i \in 1..Len(log') : i \in 1..Len(rows) \/ i = Len(rows) + 1
        BY <2>2, <3>1
      <4>4. QED
        BY <4>1, <4>2, <4>3
    <3>6. \A i \in 1..Len(log'), q \in Procs : pc'[q] \in Before => job'[q].run # log'[i].run
      BY <2>1, <2>2, <2>5, <3>1, <3>2, <3>3 DEF True
    <3>7. QED
      BY <3>4, <3>5, <3>6 DEF True
  <2>7. \A q \in Procs : pc'[q] = "append" => True(job'[q].events, saved', runs', pc', job')
    BY <1>2, <2>1 DEF RowsAreTrue
  <2>8. QED
    BY <2>6, <2>7 DEF RowsAreTrue
<1>4. CASE LoadEvents(p)
  <2>1. log' = log /\ True(log', saved', runs', pc', job')
    BY <1>2, <1>4 DEF LoadEvents, RowsAreTrue
  <2>2. job'[p].events = log
    BY <1>4 DEF LoadEvents
  <2>3. \A q \in Procs \ {p} : pc'[q] = "append" => True(job'[q].events, saved', runs', pc', job')
    BY <1>0, <1>2 DEF Forward, RowsAreTrue
  <2>4. QED
    BY <2>1, <2>2, <2>3 DEF RowsAreTrue
<1>5. ASSUME log' = log, pc'[p] # "append" PROVE RowsAreTrue'
  <2>1. \A q \in Procs : pc'[q] = "append" => pc[q] = "append" /\ job'[q] = job[q]
    BY <1>0, <1>5 DEF Forward
  <2>2. QED
    BY <1>2, <1>5, <2>1 DEF RowsAreTrue
<1>6. CASE ~AppendEvent(p) /\ ~LoadEvents(p)
  <2>1. log' = log /\ pc'[p] # "append"
    BY <1>6 DEF ProcStep, Start, Step, Crash, End, Acquire, LockTimeout, Load, Validate, Conflict,
                Write, AfterSave, ListRecords, WriteIndex
  <2>2. QED
    BY <1>5, <2>1
<1>7. QED
  BY <1>3, <1>4, <1>6

LEMMA NextInv == IInv /\ [Next]_vars => IInv'
<1> SUFFICES ASSUME IInv, [Next]_vars PROVE IInv'
  OBVIOUS
<1>1. CASE Next
  <2>1. PICK p \in Procs : ProcStep(p)
    BY <1>1 DEF Next, ProcStep
  <2>2. QED
    BY <2>1, TypeStep, PositionStep, DistinctStep, RowsStep DEF IInv
<1>2. CASE UNCHANGED vars
  BY <1>2 DEF vars, IInv, TypeOK, Position, PlanOf, DistinctRuns, RowsAreTrue, True
<1>3. QED
  BY <1>1, <1>2

-----------------------------------------------------------------------------
\* Every variable keeps its type, and the event ids are the numbers of the rows,
\* whatever processes, commands and interleavings there are.
THEOREM TypeCorrect == Spec => []TypeOK
<1>1. Spec => []IInv
  BY InitInv, NextInv, PTL DEF Spec
<1>2. IInv => TypeOK
  BY DEF IInv
<1>3. QED
  BY <1>1, <1>2, PTL

\* The event log tells of nothing that did not happen, with or without the lock,
\* for any plans: a run with an event has saved all its records, and has one.
THEOREM EventsTellTheTruth == Spec => []EventsAreTrue
<1>1. Spec => []IInv
  BY InitInv, NextInv, PTL DEF Spec
<1>2. IInv => EventsAreTrue
  BY DEF IInv, Position, RowsAreTrue, True, EventsAreTrue
<1>3. QED
  BY <1>1, <1>2, PTL

-----------------------------------------------------------------------------
(* When every command runs under the write lock, nothing that was saved is  *)
(* lost and the ledger is the atomic one of AtomicLedger, for any number of *)
(* processes, commands, records and kills.  The inductive invariant.        *)

\* Whoever is past the lock holds it.
Critical(p) == pc[p] \notin {"idle", "acquire"}
Exclusive == \A p \in Procs : Critical(p) <=> lock = p

\* What a command has loaded and not yet saved is what is on disk.
SeenIsCurrent ==
    \A p \in Procs :
        /\ pc[p] = "load" =>
              \A i \in 1 .. job[p].at - 1 : job[p].seen[PlanOf(p)[i]] = disk[PlanOf(p)[i]]
        /\ pc[p] \in {"validate", "write"} =>
              \A i \in job[p].at .. Len(PlanOf(p)) :
                  job[p].seen[PlanOf(p)[i]] = disk[PlanOf(p)[i]]

LInv == IInv /\ Exclusive /\ SeenIsCurrent /\ NoLostUpdate

-----------------------------------------------------------------------------
LEMMA LockedInit == Init => LInv
<1> SUFFICES ASSUME Init PROVE LInv
  OBVIOUS
<1>1. IInv
  BY InitInv
<1>2. Exclusive /\ SeenIsCurrent /\ NoLostUpdate
  BY ProtocolAssumption DEF Init, Exclusive, Critical, SeenIsCurrent, NoLostUpdate
<1>3. QED
  BY <1>1, <1>2 DEF LInv

LEMMA ExclusiveStep ==
    ASSUME Locking = Commands, LInv, NEW p \in Procs, ProcStep(p)
    PROVE  Exclusive'
<1>0. TypeOK /\ Exclusive
  BY DEF LInv, IInv
<1>1. \A q \in Procs \ {p} : pc'[q] = pc[q]
  BY StepsForward DEF LInv, Forward
<1> USE <1>0, ProtocolAssumption DEF TypeOK, Exclusive, Critical, Steps
<1>2. ASSUME NEW c \in Commands, Start(p, c) PROVE Exclusive'
  BY <1>1, <1>2 DEF Start
<1>3. CASE Acquire(p)
  BY <1>1, <1>3 DEF Acquire
<1>4. CASE LockTimeout(p)
  BY <1>1, <1>4 DEF LockTimeout
<1>5. CASE Load(p) \/ Validate(p) \/ Write(p) \/ LoadEvents(p) \/ AppendEvent(p) \/ ListRecords(p)
  <2>1. pc[p] \notin {"idle", "acquire"} /\ pc'[p] \notin {"idle", "acquire"} /\ lock' = lock
    BY <1>5 DEF Load, Validate, Write, AfterSave, LoadEvents, AppendEvent, ListRecords
  <2>2. QED
    BY <1>1, <2>1
<1>6. CASE Conflict(p) \/ WriteIndex(p) \/ Crash(p)
  <2>1. pc'[p] = "idle" /\ lock' = Release(p)
    BY <1>6 DEF Conflict, WriteIndex, Crash, End
  <2>2. QED
    BY <1>1, <2>1 DEF Release
<1>7. QED
  BY <1>2, <1>3, <1>4, <1>5, <1>6 DEF ProcStep, Step

\* Only the holder of the lock changes a record or the log.
LEMMA OnlyTheHolderWrites ==
    ASSUME LInv, NEW p \in Procs, ProcStep(p), disk' # disk \/ log' # log
    PROVE  Critical(p)
BY DEF ProcStep, Step, Start, Acquire, LockTimeout, Load, Validate, Conflict, Write, LoadEvents,
       AppendEvent, ListRecords, WriteIndex, Crash, Critical

\* The step of a save: the record as it is on disk, one revision later.
LEMMA WriteKeepsWhatIsThere ==
    ASSUME LInv, NEW p \in Procs, Write(p)
    PROVE  /\ Target(p) \in Records /\ job[p].at \in 1..Len(PlanOf(p))
           /\ disk' = [disk EXCEPT ![Target(p)] =
                          [revision |-> disk[Target(p)].revision + 1,
                           applied |-> disk[Target(p)].applied \cup {job[p].run}]]
<1>1. pc[p] = "write"
  BY DEF Write
<1>2. job[p].at \in 1..Len(PlanOf(p)) /\ Target(p) \in Records
  BY <1>1, TargetType DEF LInv, IInv, Position
<1>3. job[p].at \in job[p].at .. Len(PlanOf(p))
  BY <1>2, PlanType DEF LInv, IInv, TypeOK, PlanOf
<1>4. job[p].seen[Target(p)] = disk[Target(p)]
  BY <1>1, <1>3 DEF LInv, SeenIsCurrent, Target
<1>5. QED
  BY <1>2, <1>4 DEF Write

LEMMA SeenStep ==
    ASSUME Locking = Commands, LInv, NEW p \in Procs, ProcStep(p)
    PROVE  SeenIsCurrent'
<1> DEFINE Current(q) ==
        /\ pc[q] = "load" =>
              \A i \in 1 .. job[q].at - 1 : job[q].seen[PlanOf(q)[i]] = disk[PlanOf(q)[i]]
        /\ pc[q] \in {"validate", "write"} =>
              \A i \in job[q].at .. Len(PlanOf(q)) :
                  job[q].seen[PlanOf(q)[i]] = disk[PlanOf(q)[i]]
<1>0. TypeOK /\ Exclusive /\ Position /\ Exclusive' /\ Forward(p)
  BY ExclusiveStep, StepsForward DEF LInv, IInv
<1>1. \A q \in Procs : Current(q)
  BY DEF LInv, SeenIsCurrent
<1>2. ASSUME NEW q \in Procs \ {p} PROVE Current(q)'
  <2>1. pc'[q] = pc[q] /\ job'[q] = job[q] /\ PlanOf(q)' = PlanOf(q)
    BY <1>0 DEF Forward, PlanOf
  <2>2. CASE disk' = disk
    BY <1>1, <2>1, <2>2
  <2>3. CASE disk' # disk
    <3>1. Critical(p)
      BY <2>3, OnlyTheHolderWrites
    <3>2. ~Critical(q)
      BY <1>0, <3>1 DEF Exclusive
    <3>3. QED
      BY <2>1, <3>2 DEF Critical
  <2>4. QED
    BY <2>2, <2>3
<1>3. Current(p)'
  <2> USE <1>0 DEF TypeOK
  <2>1. ASSUME NEW c \in Commands, Start(p, c) PROVE Current(p)'
    <3>1. pc'[p] = "acquire"
      BY <2>1 DEF Start
    <3>2. QED
      BY <3>1
  <2>2. CASE Acquire(p)
    <3>1. job'[p].at = 1 /\ pc'[p] = "load"
      BY <2>2 DEF Acquire, Position
    <3>2. QED
      BY <3>1
  <2>3. CASE Load(p)
    <3> DEFINE at == job[p].at
               n == Len(PlanOf(p))
    <3>1. at \in 1..n /\ n \in Nat /\ \A i \in 1..n : PlanOf(p)[i] \in Records
      BY <2>3, PlanType DEF Load, Position, PlanOf
    <3>2. /\ PlanOf(p)' = PlanOf(p) /\ disk' = disk
          /\ job'[p].seen = [job[p].seen EXCEPT ![PlanOf(p)[at]] = disk[PlanOf(p)[at]]]
          /\ job'[p].at = IF at = n THEN 1 ELSE at + 1
          /\ pc'[p] = IF at = n THEN "validate" ELSE "load"
      BY <2>3 DEF Load, PlanOf, Target
    <3>3. \A i \in 1 .. at - 1 : job[p].seen[PlanOf(p)[i]] = disk[PlanOf(p)[i]]
      BY <1>1, <2>3 DEF Load
    <3>4. job[p].seen \in [Records -> Record]
      OBVIOUS
    <3>5. \A i \in 1..at : job'[p].seen[PlanOf(p)[i]] = disk[PlanOf(p)[i]]
      <4> SUFFICES ASSUME NEW i \in 1..at
                   PROVE  job'[p].seen[PlanOf(p)[i]] = disk[PlanOf(p)[i]]
        OBVIOUS
      <4>1. PlanOf(p)[i] \in Records /\ PlanOf(p)[at] \in Records
        BY <3>1
      <4>2. CASE PlanOf(p)[i] = PlanOf(p)[at]
        BY <3>2, <3>4, <4>1, <4>2
      <4>3. CASE PlanOf(p)[i] # PlanOf(p)[at]
        <5>1. i \in 1 .. at - 1
          BY <3>1, <4>3
        <5>2. QED
          BY <3>2, <3>3, <3>4, <4>1, <4>3, <5>1
      <4>4. QED
        BY <4>2, <4>3
    <3>6. QED
      BY <3>1, <3>2, <3>5
  <2>4. CASE Validate(p)
    <3>1. /\ pc[p] = "validate" /\ pc'[p] = "write" /\ job'[p] = job[p] /\ disk' = disk
          /\ PlanOf(p)' = PlanOf(p)
      BY <2>4 DEF Validate, PlanOf
    <3>2. QED
      BY <1>1, <3>1
  <2>5. CASE Write(p)
    <3> DEFINE at == job[p].at
               n == Len(PlanOf(p))
    <3>1. at \in 1..n /\ n \in Nat /\ Target(p) = PlanOf(p)[at]
      BY <2>5, WriteKeepsWhatIsThere, PlanType DEF PlanOf, Target
    <3>2. /\ PlanOf(p)' = PlanOf(p) /\ job'[p].seen = job[p].seen /\ job'[p].at = at + 1
          /\ pc'[p] \in {"events", "validate"} /\ pc[p] = "write"
          /\ \A r \in Records : r # PlanOf(p)[at] => disk'[r] = disk[r]
      BY <2>5, <3>1 DEF Write, AfterSave, PlanOf
    <3>3. \A i \in at + 1 .. n : PlanOf(p)[i] \in Records /\ PlanOf(p)[i] # PlanOf(p)[at]
      <4>1. job[p].command \in Commands
        OBVIOUS
      <4>2. \A i, j \in 1..n : PlanOf(p)[i] = PlanOf(p)[j] => i = j
        BY <4>1, ProtocolAssumption DEF PlanOf
      <4>3. QED
        BY <3>1, <4>1, <4>2, PlanType DEF PlanOf
    <3>4. \A i \in at + 1 .. n : job[p].seen[PlanOf(p)[i]] = disk[PlanOf(p)[i]]
      BY <1>1, <3>1, <3>2
    <3>5. QED
      BY <3>1, <3>2, <3>3, <3>4
  <2>6. CASE \/ LockTimeout(p) \/ Conflict(p) \/ WriteIndex(p) \/ Crash(p)
             \/ LoadEvents(p) \/ AppendEvent(p) \/ ListRecords(p)
    <3>1. pc'[p] \in {"idle", "append", "list", "reindex"}
      BY <2>6 DEF LockTimeout, Conflict, WriteIndex, Crash, End, LoadEvents, AppendEvent, ListRecords
    <3>2. QED
      BY <3>1
  <2>7. QED
    BY <2>1, <2>2, <2>3, <2>4, <2>5, <2>6 DEF ProcStep, Step
<1>4. QED
  BY <1>2, <1>3 DEF SeenIsCurrent

LEMMA NothingLostStep ==
    ASSUME LInv, NEW p \in Procs, ProcStep(p)
    PROVE  NoLostUpdate'
<1>0. TypeOK /\ NoLostUpdate
  BY DEF LInv, IInv
<1>1. CASE Write(p)
  <2> DEFINE r == Target(p)
  <2>1. r \in Records /\ disk \in [Records -> Record] /\ saved \subseteq (1..runs) \X Records
    BY <1>0, <1>1, WriteKeepsWhatIsThere DEF TypeOK
  <2>2. disk' = [disk EXCEPT ![r] = [revision |-> disk[r].revision + 1,
                                     applied |-> disk[r].applied \cup {job[p].run}]]
    BY <1>1, WriteKeepsWhatIsThere
  <2>3. job[p].run \in disk'[r].applied
        /\ \A x \in Records : disk[x].applied \subseteq disk'[x].applied
    BY <2>1, <2>2
  <2>4. saved' = saved \cup {<<job[p].run, r>>}
    BY <1>1 DEF Write
  <2>5. ASSUME NEW s \in saved PROVE s[1] \in disk'[s[2]].applied
    BY <1>0, <2>1, <2>3 DEF NoLostUpdate
  <2>6. QED
    BY <2>3, <2>4, <2>5 DEF NoLostUpdate
<1>2. CASE ~Write(p)
  <2>1. disk' = disk /\ saved' = saved
    BY <1>2 DEF ProcStep, Step, Start, Acquire, LockTimeout, Load, Validate, Conflict, LoadEvents,
                AppendEvent, ListRecords, WriteIndex, Crash
  <2>2. QED
    BY <1>0, <2>1 DEF NoLostUpdate
<1>3. QED
  BY <1>1, <1>2

LEMMA LockedNext ==
    ASSUME Locking = Commands
    PROVE  LInv /\ [Next]_vars => LInv'
<1> SUFFICES ASSUME LInv, [Next]_vars PROVE LInv'
  OBVIOUS
<1>1. IInv'
  BY NextInv DEF LInv
<1>2. CASE Next
  <2>1. PICK p \in Procs : ProcStep(p)
    BY <1>2 DEF Next, ProcStep
  <2>2. QED
    BY <1>1, <2>1, ExclusiveStep, SeenStep, NothingLostStep DEF LInv
<1>3. CASE UNCHANGED vars
  BY <1>1, <1>3 DEF vars, LInv, Exclusive, Critical, SeenIsCurrent, PlanOf, NoLostUpdate
<1>4. QED
  BY <1>2, <1>3

-----------------------------------------------------------------------------
\* When every command takes the write lock, a save that succeeded is contained
\* in the record for good, whatever is saved, refused or killed afterwards.
THEOREM LockedCommandsLoseNothing ==
    ASSUME Locking = Commands
    PROVE  Spec => []NoLostUpdate
<1>1. Spec => []LInv
  BY LockedInit, LockedNext, PTL DEF Spec
<1>2. LInv => NoLostUpdate
  BY DEF LInv
<1>3. QED
  BY <1>1, <1>2, PTL

-----------------------------------------------------------------------------
(* The holder's ledger, seen from before it took the lock.                   *)

\* How many records of its plan a command has saved.
Done(p) == IF pc[p] = "load" THEN 0 ELSE job[p].at - 1

Logged(p) == pc[p] \in {"list", "reindex"}

\* The records are those at the time the lock was taken, the first few saved by
\* this run, which is new to them; the log has its event at the end or not yet.
Torn(p) ==
    /\ pc[p] \in {"events", "append", "list", "reindex"} => job[p].at = Len(PlanOf(p)) + 1
    /\ disk = Ledger!Saved(base.disk, Ledger!FirstOf(job[p].command, Done(p)), job[p].run)
    /\ \A r \in Records : job[p].run \notin base.disk[r].applied
    /\ log = IF Logged(p)
             THEN Append(base.log, [id |-> Len(base.log) + 1, run |-> job[p].run])
             ELSE base.log
    /\ pc[p] = "append" => job[p].events = log

TornByTheHolder == \A p \in Procs : Critical(p) => Torn(p)

\* A record contains runs that have saved it only, and a command that waits for
\* the lock has saved nothing.
AppliedIsSaved == \A r \in Records : \A n \in disk[r].applied : <<n, r>> \in saved
WaitingSavedNothing ==
    \A p \in Procs : pc[p] = "acquire" => \A s \in saved : s[1] # job[p].run

AInv == LInv /\ runs <= MaxRuns /\ AppliedIsSaved /\ WaitingSavedNothing /\ TornByTheHolder

LEMMA AtomicInit == Init => AInv
<1> SUFFICES ASSUME Init PROVE AInv
  OBVIOUS
<1>1. LInv
  BY LockedInit
<1>2. runs <= MaxRuns /\ AppliedIsSaved /\ WaitingSavedNothing /\ TornByTheHolder
  BY ProtocolAssumption DEF Init, Nothing, Absent, AppliedIsSaved, WaitingSavedNothing,
     TornByTheHolder, Critical
<1>3. QED
  BY <1>1, <1>2 DEF AInv

LEMMA BoundStep ==
    ASSUME AInv, NEW p \in Procs, ProcStep(p)
    PROVE  runs' <= MaxRuns
<1>1. runs \in Nat /\ runs <= MaxRuns /\ MaxRuns \in Nat
  BY ProtocolAssumption DEF AInv, LInv, IInv, TypeOK
<1>2. runs' = runs \/ (runs < MaxRuns /\ runs' = runs + 1)
  BY DEF ProcStep, Step, Start, Acquire, LockTimeout, Load, Validate, Conflict, Write, LoadEvents,
     AppendEvent, ListRecords, WriteIndex, Crash
<1>3. QED
  BY <1>1, <1>2

\* What a step other than a save leaves alone.
LEMMA NoSaveNoChange ==
    ASSUME NEW p \in Procs, ProcStep(p), ~Write(p)
    PROVE  disk' = disk /\ saved' = saved
BY DEF ProcStep, Step, Start, Acquire, LockTimeout, Load, Validate, Conflict, LoadEvents,
   AppendEvent, ListRecords, WriteIndex, Crash

LEMMA AppliedStep ==
    ASSUME AInv, NEW p \in Procs, ProcStep(p)
    PROVE  AppliedIsSaved'
<1>0. TypeOK /\ AppliedIsSaved /\ LInv
  BY DEF AInv, LInv, IInv
<1>1. CASE Write(p)
  <2> DEFINE t == Target(p)
  <2>1. t \in Records /\ disk \in [Records -> Record]
    BY <1>0, <1>1, WriteKeepsWhatIsThere DEF TypeOK
  <2>2. disk' = [disk EXCEPT ![t] = [revision |-> disk[t].revision + 1,
                                     applied |-> disk[t].applied \cup {job[p].run}]]
    BY <1>0, <1>1, WriteKeepsWhatIsThere
  <2>3. saved' = saved \cup {<<job[p].run, t>>}
    BY <1>1 DEF Write
  <2>4. ASSUME NEW r \in Records, NEW n \in disk'[r].applied PROVE <<n, r>> \in saved'
    BY <1>0, <2>1, <2>2, <2>3, <2>4 DEF AppliedIsSaved
  <2>5. QED
    BY <2>4 DEF AppliedIsSaved
<1>2. CASE ~Write(p)
  BY <1>0, <1>2, NoSaveNoChange DEF AppliedIsSaved
<1>3. QED
  BY <1>1, <1>2

LEMMA WaitingStep ==
    ASSUME AInv, NEW p \in Procs, ProcStep(p)
    PROVE  WaitingSavedNothing'
<1>0. TypeOK /\ WaitingSavedNothing /\ DistinctRuns /\ Forward(p) /\ IInv
  BY StepsForward DEF AInv, LInv, IInv
<1> SUFFICES ASSUME NEW q \in Procs, pc'[q] = "acquire", NEW s \in saved'
             PROVE  s[1] # job'[q].run
  BY DEF WaitingSavedNothing
<1>1. CASE q # p
  <2>1. pc[q] = "acquire" /\ job'[q] = job[q]
    BY <1>0, <1>1 DEF Forward
  <2>2. CASE Write(p)
    <3>1. pc[p] = "write" /\ saved' = saved \cup {<<job[p].run, Target(p)>>}
      BY <2>2 DEF Write
    <3>2. job[p].run # job[q].run
      BY <1>0, <1>1, <2>1, <3>1 DEF DistinctRuns
    <3>3. QED
      BY <1>0, <2>1, <3>1, <3>2 DEF WaitingSavedNothing
  <2>3. CASE ~Write(p)
    BY <1>0, <2>1, <2>3, NoSaveNoChange DEF WaitingSavedNothing
  <2>4. QED
    BY <2>2, <2>3
<1>2. CASE q = p
  <2>1. PICK c \in Commands : Start(p, c)
    BY <1>0, <1>2 DEF TypeOK, ProcStep, Step, Acquire, LockTimeout, Load, Validate, Conflict, Write,
       AfterSave, LoadEvents, AppendEvent, ListRecords, WriteIndex, Crash, End
  <2>2. job'[p].run = runs + 1 /\ saved' = saved
    BY <1>0, <2>1 DEF Start, Job, TypeOK
  <2>3. s[1] \in 1..runs /\ runs \in Nat
    BY <1>0, <2>2 DEF TypeOK
  <2>4. QED
    BY <1>2, <2>2, <2>3
<1>3. QED
  BY <1>1, <1>2

\* What a step other than taking the lock, a save and an event leaves alone.
LEMMA QuietSteps ==
    ASSUME NEW p \in Procs, ProcStep(p)
    PROVE  /\ ~Write(p) => disk' = disk
           /\ ~AppendEvent(p) => log' = log
           /\ ~Acquire(p) => base' = base
BY DEF ProcStep, Step, Start, Acquire, LockTimeout, Load, Validate, Conflict, Write, LoadEvents,
   AppendEvent, ListRecords, WriteIndex, Crash

\* Taking the lock: nothing is saved yet, and the run is new to every record.
LEMMA TornAcquired ==
    ASSUME AInv, NEW p \in Procs, Acquire(p)
    PROVE  Torn(p)'
<1>0. TypeOK /\ AppliedIsSaved /\ WaitingSavedNothing
  BY DEF AInv, LInv, IInv
<1>1. /\ pc[p] = "acquire" /\ pc'[p] = "load" /\ job' = job /\ saved' = saved
      /\ disk' = disk /\ log' = log /\ base' = [disk |-> disk, log |-> log]
  BY <1>0 DEF Acquire, TypeOK
<1>2. base'.disk = disk' /\ base'.log = log' /\ disk' \in [Records -> Record]
  BY <1>0, <1>1 DEF TypeOK
<1>3. Ledger!FirstOf(job'[p].command, 0) = {}
  BY DEF Ledger!FirstOf
<1>4. Ledger!Saved(base'.disk, {}, job'[p].run) = disk'
  BY <1>2 DEF Ledger!Saved
<1>5. \A r \in Records : job'[p].run \notin base'.disk[r].applied
  BY <1>0, <1>1, <1>2 DEF AppliedIsSaved, WaitingSavedNothing
<1>6. Done(p)' = 0 /\ ~Logged(p)'
  BY <1>1 DEF Done, Logged
<1>7. QED
  BY <1>1, <1>2, <1>3, <1>4, <1>5, <1>6 DEF Torn

\* A save is one record more.
LEMMA TornWritten ==
    ASSUME AInv, NEW p \in Procs, Write(p), Torn(p)
    PROVE  Torn(p)'
<1> DEFINE c == job[p].command
           at == job[p].at
           n == Len(Plan[c])
           t == Plan[c][at]
           run == job[p].run
           old == Ledger!FirstOf(c, at - 1)
           new == Ledger!FirstOf(c, at)
<1>0. TypeOK /\ LInv /\ base.disk \in [Records -> Record] /\ c \in Commands
  BY DEF AInv, LInv, IInv, TypeOK
<1>1. /\ pc[p] = "write" /\ pc'[p] = AfterSave(p) /\ base' = base /\ log' = log
      /\ job'[p].at = at + 1 /\ job'[p].run = run /\ job'[p].command = c
  BY <1>0 DEF Write, TypeOK
<1>2. at \in 1..n /\ n \in Nat /\ t \in Records /\ Target(p) = t
  BY <1>0, WriteKeepsWhatIsThere, PlanType DEF PlanOf, Target
<1>3. disk' = [disk EXCEPT ![t] = [revision |-> disk[t].revision + 1,
                                   applied |-> disk[t].applied \cup {run}]]
  BY <1>0, <1>2, WriteKeepsWhatIsThere
<1>4. disk = Ledger!Saved(base.disk, old, run)
  BY <1>1 DEF Torn, Done
<1>5. t \notin old /\ new = old \cup {t}
  <2>1. \A i \in 1 .. at - 1 : Plan[c][i] # t
    BY <1>0, <1>2, ProtocolAssumption
  <2>2. 1..at = (1 .. at - 1) \cup {at}
    BY <1>2
  <2>3. QED
    BY <2>1, <2>2 DEF Ledger!FirstOf
<1>6. disk' = Ledger!Saved(base.disk, new, run)
  <2>1. disk[t] = base.disk[t]
    BY <1>2, <1>4, <1>5 DEF Ledger!Saved
  <2>2. \A r \in Records : r # t => disk'[r] = disk[r] /\ (r \in new <=> r \in old)
    BY <1>0, <1>2, <1>3, <1>5 DEF TypeOK
  <2>3. disk'[t] = [revision |-> base.disk[t].revision + 1,
                    applied |-> base.disk[t].applied \cup {run}]
    BY <1>0, <1>2, <1>3, <2>1 DEF TypeOK
  <2>4. disk' \in [Records -> Record]
    <3>1. IInv'
      BY <1>0, NextInv DEF Next, Step, LInv
    <3>2. QED
      BY <3>1 DEF IInv, TypeOK
  <2>5. \A r \in Records : disk'[r] = Ledger!Saved(base.disk, new, run)[r]
    BY <1>2, <1>4, <1>5, <2>2, <2>3 DEF Ledger!Saved
  <2>6. QED
    BY <2>4, <2>5 DEF Ledger!Saved
<1>7. pc'[p] = (IF at = n THEN "events" ELSE "validate") /\ PlanOf(p)' = Plan[c]
  BY <1>1 DEF AfterSave, PlanOf
<1>8. Done(p)' = at /\ ~Logged(p) /\ ~Logged(p)'
  BY <1>1, <1>2, <1>7 DEF Done, Logged
<1>9. QED
  BY <1>1, <1>2, <1>6, <1>7, <1>8 DEF Torn

\* The other steps of the holder.
LEMMA TornOnward ==
    ASSUME AInv, NEW p \in Procs, Torn(p),
           Load(p) \/ Validate(p) \/ LoadEvents(p) \/ AppendEvent(p) \/ ListRecords(p)
    PROVE  Torn(p)'
<1>0. TypeOK /\ Position
  BY DEF AInv, LInv, IInv
<1>1. /\ disk' = disk /\ base' = base /\ PlanOf(p)' = PlanOf(p)
      /\ job'[p].run = job[p].run /\ job'[p].command = job[p].command
  BY <1>0 DEF Load, Validate, LoadEvents, AppendEvent, ListRecords, PlanOf, TypeOK
<1>2. Done(p)' = Done(p) /\ (~Load(p) => job'[p].at = job[p].at)
  <2>1. CASE Load(p)
    BY <1>0, <2>1 DEF Load, Done, TypeOK
  <2>2. CASE Validate(p) \/ LoadEvents(p) \/ AppendEvent(p) \/ ListRecords(p)
    BY <1>0, <2>2 DEF Validate, LoadEvents, AppendEvent, ListRecords, Done, TypeOK
  <2>3. QED
    BY <2>1, <2>2 DEF Load, Validate, LoadEvents, AppendEvent, ListRecords
<1>3. CASE Load(p) \/ Validate(p)
  <2>1. log' = log /\ ~Logged(p) /\ pc'[p] \in {"load", "validate", "write"}
    BY <1>0, <1>3 DEF Load, Validate, Logged, TypeOK
  <2>2. QED
    BY <1>1, <1>2, <2>1 DEF Torn, Logged
<1>4. CASE LoadEvents(p)
  <2>1. log' = log /\ pc[p] = "events" /\ pc'[p] = "append" /\ job'[p].events = log
    BY <1>0, <1>4 DEF LoadEvents, TypeOK
  <2>2. job'[p].at = job[p].at
    BY <1>0, <1>4 DEF LoadEvents, TypeOK
  <2>3. QED
    BY <1>1, <1>2, <2>1, <2>2 DEF Torn, Logged
<1>5. CASE AppendEvent(p)
  <2>1. pc[p] = "append" /\ pc'[p] = "list" /\ job' = job
        /\ log' = Append(job[p].events, [id |-> Len(job[p].events) + 1, run |-> job[p].run])
    BY <1>0, <1>5 DEF AppendEvent, NextId, TypeOK
  <2>2. job[p].events = base.log
    BY <2>1 DEF Torn, Logged
  <2>3. QED
    BY <1>1, <1>2, <2>1, <2>2 DEF Torn, Logged
<1>6. CASE ListRecords(p)
  <2>1. log' = log /\ pc[p] = "list" /\ pc'[p] = "reindex" /\ job'[p].at = job[p].at
    BY <1>0, <1>6 DEF ListRecords, TypeOK
  <2>2. QED
    BY <1>1, <1>2, <2>1 DEF Torn, Logged
<1>7. QED
  BY <1>3, <1>4, <1>5, <1>6

LEMMA TornStep ==
    ASSUME Locking = Commands, AInv, NEW p \in Procs, ProcStep(p)
    PROVE  TornByTheHolder'
<1>0. TypeOK /\ Exclusive /\ Exclusive' /\ Forward(p) /\ TornByTheHolder /\ LInv
  BY ExclusiveStep, StepsForward DEF AInv, LInv, IInv
<1> SUFFICES ASSUME NEW q \in Procs, Critical(q)' PROVE Torn(q)'
  BY DEF TornByTheHolder
<1>1. CASE q # p
  <2>1. pc'[q] = pc[q] /\ job'[q] = job[q] /\ Critical(q)
    BY <1>0, <1>1 DEF Forward, Critical
  <2>2. lock = q /\ ~Critical(p)
    BY <1>0, <1>1, <2>1 DEF Exclusive
  <2>3. ~Acquire(p)
    BY <2>2, ProtocolAssumption DEF Acquire
  <2>4. ~Write(p) /\ ~AppendEvent(p)
    BY <2>2 DEF Write, AppendEvent, Critical
  <2>5. disk' = disk /\ log' = log /\ base' = base
    BY <2>3, <2>4, QuietSteps
  <2>6. Torn(q)
    BY <1>0, <2>1 DEF TornByTheHolder
  <2>7. Done(q)' = Done(q) /\ Logged(q)' = Logged(q) /\ PlanOf(q)' = PlanOf(q)
    BY <2>1 DEF Done, Logged, PlanOf
  <2>8. QED
    BY <2>1, <2>5, <2>6, <2>7 DEF Torn
<1>2. CASE q = p
  <2>1. CASE Acquire(p)
    BY <1>2, <2>1, TornAcquired
  <2>2. CASE Write(p) \/ Load(p) \/ Validate(p) \/ LoadEvents(p) \/ AppendEvent(p) \/ ListRecords(p)
    <3>1. Critical(p)
      BY <2>2 DEF Write, Load, Validate, LoadEvents, AppendEvent, ListRecords, Critical
    <3>2. Torn(p)
      BY <1>0, <3>1 DEF TornByTheHolder
    <3>3. QED
      BY <1>2, <2>2, <3>2, TornWritten, TornOnward
  <2>3. CASE (\E c \in Commands : Start(p, c)) \/ LockTimeout(p) \/ Conflict(p) \/ WriteIndex(p) \/ Crash(p)
    <3>1. pc'[p] \in {"idle", "acquire"}
      BY <1>0, <2>3 DEF Start, LockTimeout, Conflict, WriteIndex, Crash, End, TypeOK
    <3>2. QED
      BY <1>2, <3>1 DEF Critical
  <2>4. QED
    BY <2>1, <2>2, <2>3 DEF ProcStep, Step
<1>3. QED
  BY <1>1, <1>2

LEMMA AtomicNext ==
    ASSUME Locking = Commands
    PROVE  AInv /\ [Next]_vars => AInv'
<1> SUFFICES ASSUME AInv, [Next]_vars PROVE AInv'
  OBVIOUS
<1>1. LInv'
  BY LockedNext DEF AInv
<1>2. CASE Next
  <2>1. PICK p \in Procs : ProcStep(p)
    BY <1>2 DEF Next, ProcStep
  <2>2. QED
    BY <1>1, <2>1, BoundStep, AppliedStep, WaitingStep, TornStep DEF AInv
<1>3. CASE UNCHANGED vars
  <2>1. AppliedIsSaved' /\ WaitingSavedNothing' /\ runs' <= MaxRuns
    BY <1>3 DEF vars, AInv, AppliedIsSaved, WaitingSavedNothing
  <2>2. TornByTheHolder'
    BY <1>3 DEF vars, AInv, TornByTheHolder, Critical, Torn, Done, Logged, PlanOf
  <2>3. QED
    BY <1>1, <2>1, <2>2 DEF AInv
<1>4. QED
  BY <1>2, <1>3

-----------------------------------------------------------------------------
(* The refinement.                                                           *)

\* The holder leaves: its run is done, torn, or nothing has happened.
LEMMA LeavingIsAtomic ==
    ASSUME AInv, NEW p \in Procs, lock = p, Torn(p), Critical(p),
           lock' = NoProc, disk' = disk, log' = log
    PROVE  Ledger!Next \/ UNCHANGED Ledger!avars
<1> DEFINE c == job[p].command
           run == job[p].run
           n == Len(Plan[c])
           k == Done(p)
<1>0. TypeOK /\ Position /\ runs <= MaxRuns /\ base.disk \in [Records -> Record]
  BY DEF AInv, LInv, IInv, TypeOK
<1>1. Outside = base /\ Outside' = [disk |-> disk, log |-> log]
  BY ProtocolAssumption DEF Outside
<1>2. c \in Commands /\ n \in Nat \ {0} /\ PlanOf(p) = Plan[c]
  BY <1>0, PlanType DEF TypeOK, PlanOf
<1>3. run \in 1..MaxRuns
  <2>1. run \in 1..runs /\ runs \in Nat /\ MaxRuns \in Nat
    BY <1>0, ProtocolAssumption DEF Position, Critical, TypeOK
  <2>2. QED
    BY <1>0, <2>1
<1>4. Ledger!Fresh(run)
  BY <1>1 DEF Ledger!Fresh, Torn
<1>5. Outside'.disk = Ledger!Saved(Outside.disk, Ledger!FirstOf(c, k), run)
  BY <1>1 DEF Torn
<1>6. k \in 0..n /\ (pc[p] \in {"events", "append", "list", "reindex"} => k = n)
  <2>1. pc[p] \in {"load", "validate", "write", "events", "append", "list", "reindex"}
    BY <1>0 DEF TypeOK, Steps, Critical
  <2>2. CASE pc[p] = "load"
    BY <1>2, <2>2 DEF Done
  <2>3. CASE pc[p] \in {"validate", "write"}
    BY <1>0, <1>2, <2>3 DEF Done, Position
  <2>4. CASE pc[p] \in {"events", "append", "list", "reindex"}
    BY <1>2, <2>4 DEF Done, Torn
  <2>5. QED
    BY <2>1, <2>2, <2>3, <2>4
<1>7. CASE Logged(p)
  <2>1. k = n
    BY <1>6, <1>7 DEF Logged
  <2>2. Outside'.log = Append(Outside.log, [id |-> Len(Outside.log) + 1, run |-> run])
    BY <1>1, <1>7 DEF Torn
  <2>3. Ledger!Commit(c, run)
    BY <1>4, <1>5, <2>1, <2>2 DEF Ledger!Commit
  <2>4. QED
    BY <1>2, <1>3, <2>3 DEF Ledger!Next
<1>8. CASE ~Logged(p) /\ k # 0
  <2>1. Outside'.log = Outside.log
    BY <1>1, <1>8 DEF Torn
  <2>2. Ledger!Torn(c, run, k)
    BY <1>4, <1>5, <2>1 DEF Ledger!Torn
  <2>3. k \in 1..n
    BY <1>2, <1>6, <1>8
  <2>4. QED
    BY <1>2, <1>3, <2>2, <2>3 DEF Ledger!Next
<1>9. CASE ~Logged(p) /\ k = 0
  <2>1. Outside'.log = Outside.log
    BY <1>1, <1>9 DEF Torn
  <2>2. Ledger!FirstOf(c, k) = {}
    BY <1>9 DEF Ledger!FirstOf
  <2>3. Outside'.disk = Outside.disk
    BY <1>0, <1>1, <1>5, <2>2 DEF Ledger!Saved
  <2>4. QED
    BY <2>1, <2>3 DEF Ledger!avars
<1>10. QED
  BY <1>7, <1>8, <1>9

LEMMA StepRefines ==
    ASSUME Locking = Commands, AInv, [Next]_vars
    PROVE  [Ledger!Next]_Ledger!avars
<1>0. TypeOK /\ Exclusive /\ TornByTheHolder /\ LInv
  BY DEF AInv, LInv, IInv
<1>1. ASSUME Outside' = Outside PROVE [Ledger!Next]_Ledger!avars
  BY <1>1 DEF Ledger!avars
<1>2. CASE Next
  <2>1. PICK p \in Procs : ProcStep(p)
    BY <1>2 DEF Next, ProcStep
  <2>2. CASE Acquire(p)
    <3>1. Outside' = Outside
      BY <2>2, ProtocolAssumption DEF Acquire, Outside
    <3>2. QED
      BY <1>1, <3>1
  <2>3. CASE Write(p) \/ AppendEvent(p)
    <3>1. lock = p /\ lock' = lock /\ base' = base
      BY <1>0, <2>3 DEF Write, AppendEvent, Exclusive, Critical
    <3>2. Outside' = Outside
      BY <3>1, ProtocolAssumption DEF Outside
    <3>3. QED
      BY <1>1, <3>2
  <2>4. CASE ~Acquire(p) /\ ~Write(p) /\ ~AppendEvent(p)
    <3>1. disk' = disk /\ log' = log /\ base' = base
      BY <2>1, <2>4, QuietSteps
    <3>2. CASE lock' = lock
      <4>1. Outside' = Outside
        BY <3>1, <3>2 DEF Outside
      <4>2. QED
        BY <1>1, <4>1
    <3>3. CASE lock' # lock
      <4>1. lock = p /\ lock' = NoProc
        BY <2>1, <2>4, <3>3 DEF ProcStep, Step, Start, LockTimeout, Load, Validate, Conflict,
           LoadEvents, ListRecords, WriteIndex, Crash, End, Release
      <4>2. Critical(p) /\ Torn(p)
        BY <1>0, <4>1 DEF Exclusive, TornByTheHolder
      <4>3. QED
        BY <3>1, <4>1, <4>2, LeavingIsAtomic
    <3>4. QED
      BY <3>2, <3>3
  <2>5. QED
    BY <2>2, <2>3, <2>4
<1>3. CASE UNCHANGED vars
  <2>1. Outside' = Outside
    BY <1>3 DEF vars, Outside
  <2>2. QED
    BY <1>1, <2>1
<1>4. QED
  BY <1>2, <1>3

LEMMA InitRefines == Init => Ledger!Init
BY DEF Init, Ledger!Init, Outside, Nothing, Absent

\* When every command takes the write lock, what is seen from outside the lock is
\* the atomic ledger: whole runs with their event, torn prefixes without one.
THEOREM LockedCommandsAreAtomic ==
    ASSUME Locking = Commands
    PROVE  Spec => ImplementsAtomicLedger
<1>1. Spec => []AInv
  BY AtomicInit, AtomicNext, PTL DEF Spec
<1>2. AInv /\ [Next]_vars => [Ledger!Next]_Ledger!avars
  BY StepRefines
<1>3. QED
  BY <1>1, <1>2, InitRefines, PTL DEF Spec, ImplementsAtomicLedger, Ledger!Spec

=============================================================================
