--------------------------- MODULE AtomicLedger ---------------------------
(* What a user of releaseledger may expect of commands that exclude each   *)
(* other: a command happens at once, all its records and one event, or,    *)
(* when it is killed or refused half-way, it leaves the first few of its   *)
(* records and no event.  The event log only grows.                        *)
EXTENDS Naturals, Sequences

CONSTANTS
    Records,    \* files a command may save
    Commands,   \* kinds of commands
    Plan,       \* command -> the records it saves, in order
    Runs        \* the runs of commands

\* A record holds the runs whose changes it contains, an event the run that
\* appended it.
VARIABLES store, log

avars == <<store, log>>

\* The records after run n saved those in S.
Saved(s, S, n) ==
    [r \in Records |->
        IF r \in S
        THEN [revision |-> s[r].revision + 1, applied |-> s[r].applied \cup {n}]
        ELSE s[r]]

FirstOf(c, k) == {Plan[c][i] : i \in 1..k}

Fresh(n) == \A r \in Records : n \notin store[r].applied

\* Nothing is there at first: a record of revision 0 is an absent file.
Init ==
    /\ store = [r \in Records |-> [revision |-> 0, applied |-> {}]]
    /\ log = <<>>

Commit(c, n) ==
    /\ Fresh(n)
    /\ store' = Saved(store, FirstOf(c, Len(Plan[c])), n)
    /\ log' = Append(log, [id |-> Len(log) + 1, run |-> n])

Torn(c, n, k) ==
    /\ Fresh(n)
    /\ store' = Saved(store, FirstOf(c, k), n)
    /\ UNCHANGED log

Next ==
    \E c \in Commands, n \in Runs :
        \/ Commit(c, n)
        \/ \E k \in 1..Len(Plan[c]) : Torn(c, n, k)

Spec == Init /\ [][Next]_avars

=============================================================================
