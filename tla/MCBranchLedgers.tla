-------------------------- MODULE MCBranchLedgers -------------------------
(* BranchLedgers with two refs, two processes and two commits, from the    *)
(* beginning of a project and from two ledgers in use.                     *)
EXTENDS BranchLedgers, TLC

CONSTANTS main, feature, p1, p2, c1, c2

MCRefs == {main, feature}
MCProcs == {p1, p2}
MCCommits == {c1, c2}
MCSources == {{c1}, {c1, c2}, {}}

Processes == Permutations(MCProcs)

\* What release create and one entry add for each of owned leave in a ledger.
InUse(owned) ==
    [there |-> TRUE,
     release |-> [revision |-> Len(owned) + 1, count |-> Len(owned)],
     entries |-> [i \in Ids |-> IF i \in DOMAIN owned THEN owned[i] ELSE NoEntry],
     log |-> [i \in 1..(Len(owned) + 1) |-> <<0, i - 1>>]]

\* Main and a ledger that was started from it, each with entries of its own,
\* and three commands to go.
TwoInUse ==
    /\ \E here \in {<<>>, << {c1} >>}, there \in {<< {c1} >>, << {c1}, {c2} >>} :
          ledger = [r \in Refs |-> IF r = main THEN InUse(here) ELSE InUse(there)]
    /\ active = main
    /\ branch = main
    /\ lock = NoProc
    /\ pc = [p \in Procs |-> "idle"]
    /\ job = [p \in Procs |-> NoJob]
    /\ loose = {}
    /\ runs = 1
    /\ crashes = 0

MCInit == Init \/ TwoInUse
MCSpec == MCInit /\ [][Next]_vars
===========================================================================
