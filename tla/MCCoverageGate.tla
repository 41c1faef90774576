---------------------------- MODULE MCCoverageGate ---------------------------
(* One release with one source ref; the third commit changes the changelog. *)
EXTENDS CoverageGate, TLC
CONSTANTS d1, d2, issue
MCDates == {d1, d2}
MCSourceRefs == {issue}
MCTouching == {3}
MCFound == {"no file"}
Sym == Permutations(MCDates)
=============================================================================
