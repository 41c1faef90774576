-------------------------- MODULE BundleMoveProofs --------------------------
(* Renaming a release for any entries and any number of runs, failures and   *)
(* kills: the source is never lost, a replacement that fails is undone, and  *)
(* the event of a rename is true.                                            *)
EXTENDS BundleMove, TLAPS

-----------------------------------------------------------------------------
(* The inductive invariant.                                                  *)

\* The steps of a replacement before and after the source is moved away.
Before == {"copy", "target away", "flag target", "put", "source away"}
After == {"flag source", "remove target", "remove source"}
\* The steps of the command when the bundle is in place.
Placed == {"release", "entries", "audit", "successors", "event", "changelog"}
Undo == Undoing \cup {"cleanup"}

Typed ==
    /\ dirs \in [Dirs -> Bundle \cup {NoDir}] /\ base \in [Dirs -> Bundle \cup {NoDir}]
    /\ successor \in {"old", "new"} /\ section \in {"old", "new"}
    /\ events \subseteq 1..MaxRuns
    /\ pc \in Steps
    /\ loaded \subseteq Files \ {"release"}
    /\ targetMoved \in BOOLEAN /\ sourceMoved \in BOOLEAN
    /\ errors \in Nat /\ kills \in Nat
    /\ run \in 0..MaxRuns /\ (pc # "idle" => run # 0)
    /\ failed \subseteq Steps
    /\ stale \in File \cup {Gone} /\ overwritten \in BOOLEAN

\* The hidden directories of a run that has not begun do not exist.
Hidden(n) == {Staged(n), TargetBackup(n), SourceBackup(n)}
Fresh == \A n \in 1..MaxRuns : n > run => \A d \in Hidden(n) : dirs[d] = NoDir

\* What is left in the old directory, or in a backup of it, is the source's.
OnlySource(d) == \A f \in Files : dirs[d] = NoDir \/ dirs[d][f] = Gone \/ dirs[d][f].of = "source"
SourcePlaces == OnlySource(Old) /\ \A n \in 1..MaxRuns : OnlySource(SourceBackup(n))

\* Where the whole source is at a step.
HasSource(d) ==
    /\ Exists(d)
    /\ \A f \in Its : dirs[d][f] # Gone /\ dirs[d][f].of = "source"

SourceHeld ==
    /\ pc \in Before \cup {"rename"} => HasSource(Old)
    /\ pc \in {"target away", "flag target", "put"} => HasSource(Staged(run))
    /\ pc \in Placed \cup After \cup {"source away"} => HasSource(New)
    /\ pc \in {"flag source", "remove target"} => HasSource(SourceBackup(run))
    /\ pc \in Undo /\ "remove source" \notin failed =>
          HasSource(Old) \/ HasSource(SourceBackup(run))
    /\ pc \in Before \cup After => failed = {}
    /\ pc = "idle" => SourceRecoverable

\* What of the rename is done at a step.
Says(d, S) == \A f \in S : dirs[d][f] = [of |-> "source", says |-> "new"]
Records == Its \ {"audit"}

Done ==
    /\ pc \in {"target away", "flag target", "put"} => Says(Staged(run), Records)
    /\ pc \in {"source away", "audit"} \cup After => Says(New, Records)
    /\ pc = "entries" => Says(New, {"release"})
    /\ pc \in {"successors", "event"} => Says(New, Its)
    /\ pc \in Placed \cup After => ~Exists(Old)
    /\ pc = "event" => successor = "new"

\* The directories that a step of a replacement works on.
Present ==
    /\ pc \in {"copy", "target away"} => Exists(New)
    /\ pc \in {"flag target", "put", "source away", "flag source", "remove target"} =>
          Exists(TargetBackup(run))
    /\ pc \in After => Exists(SourceBackup(run))

\* What a replacement, and its undo, can still put back: the source, the release
\* that it displaces, of which a removal may leave a part, and every other directory.
Kept(d) ==
    /\ Exists(d)
    /\ IF "remove target" \in failed \cup {pc}
       THEN \A f \in Files : dirs[d][f] \in {base[New][f], Gone} ELSE dirs[d] = base[New]

SourceBack ==
    \/ pc \notin After /\ dirs[SourceBackup(run)] = NoDir /\ dirs[Old] = base[Old]
    \/ /\ pc \in After \cup {"undo source"}
       /\ dirs[SourceBackup(run)] = base[Old] /\ dirs[Old] = NoDir
       /\ sourceMoved \/ pc = "flag source"

TargetBack ==
    \/ /\ pc \in {"copy", "target away"} \cup Undo
       /\ dirs[New] = base[New] /\ dirs[TargetBackup(run)] = NoDir /\ ~targetMoved
    \/ /\ pc \notin {"copy", "target away", "cleanup"}
       /\ Kept(TargetBackup(run))
       /\ targetMoved \/ dirs[New] = NoDir
       /\ pc \in {"flag target", "put", "undo backup"} => dirs[New] = NoDir
       /\ pc \notin {"flag target"} \cup Undo => targetMoved
    \/ pc = "cleanup" /\ Kept(New) /\ dirs[TargetBackup(run)] = NoDir

OthersBack ==
    /\ base[Old] # NoDir /\ base[New] # NoDir
    /\ \A d \in Hidden(run) : base[d] = NoDir
    /\ \A d \in Dirs \ (Hidden(run) \cup {Old, New}) : dirs[d] = base[d]

\* As long as no step of the undo has failed, nor one that the undo cannot know of.
CanUndo ==
    /\ pc \in Before \cup (After \ {"remove source"}) \cup Undo
    /\ failed \subseteq Guarded \ {"flag source", "remove source"}
Undoable == CanUndo => OthersBack /\ SourceBack /\ TargetBack

IInv == Typed /\ Fresh /\ SourcePlaces /\ SourceHeld /\ Done /\ Present /\ Undoable

-----------------------------------------------------------------------------
(* Directories.                                                              *)

LEMMA Distinct ==
    ASSUME NEW n \in 1..MaxRuns
    PROVE  /\ Old \in Dirs /\ New \in Dirs /\ Old # New
           /\ Staged(n) \in Dirs \ {Old, New} /\ TargetBackup(n) \in Dirs \ {Old, New}
           /\ SourceBackup(n) \in Dirs \ {Old, New}
           /\ Staged(n) # TargetBackup(n) /\ Staged(n) # SourceBackup(n)
           /\ TargetBackup(n) # SourceBackup(n)
           /\ \A m \in 1..MaxRuns : m # n => Hidden(m) \cap Hidden(n) = {}
BY DEF Old, New, Staged, TargetBackup, SourceBackup, Dirs, Hidden

LEMMA Bundles ==
    /\ NoDir \notin Bundle /\ Gone \notin File /\ "release" \in Files /\ "audit" \in Files
    /\ \A e \in Entries : e \in Files /\ e # "release" /\ e # "audit"
BY AbsentAssumption, BundleMoveAssumption DEF Files

\* A directory is renamed.
LEMMA RenameEffect ==
    ASSUME Typed, NEW d \in Dirs, NEW e \in Dirs, d # e, dirs' = Renamed(d, e)
    PROVE  /\ dirs' \in [Dirs -> Bundle \cup {NoDir}]
           /\ dirs'[e] = dirs[d] /\ dirs'[d] = NoDir
           /\ \A x \in Dirs \ {d, e} : dirs'[x] = dirs[x]
BY DEF Typed, Renamed

\* A file of a directory is written.
LEMMA FileWritten ==
    ASSUME Typed, NEW d \in Dirs, NEW f \in Files, NEW of \in {"source", "displaced"},
           NEW says \in {"old", "new"}, Exists(d), dirs' = Written(d, f, of, says)
    PROVE  /\ dirs' \in [Dirs -> Bundle \cup {NoDir}]
           /\ dirs'[d] \in Bundle
           /\ \A g \in Files : dirs'[d][g] = IF g = f THEN [of |-> of, says |-> says]
                                             ELSE dirs[d][g]
           /\ \A x \in Dirs \ {d} : dirs'[x] = dirs[x]
<1> DEFINE file == [of |-> of, says |-> says]
           new == [dirs[d] EXCEPT ![f] = file]
<1>1. dirs[d] \in Bundle /\ file \in File
  BY DEF Typed, Exists, File
<1> HIDE DEF file
<1>2. new \in Bundle /\ \A g \in Files : new[g] = IF g = f THEN file ELSE dirs[d][g]
  BY <1>1 DEF Bundle
<1>3. dirs' = [dirs EXCEPT ![d] = new]
  BY DEF Written, file
<1> HIDE DEF new
<1>4. QED
  BY <1>2, <1>3 DEF Typed, file

\* One file of a directory is removed, or the directory when it is empty.
LEMMA RemoveEffect ==
    ASSUME Typed, NEW d \in Dirs, NEW from, NEW to, Exists(d), RemoveStep(from, d, to)
    PROVE  /\ dirs' \in [Dirs -> Bundle \cup {NoDir}]
           /\ pc = from
           /\ \/ pc' = from /\ dirs'[d] \in Bundle
                 /\ \A f \in Files : dirs'[d][f] \in {dirs[d][f], Gone}
              \/ pc' = to /\ dirs'[d] = NoDir
           /\ \A x \in Dirs \ {d} : dirs'[x] = dirs[x]
           /\ UNCHANGED <<others, targetMoved, sourceMoved>>
<1>1. dirs[d] \in Bundle
  BY DEF Typed, Exists
<1>2. CASE pc' = to /\ dirs' = [dirs EXCEPT ![d] = NoDir]
  BY <1>2 DEF Typed, RemoveStep
<1>3. ASSUME NEW f \in Files, pc' = from,
             dirs' = [dirs EXCEPT ![d] = [dirs[d] EXCEPT ![f] = Gone]]
      PROVE  /\ dirs' \in [Dirs -> Bundle \cup {NoDir}]
             /\ dirs'[d] \in Bundle /\ \A g \in Files : dirs'[d][g] \in {dirs[d][g], Gone}
             /\ \A x \in Dirs \ {d} : dirs'[x] = dirs[x]
  <2> DEFINE new == [dirs[d] EXCEPT ![f] = Gone]
  <2>1. new \in Bundle /\ \A g \in Files : new[g] \in {dirs[d][g], Gone}
    BY <1>1 DEF Bundle
  <2>2. dirs' = [dirs EXCEPT ![d] = new]
    BY <1>3
  <2> HIDE DEF new
  <2>3. QED
    BY <2>1, <2>2 DEF Typed
<1>4. QED
  BY <1>2, <1>3 DEF RemoveStep, Goto

\* What the copy holds.
LEMMA CopyEffect ==
    ASSUME Typed, SourceHeld, Copy
    PROVE  LET d == Staged(run) IN
           /\ dirs' \in [Dirs -> Bundle \cup {NoDir}]
           /\ dirs'[d] \in Bundle
           /\ \A f \in Records : dirs'[d][f] = [of |-> "source", says |-> "new"]
           /\ "audit" \in loaded => dirs'[d]["audit"] = dirs[Old]["audit"]
           /\ \A x \in Dirs \ {d} : dirs'[x] = dirs[x]
<1> DEFINE d == Staged(run)
           new == [f \in Files |-> IF f = "release" \/ (f \in Entries /\ dirs[Old][f] # Gone)
                                   THEN [of |-> "source", says |-> "new"] ELSE dirs[Old][f]]
<1>1. run \in 1..MaxRuns /\ pc = "copy"
  <2>1. pc = "copy"
    BY DEF Copy
  <2>2. QED
    BY <2>1, BundleMoveAssumption DEF Typed
<1>2. d \in Dirs /\ d # Old /\ Old \in Dirs
  BY <1>1, Distinct
<1>3. dirs[Old] \in Bundle /\ HasSource(Old)
  BY <1>1, <1>2 DEF Typed, SourceHeld, Before, HasSource, Its, Exists
<1>4. [of |-> "source", says |-> "new"] \in File
  BY DEF File
<1>5. new \in Bundle
  BY <1>3, <1>4 DEF Bundle
<1>6. \A f \in Records : new[f] = [of |-> "source", says |-> "new"]
  BY <1>3 DEF HasSource, Its, Records, Typed, Files
<1>7. new["audit"] = dirs[Old]["audit"]
  BY Bundles
<1>8. dirs' = [dirs EXCEPT ![d] = new]
  BY DEF Copy, Copied
<1> HIDE DEF new
<1>9. QED
  BY <1>2, <1>5, <1>6, <1>7, <1>8 DEF Typed

-----------------------------------------------------------------------------
(* The steps.                                                                *)

\* The directories of the command at hand.
LEMMA Working ==
    ASSUME Typed, pc # "idle"
    PROVE  /\ run \in 1..MaxRuns
           /\ Old \in Dirs /\ New \in Dirs /\ Old # New
           /\ Staged(run) \in Dirs \ {Old, New} /\ TargetBackup(run) \in Dirs \ {Old, New}
           /\ SourceBackup(run) \in Dirs \ {Old, New}
           /\ Staged(run) # TargetBackup(run) /\ Staged(run) # SourceBackup(run)
           /\ TargetBackup(run) # SourceBackup(run)
<1>1. run \in 1..MaxRuns
  BY BundleMoveAssumption DEF Typed
<1>2. QED
  BY <1>1, Distinct

\* A step that touches no directory but the two of the release and its own.
LEMMA OthersKept ==
    ASSUME Typed, Fresh, SourcePlaces, pc # "idle", run' = run,
           \A x \in Dirs \ (Hidden(run) \cup {Old, New}) : dirs'[x] = dirs[x],
           OnlySource(Old)', (OnlySource(SourceBackup(run)))'
    PROVE  Fresh' /\ SourcePlaces'
<1>1. run \in 1..MaxRuns
  BY Working
<1>2. ASSUME NEW n \in 1..MaxRuns, n # run
      PROVE  \A d \in Hidden(n) : dirs'[d] = dirs[d]
  BY <1>1, <1>2, Distinct DEF Hidden
<1>3. Fresh'
  BY <1>1, <1>2 DEF Fresh
<1>4. ASSUME NEW n \in 1..MaxRuns
      PROVE  OnlySource(SourceBackup(n))'
  <2>1. CASE n = run
    BY <2>1
  <2>2. CASE n # run
    BY <1>2, <2>2 DEF SourcePlaces, OnlySource, Hidden
  <2>3. QED
    BY <2>1, <2>2
<1>5. QED
  BY <1>3, <1>4 DEF SourcePlaces

\* A step that touches no directory at all.
LEMMA NothingMoved ==
    ASSUME Fresh, SourcePlaces, UNCHANGED <<dirs, run>>
    PROVE  Fresh' /\ SourcePlaces'
BY DEF Fresh, SourcePlaces, OnlySource

\* As long as the command runs the source is somewhere.
LEMMA HeldIsRecoverable == Typed /\ SourceHeld => SourceRecoverable
<1> SUFFICES ASSUME Typed, SourceHeld, "remove source" \notin failed, pc # "idle"
             PROVE  SourceWhole
  BY DEF SourceRecoverable, SourceHeld
<1>1. HasSource(Old) \/ HasSource(New) \/ HasSource(SourceBackup(run))
  BY DEF Typed, SourceHeld, Steps, Before, After, Placed, Undo, Undoing
<1>2. QED
  BY <1>1, Working DEF HasSource, Its, SourceWhole

LEMMA StartStep ==
    ASSUME IInv, NEW replacing \in BOOLEAN, Start(replacing)
    PROVE  IInv'
<1>1. /\ pc = "idle" /\ run < MaxRuns /\ run' = run + 1 /\ run' \in 1..MaxRuns
      /\ pc' = (IF replacing THEN "copy" ELSE "rename")
      /\ dirs' = dirs /\ base' = dirs /\ failed' = {}
      /\ UNCHANGED <<successor, section, events, errors, kills>>
      /\ targetMoved' = FALSE /\ sourceMoved' = FALSE
      /\ loaded' = {f \in Files \ {"release"} : Has(Old, f)}
      /\ Has(Old, "release")
      /\ replacing => Has(New, "release")
      /\ stale' \in (IF replacing THEN {Gone, dirs[New]["release"]} ELSE {Gone})
      /\ overwritten' = FALSE
  BY BundleMoveAssumption DEF Start, Goto, IInv, Typed
<1>2. Typed'
  <2>1. pc' \in Steps /\ targetMoved' \in BOOLEAN /\ sourceMoved' \in BOOLEAN
    BY <1>1 DEF Steps
  <2>2. run' \in 0..MaxRuns /\ run' # 0
    BY <1>1
  <2>3. loaded' \subseteq Files \ {"release"} /\ failed' \subseteq Steps
    BY <1>1
  <2>4. stale' \in File \cup {Gone} /\ overwritten' \in BOOLEAN
    <3>1. replacing => dirs[New] \in Bundle
      BY <1>1, Distinct DEF IInv, Typed, Has, Exists
    <3>2. QED
      BY <1>1, <3>1, Bundles DEF Bundle
  <2>5. QED
    BY <1>1, <2>1, <2>2, <2>3, <2>4 DEF IInv, Typed
<1>3. Fresh' /\ SourcePlaces'
  BY <1>1 DEF IInv, Typed, Fresh, SourcePlaces, OnlySource
<1>4. SourceHeld'
  <2>1. HasSource(Old)'
    BY <1>1, Bundles DEF HasSource, Its, Has, Exists, IInv, SourcePlaces, OnlySource
  <2>2. QED
    BY <1>1, <2>1 DEF SourceHeld, Before, After, Placed, Undo, Undoing
<1>5. Done' /\ Present'
  BY <1>1 DEF Done, Present, Placed, After, Has, Exists
<1>6. Undoable'
  <2>1. \A d \in Hidden(run') : dirs[d] = NoDir
    BY <1>1 DEF IInv, Typed, Fresh
  <2>2. ASSUME replacing
        PROVE  OthersBack' /\ SourceBack' /\ TargetBack'
    <3>1. OthersBack'
      BY <1>1, <2>1, <2>2 DEF OthersBack, Has, Exists
    <3>2. SourceBack'
      BY <1>1, <2>1, <2>2 DEF SourceBack, After, Hidden
    <3>3. TargetBack'
      BY <1>1, <2>1, <2>2 DEF TargetBack, Hidden
    <3>4. QED
      BY <3>1, <3>2, <3>3
  <2>3. ~replacing => ~CanUndo'
    BY <1>1 DEF CanUndo, Before, After, Undo, Undoing
  <2>4. QED
    BY <2>2, <2>3 DEF Undoable
<1>7. QED
  BY <1>2, <1>3, <1>4, <1>5, <1>6 DEF IInv

\* The command ends where it is.
LEMMA EndStep ==
    ASSUME IInv, UNCHANGED <<dirs, run, loaded, overwritten>>, failed \subseteq failed', pc' = "idle", Typed'
    PROVE  IInv'
<1>1. Fresh' /\ SourcePlaces'
  BY NothingMoved DEF IInv
<1>2. SourceHeld'
  <2>1. SourceRecoverable'
    BY HeldIsRecoverable DEF IInv, SourceRecoverable, SourceWhole, Its, Exists
  <2>2. QED
    BY <2>1 DEF SourceHeld, Before, After, Placed, Undo, Undoing
<1>3. Done' /\ Present' /\ Undoable'
  BY DEF Done, Present, Undoable, CanUndo, Before, After, Placed, Undo, Undoing
<1>4. QED
  BY <1>1, <1>2, <1>3 DEF IInv

LEMMA KillStep == ASSUME IInv, Kill PROVE IInv'
<1>1. /\ pc' = "idle" /\ kills' = kills + 1
      /\ UNCHANGED <<dirs, successor, section, events, loaded, stale, targetMoved, sourceMoved,
                     run, errors, base, failed, overwritten>>
  BY DEF Kill, Goto
<1>2. "idle" \in Steps
  BY DEF Steps
<1>3. Typed'
  BY <1>1, <1>2 DEF IInv, Typed
<1>4. QED
  BY <1>1, <1>3, EndStep

\* An operation that fails.
LEMMA FailStep == ASSUME IInv, Fail PROVE IInv'
<1>1. /\ pc \notin {"idle", "cleanup"} /\ errors' = errors + 1
      /\ failed' = failed \cup {pc}
      /\ pc' = IF pc \in Guarded THEN "undo source"
               ELSE IF pc \in Undoing THEN "cleanup" ELSE "idle"
      /\ UNCHANGED <<dirs, successor, section, events, loaded, stale, targetMoved, sourceMoved,
                     run, kills, base, overwritten>>
  BY DEF Fail, Goto
<1>2. Typed'
  <2>1. {"idle", "undo source", "cleanup"} \subseteq Steps
    BY DEF Steps
  <2>2. pc' \in Steps
    BY <1>1, <2>1
  <2>3. failed' \subseteq Steps
    BY <1>1 DEF IInv, Typed
  <2>4. errors' \in Nat
    <3>1. errors \in Nat /\ errors' = errors + 1
      BY <1>1 DEF IInv, Typed
    <3>2. QED
      BY <3>1
  <2>5. QED
    BY <1>1, <2>2, <2>3, <2>4 DEF IInv, Typed
<1>3. CASE pc' = "idle"
  BY <1>1, <1>2, <1>3, EndStep
<1>4. CASE pc \in Guarded
  <2>1. pc' = "undo source" /\ pc \in Before \cup After
    BY <1>1, <1>4 DEF Guarded, Before, After
  <2>2. failed = {} /\ failed' = {pc}
    BY <1>1, <2>1 DEF IInv, SourceHeld
  <2>3. Fresh' /\ SourcePlaces'
    BY <1>1, NothingMoved DEF IInv
  <2>4. SourceHeld'
    BY <1>1, <2>1, <2>2
    DEF IInv, SourceHeld, HasSource, Its, Exists, Before, After, Placed, Undo, Undoing
  <2>5. Done' /\ Present'
    BY <2>1 DEF Done, Present, After, Placed
  <2>6. Undoable'
    <3> SUFFICES ASSUME CanUndo'
                 PROVE  OthersBack' /\ SourceBack' /\ TargetBack'
      BY DEF Undoable
    <3>1. pc \notin {"flag source", "remove source"} /\ CanUndo
      BY <2>1, <2>2 DEF CanUndo, After
    <3>2. OthersBack /\ SourceBack /\ TargetBack
      BY <3>1 DEF IInv, Undoable
    <3>3. OthersBack'
      BY <1>1, <3>2 DEF OthersBack
    <3>4. SourceBack'
      BY <1>1, <2>1, <3>1, <3>2 DEF SourceBack, Before, After
    <3>5. TargetBack'
      BY <1>1, <2>1, <2>2, <3>1, <3>2 DEF TargetBack, Kept, Exists, Before, After, Undo, Undoing
    <3>6. QED
      BY <3>3, <3>4, <3>5
  <2>7. QED
    BY <1>2, <2>3, <2>4, <2>5, <2>6 DEF IInv
<1>5. CASE pc \in Undoing
  <2>1. pc' = "cleanup"
    BY <1>1, <1>5 DEF Guarded, Undoing
  <2>2. Fresh' /\ SourcePlaces'
    BY <1>1, NothingMoved DEF IInv
  <2>3. SourceHeld'
    BY <1>1, <1>5, <2>1 DEF IInv, SourceHeld, HasSource, Its, Exists, Before, After, Placed, Undo
  <2>4. Done' /\ Present' /\ Undoable'
    BY <1>1, <1>5, <2>1 DEF Done, Present, Undoable, CanUndo, After, Placed, Guarded, Undoing
  <2>5. QED
    BY <1>2, <2>2, <2>3, <2>4 DEF IInv
<1>6. QED
  BY <1>1, <1>3, <1>4, <1>5

\* The steps after the bundle is in place, and those that put it there by the
\* renaming of one directory.
LEMMA RenameBundleStep == ASSUME IInv, RenameBundle PROVE IInv'
<1>1. /\ pc = "rename" /\ Typed /\ UNCHANGED <<others, targetMoved, sourceMoved>>
      /\ \/ pc' = "idle" /\ dirs' = dirs
         \/ pc' = "release" /\ dirs' = Renamed(Old, New)
  BY DEF RenameBundle, Goto, IInv
<1>2. HasSource(Old)
  BY <1>1 DEF IInv, SourceHeld
<1>3. CASE pc' = "idle" /\ dirs' = dirs
  <2>1. Typed'
    BY <1>1, <1>3 DEF Typed, others, Steps
  <2>2. QED
    BY <1>1, <1>3, <2>1, EndStep DEF others
<1>4. CASE pc' = "release" /\ dirs' = Renamed(Old, New)
  <2>1. /\ dirs' \in [Dirs -> Bundle \cup {NoDir}]
        /\ dirs'[New] = dirs[Old] /\ dirs'[Old] = NoDir
        /\ \A x \in Dirs \ {Old, New} : dirs'[x] = dirs[x]
    BY <1>1, <1>4, Working, RenameEffect
  <2>2. Typed'
    BY <1>1, <1>4, <2>1 DEF Typed, others, Steps
  <2>3. Fresh' /\ SourcePlaces'
    <3>1. OnlySource(Old)' /\ OnlySource(SourceBackup(run))'
      BY <1>1, <2>1, Working DEF IInv, SourcePlaces, OnlySource, others
    <3>2. QED
      BY <1>1, <2>1, <3>1, OthersKept DEF IInv, others
  <2>4. SourceHeld'
    BY <1>1, <1>2, <1>4, <2>1
    DEF SourceHeld, HasSource, Its, Exists, others, Before, After, Placed, Undo, Undoing
  <2>5. Done' /\ Present' /\ Undoable'
    BY <1>4, <2>1
    DEF Done, Present, Undoable, CanUndo, Exists, Before, After, Placed, Undo, Undoing
  <2>6. QED
    BY <2>2, <2>3, <2>4, <2>5 DEF IInv
<1>5. QED
  BY <1>1, <1>3, <1>4


\* The types, when the command goes on.
LEMMA GoesOnTyped ==
    ASSUME Typed, pc # "idle", pc' \in Steps, dirs' \in [Dirs -> Bundle \cup {NoDir}],
           targetMoved' \in BOOLEAN, sourceMoved' \in BOOLEAN, UNCHANGED others
    PROVE  Typed'
BY DEF Typed, others

\* The bundle is in place and no directory moves.
LEMMA PlacedStep ==
    ASSUME IInv, pc \in Placed, pc' \in Placed, UNCHANGED <<dirs, loaded, overwritten, run, failed>>
    PROVE  /\ Fresh' /\ SourcePlaces' /\ SourceHeld' /\ Present' /\ Undoable'
           /\ ~Exists(Old)'
<1>1. Fresh' /\ SourcePlaces'
  BY NothingMoved DEF IInv
<1>2. SourceHeld'
  BY DEF IInv, SourceHeld, HasSource, Its, Exists, Before, After, Placed, Undo, Undoing
<1>3. Present' /\ Undoable'
  BY DEF Present, Undoable, CanUndo, Before, After, Placed, Undo, Undoing
<1>4. ~Exists(Old)'
  BY DEF IInv, Done, Exists
<1>5. QED
  BY <1>1, <1>2, <1>3, <1>4

\* A file of the bundle in place is written.
LEMMA WriteStep ==
    ASSUME IInv, pc \in Placed, pc' \in Placed, UNCHANGED <<others, targetMoved, sourceMoved>>,
           NEW f \in Files, NEW says \in {"old", "new"}, Write(New, f, says)
    PROVE  /\ Typed' /\ Fresh' /\ SourcePlaces' /\ SourceHeld' /\ Present' /\ Undoable'
           /\ ~Exists(Old)'
           /\ \A g \in Files : dirs'[New][g] = IF g = f THEN [of |-> "source", says |-> says]
                                               ELSE dirs[New][g]
<1>1. pc # "idle" /\ pc' \in Steps /\ Typed
  BY DEF IInv, Placed, Steps
<1>2. HasSource(New) /\ ~Exists(Old)
  BY DEF IInv, SourceHeld, Done
<1>3. /\ dirs' \in [Dirs -> Bundle \cup {NoDir}]
      /\ dirs'[New] \in Bundle
      /\ \A g \in Files : dirs'[New][g] = IF g = f THEN [of |-> "source", says |-> says]
                                          ELSE dirs[New][g]
      /\ \A x \in Dirs \ {New} : dirs'[x] = dirs[x]
  <2>1. Typed /\ New \in Dirs /\ Exists(New) /\ dirs' = Written(New, f, "source", says)
    BY <1>1, <1>2, Working DEF HasSource, Write
  <2>2. QED
    BY <2>1, FileWritten
<1>4. Typed'
  BY <1>1, <1>3, GoesOnTyped DEF Typed
<1>5. Fresh' /\ SourcePlaces'
  <2>1. OnlySource(Old)' /\ OnlySource(SourceBackup(run))'
    BY <1>1, <1>3, Working DEF IInv, SourcePlaces, OnlySource, others
  <2>2. QED
    BY <1>1, <1>3, <2>1, OthersKept DEF IInv, others
<1>6. HasSource(New)'
  <2>1. /\ Its' = Its /\ Its \subseteq Files
        /\ dirs'[New] # NoDir
        /\ [of |-> "source", says |-> says] # Gone
    BY <1>1, <1>3, Bundles DEF Typed, others, File, Its
  <2>2. QED
    BY <1>2, <1>3, <2>1 DEF HasSource, Exists
<1>7. SourceHeld' /\ Present' /\ Undoable'
  BY <1>6 DEF SourceHeld, Present, Undoable, CanUndo, Before, After, Placed, Undo, Undoing
<1>8. ~Exists(Old)'
  BY <1>1, <1>2, <1>3, Working DEF Exists
<1>9. QED
  BY <1>3, <1>4, <1>5, <1>7, <1>8

LEMMA SaveReleaseStep == ASSUME IInv, SaveRelease PROVE IInv'
<1>1. /\ pc = "release" /\ pc' = "entries" /\ Write(New, "release", "new")
      /\ UNCHANGED <<others, targetMoved, sourceMoved>>
      /\ pc \in Placed /\ pc' \in Placed /\ "release" \in Files
  BY Bundles DEF SaveRelease, Goto, Placed
<1>2. Done'
  BY <1>1, WriteStep DEF Done, Says, After
<1>3. QED
  BY <1>1, <1>2, WriteStep DEF IInv

LEMMA SaveEntryStep == ASSUME IInv, NEW e \in Entries, SaveEntry(e) PROVE IInv'
<1>1. /\ pc = "entries" /\ pc' = "entries" /\ Write(New, e, "new")
      /\ UNCHANGED <<others, targetMoved, sourceMoved>>
      /\ pc \in Placed /\ pc' \in Placed /\ e \in Files /\ e # "release"
      /\ "release" \in Files
  BY Bundles DEF SaveEntry, Placed
<1>2. Done'
  BY <1>1, WriteStep DEF IInv, Done, Says, After
<1>3. QED
  BY <1>1, <1>2, WriteStep DEF IInv

LEMMA EntriesSavedStep == ASSUME IInv, EntriesSaved PROVE IInv'
<1>1. /\ pc = "entries" /\ pc' = "audit" /\ Typed
      /\ \A e \in loaded \ {"audit"} : dirs[New][e].says = "new"
      /\ UNCHANGED <<others, targetMoved, sourceMoved, dirs>>
      /\ pc \in Placed /\ pc' \in Placed /\ pc # "idle" /\ pc' \in Steps
  BY DEF EntriesSaved, Goto, Placed, Steps, IInv
<1>2. Typed'
  BY <1>1, GoesOnTyped DEF Typed
<1>3. Says(New, Records)
  <2>1. HasSource(New) /\ Says(New, {"release"})
    BY <1>1 DEF IInv, SourceHeld, Done
  <2>2. dirs[New] \in Bundle
    BY <1>1, <2>1, Working DEF Typed, HasSource, Its, Exists
  <2>3. ASSUME NEW f \in Records
        PROVE  dirs[New][f] = [of |-> "source", says |-> "new"]
    <3>1. CASE f = "release"
      BY <2>1, <3>1 DEF Says
    <3>2. CASE f # "release"
      <4>1. dirs[New][f] \in File /\ dirs[New][f].of = "source" /\ dirs[New][f].says = "new"
        BY <1>1, <2>1, <2>2, <3>2 DEF HasSource, Its, Typed, Bundle, Records
      <4>2. QED
        BY <4>1 DEF File
    <3>3. QED
      BY <3>1, <3>2
  <2>4. QED
    BY <2>3 DEF Says
<1>4. Done'
  BY <1>1, <1>3, PlacedStep DEF Done, Says, After, Records, Its, others
<1>5. QED
  BY <1>1, <1>2, <1>4, PlacedStep DEF IInv, others

LEMMA SaveAuditStep == ASSUME IInv, SaveAudit PROVE IInv'
<1>1. /\ pc = "audit" /\ pc' = "successors" /\ Typed
      /\ IF "audit" \in loaded THEN Write(New, "audit", "new") ELSE dirs' = dirs
      /\ UNCHANGED <<others, targetMoved, sourceMoved>>
      /\ pc \in Placed /\ pc' \in Placed /\ pc # "idle" /\ pc' \in Steps
  BY DEF SaveAudit, AuditVersion, Goto, Placed, Steps, IInv
<1>2. Says(New, Records)
  BY <1>1 DEF IInv, Done
<1>3. CASE "audit" \in loaded
  <2>1. Done'
    <3>1. Says(New, Its)'
      BY <1>1, <1>2, <1>3, WriteStep, Bundles DEF Says, Records, Its, Typed, others
    <3>2. QED
      BY <1>1, <1>3, <3>1, WriteStep, Bundles DEF Done, After
  <2>2. QED
    BY <1>1, <1>3, <2>1, WriteStep, Bundles DEF IInv
<1>4. CASE "audit" \notin loaded
  <2>1. Typed'
    BY <1>1, <1>4, GoesOnTyped DEF Typed
  <2>2. Done'
    BY <1>1, <1>2, <1>4, PlacedStep DEF Done, Says, Records, Its, After, others
  <2>3. QED
    BY <1>1, <1>4, <2>1, <2>2, PlacedStep DEF IInv, others
<1>5. QED
  BY <1>3, <1>4

LEMMA RelinkSuccessorStep == ASSUME IInv, RelinkSuccessor PROVE IInv'
<1>1. /\ pc = "successors" /\ pc' = pc /\ successor' = "new"
      /\ UNCHANGED <<dirs, section, events, loaded, stale, targetMoved, sourceMoved,
                     run, errors, kills, base, failed, overwritten>>
      /\ pc \in Placed /\ pc' \in Placed
  BY DEF RelinkSuccessor, NewPrevious, Placed
<1>2. Typed'
  BY <1>1 DEF IInv, Typed
<1>3. Done'
  BY <1>1, PlacedStep DEF IInv, Done, Says, After, Its
<1>4. QED
  BY <1>1, <1>2, <1>3, PlacedStep DEF IInv

\* The record in the new place is not the source's any more, the other files are.
LEMMA SaveStaleStep == ASSUME IInv, SaveStale PROVE IInv'
<1>1. /\ pc = "successors" /\ pc' = pc /\ stale # Gone /\ stale' = Gone /\ overwritten' = TRUE
      /\ dirs' = Written(New, "release", stale.of, "new")
      /\ UNCHANGED <<successor, section, events, loaded, targetMoved, sourceMoved,
                     run, errors, kills, base, failed>>
      /\ Typed /\ pc # "idle"
  BY DEF SaveStale, IInv
<1>2. HasSource(New) /\ ~Exists(Old) /\ Says(New, Its)
  BY <1>1 DEF IInv, SourceHeld, Done, Placed
<1>3. /\ dirs' \in [Dirs -> Bundle \cup {NoDir}]
      /\ dirs'[New] \in Bundle
      /\ \A g \in Files \ {"release"} : dirs'[New][g] = dirs[New][g]
      /\ \A x \in Dirs \ {New} : dirs'[x] = dirs[x]
  <2>1. stale.of \in {"source", "displaced"} /\ Exists(New) /\ New \in Dirs
    BY <1>1, <1>2, Working DEF Typed, File, HasSource
  <2>2. QED
    BY <1>1, <2>1, FileWritten, Bundles
<1>4. Typed'
  BY <1>1, <1>3 DEF Typed
<1>5. Fresh' /\ SourcePlaces'
  <2>1. OnlySource(Old)' /\ OnlySource(SourceBackup(run))'
    BY <1>1, <1>3, Working DEF IInv, SourcePlaces, OnlySource
  <2>2. QED
    BY <1>1, <1>3, <2>1, OthersKept DEF IInv
<1>6. Its' \subseteq Its /\ Its' \subseteq Files \ {"release"}
  BY <1>1 DEF Its, Typed
<1>7. HasSource(New)' /\ Says(New, Its)'
  <2>1. Exists(New)'
    BY <1>3, Bundles DEF Exists
  <2>2. QED
    BY <1>2, <1>3, <1>6, <2>1 DEF HasSource, Says
<1>8. ~Exists(Old)'
  BY <1>1, <1>2, <1>3, Working DEF Exists
<1>9. SourceHeld' /\ Done'
  BY <1>1, <1>7, <1>8 DEF SourceHeld, Done, Before, After, Placed, Undo, Undoing
<1>10. Present' /\ Undoable'
  BY <1>1 DEF Present, Undoable, CanUndo, Before, After, Undo, Undoing
<1>11. QED
  BY <1>4, <1>5, <1>9, <1>10 DEF IInv

LEMMA RefuseStaleStep == ASSUME IInv, RefuseStale PROVE IInv'
<1>1. /\ pc = "successors" /\ pc' = "idle" /\ failed' = failed \cup {pc}
      /\ UNCHANGED <<dirs, successor, section, events, loaded, stale, targetMoved, sourceMoved,
                     run, errors, kills, base, overwritten>>
  BY DEF RefuseStale, Goto
<1>2. Typed'
  <2>1. pc' \in Steps /\ pc \in Steps
    BY <1>1 DEF Steps
  <2>2. QED
    BY <1>1, <2>1 DEF IInv, Typed
<1>3. QED
  BY <1>1, <1>2, EndStep

LEMMA SuccessorsSavedStep == ASSUME IInv, SuccessorsSaved PROVE IInv'
<1>1. /\ pc = "successors" /\ pc' = "event" /\ Typed /\ successor # "old"
      /\ UNCHANGED <<others, targetMoved, sourceMoved, dirs>>
      /\ pc \in Placed /\ pc' \in Placed /\ pc # "idle" /\ pc' \in Steps
  BY DEF SuccessorsSaved, Goto, Placed, Steps, IInv
<1>2. Typed' /\ successor = "new"
  BY <1>1, GoesOnTyped DEF Typed
<1>3. Done'
  BY <1>1, <1>2, PlacedStep DEF IInv, Done, Says, After, Its, others
<1>4. QED
  BY <1>1, <1>2, <1>3, PlacedStep DEF IInv, others

LEMMA AppendEventStep == ASSUME IInv, AppendEvent PROVE IInv'
<1>1. /\ pc = "event" /\ pc' = "changelog" /\ events' = events \cup {run}
      /\ UNCHANGED <<dirs, successor, section, loaded, stale, targetMoved, sourceMoved,
                     run, errors, kills, base, failed, overwritten>>
      /\ pc \in Placed /\ pc' \in Placed
  BY DEF AppendEvent, Goto, Placed
<1>2. Typed'
  <2>1. pc' \in Steps /\ run \in 1..MaxRuns
    BY <1>1, Working DEF Steps, IInv
  <2>2. events' \subseteq 1..MaxRuns
    BY <1>1, <2>1 DEF IInv, Typed
  <2>3. QED
    BY <1>1, <2>1, <2>2 DEF IInv, Typed
<1>3. Done'
  BY <1>1, PlacedStep DEF Done, After
<1>4. QED
  BY <1>1, <1>2, <1>3, PlacedStep DEF IInv

LEMMA WriteChangelogStep == ASSUME IInv, WriteChangelog PROVE IInv'
<1>1. /\ pc' = "idle" /\ section' = "new"
      /\ UNCHANGED <<dirs, successor, events, loaded, stale, targetMoved, sourceMoved,
                     run, errors, kills, base, failed, overwritten>>
  BY DEF WriteChangelog, Goto
<1>2. Typed'
  <2>1. pc' \in Steps
    BY <1>1 DEF Steps
  <2>2. QED
    BY <1>1, <2>1 DEF IInv, Typed
<1>3. QED
  BY <1>1, <1>2, EndStep

-----------------------------------------------------------------------------
(* The steps of a replacement.                                               *)

LEMMA CopyStep == ASSUME IInv, Copy PROVE IInv'
<1>1. /\ pc = "copy" /\ pc' = "target away" /\ Typed /\ pc' \in Steps
      /\ UNCHANGED <<others, targetMoved, sourceMoved>>
  BY DEF Copy, Goto, IInv, Steps
<1>2. /\ dirs' \in [Dirs -> Bundle \cup {NoDir}]
      /\ dirs'[Staged(run)] \in Bundle
      /\ \A f \in Records : dirs'[Staged(run)][f] = [of |-> "source", says |-> "new"]
      /\ "audit" \in loaded => dirs'[Staged(run)]["audit"] = dirs[Old]["audit"]
      /\ \A x \in Dirs \ {Staged(run)} : dirs'[x] = dirs[x]
  BY CopyEffect DEF IInv
<1>3. HasSource(Old) /\ failed = {} /\ Exists(New)
  BY <1>1 DEF IInv, SourceHeld, Before, Present
<1>4. Typed'
  BY <1>1, <1>2, GoesOnTyped DEF Typed
<1>5. Fresh' /\ SourcePlaces'
  <2>1. OnlySource(Old)' /\ OnlySource(SourceBackup(run))'
    BY <1>1, <1>2, Working DEF IInv, SourcePlaces, OnlySource, others
  <2>2. QED
    BY <1>1, <1>2, <2>1, OthersKept DEF IInv, others, Hidden
<1>6. HasSource(Staged(run))' /\ HasSource(Old)'
  <2>1. [of |-> "source", says |-> "new"] # Gone /\ dirs'[Staged(run)] # NoDir
    BY <1>2, Bundles DEF File
  <2>2. \A f \in Its : f \in Records \/ (f = "audit" /\ f \in loaded)
    BY Bundles DEF Records, Its
  <2>3. HasSource(Staged(run))'
    <3>1. \A f \in Its :
             dirs'[Staged(run)][f] # Gone /\ dirs'[Staged(run)][f].of = "source"
      <4>1. ASSUME NEW f \in Records
            PROVE  dirs'[Staged(run)][f] # Gone /\ dirs'[Staged(run)][f].of = "source"
        BY <1>2, <2>1
      <4>2. "audit" \in loaded => dirs'[Staged(run)]["audit"] # Gone
                                   /\ dirs'[Staged(run)]["audit"].of = "source"
        BY <1>2, <1>3 DEF HasSource, Its
      <4>3. QED
        BY <2>2, <4>1, <4>2
    <3>2. run' = run /\ loaded' = loaded /\ overwritten' = overwritten
      BY <1>1 DEF others
    <3>3. QED
      BY <2>1, <3>1, <3>2 DEF HasSource, Its, Exists, Staged
  <2>4. QED
    BY <1>1, <1>2, <1>3, <2>3, Working DEF HasSource, Its, Exists, others
<1>7. SourceHeld'
  BY <1>1, <1>3, <1>6 DEF SourceHeld, Before, After, Placed, Undo, Undoing, others
<1>8. Done' /\ Present'
  BY <1>1, <1>2, <1>3, Working DEF Done, Present, Says, Records, Its, Exists, Placed, After, others
<1>9. Undoable'
  <2> SUFFICES ASSUME CanUndo' PROVE OthersBack' /\ SourceBack' /\ TargetBack'
    BY DEF Undoable
  <2>1. OthersBack /\ SourceBack /\ TargetBack
    BY <1>1, <1>3 DEF IInv, Undoable, CanUndo, Before
  <2>2. OthersBack'
    BY <1>1, <1>2, <2>1 DEF OthersBack, Hidden, others
  <2>3. SourceBack'
    BY <1>1, <1>2, <2>1, Working DEF SourceBack, After, others
  <2>4. TargetBack'
    BY <1>1, <1>2, <2>1, Working DEF TargetBack, Undo, Undoing, others
  <2>5. QED
    BY <2>2, <2>3, <2>4
<1>10. QED
  BY <1>4, <1>5, <1>7, <1>8, <1>9 DEF IInv

LEMMA TargetAwayStep == ASSUME IInv, TargetAway PROVE IInv'
<1>1. /\ pc = "target away" /\ pc' = "flag target" /\ Typed /\ pc' \in Steps
      /\ dirs' = Renamed(New, TargetBackup(run))
      /\ UNCHANGED <<others, targetMoved, sourceMoved>>
  BY DEF TargetAway, MoveStep, Goto, IInv, Steps
<1>2. /\ dirs' \in [Dirs -> Bundle \cup {NoDir}]
      /\ dirs'[TargetBackup(run)] = dirs[New] /\ dirs'[New] = NoDir
      /\ \A x \in Dirs \ {New, TargetBackup(run)} : dirs'[x] = dirs[x]
  BY <1>1, Working, RenameEffect
<1>3. /\ HasSource(Old) /\ HasSource(Staged(run)) /\ failed = {} /\ Exists(New)
      /\ Says(Staged(run), Records)
  BY <1>1 DEF IInv, SourceHeld, Before, Present, Done
<1>4. Typed'
  BY <1>1, <1>2, GoesOnTyped DEF Typed
<1>5. Fresh' /\ SourcePlaces'
  <2>1. OnlySource(Old)' /\ OnlySource(SourceBackup(run))'
    BY <1>1, <1>2, Working DEF IInv, SourcePlaces, OnlySource, others
  <2>2. QED
    BY <1>1, <1>2, <2>1, OthersKept DEF IInv, others, Hidden
<1>6. dirs'[Staged(run)] = dirs[Staged(run)] /\ dirs'[Old] = dirs[Old]
  BY <1>1, <1>2, Working
<1>7. SourceHeld'
  BY <1>1, <1>3, <1>6
  DEF SourceHeld, HasSource, Its, Exists, Before, After, Placed, Undo, Undoing, others
<1>8. Done' /\ Present'
  BY <1>1, <1>2, <1>3, <1>6 DEF Done, Present, Says, Records, Its, Exists, Placed, After, others
<1>9. Undoable'
  <2> SUFFICES ASSUME CanUndo' PROVE OthersBack' /\ SourceBack' /\ TargetBack'
    BY DEF Undoable
  <2>1. OthersBack /\ SourceBack /\ TargetBack
    BY <1>1, <1>3 DEF IInv, Undoable, CanUndo, Before
  <2>2. OthersBack'
    BY <1>1, <1>2, <2>1 DEF OthersBack, Hidden, others
  <2>3. SourceBack'
    BY <1>1, <1>2, <2>1, Working DEF SourceBack, After, others
  <2>4. TargetBack'
    BY <1>1, <1>2, <1>3, <2>1, Working DEF TargetBack, Kept, Exists, Undo, Undoing, others
  <2>5. QED
    BY <2>2, <2>3, <2>4
<1>10. QED
  BY <1>4, <1>5, <1>7, <1>8, <1>9 DEF IInv

LEMMA FlagTargetStep == ASSUME IInv, FlagTarget PROVE IInv'
<1>1. /\ pc = "flag target" /\ pc' = "put" /\ Typed /\ pc' \in Steps
      /\ targetMoved' = TRUE /\ UNCHANGED <<others, dirs, sourceMoved>>
  BY DEF FlagTarget, Goto, IInv, Steps
<1>2. Typed'
  BY <1>1, GoesOnTyped DEF Typed
<1>3. Fresh' /\ SourcePlaces'
  BY <1>1, NothingMoved DEF IInv, others
<1>4. SourceHeld'
  BY <1>1 DEF IInv, SourceHeld, HasSource, Its, Exists, Before, After, Placed, Undo, Undoing, others
<1>5. Done' /\ Present'
  BY <1>1 DEF IInv, Done, Present, Says, Records, Its, Exists, Placed, After, others
<1>6. Undoable'
  <2> SUFFICES ASSUME CanUndo' PROVE OthersBack' /\ SourceBack' /\ TargetBack'
    BY DEF Undoable
  <2>1. failed = {} /\ OthersBack /\ SourceBack /\ TargetBack
    BY <1>1 DEF IInv, SourceHeld, Undoable, CanUndo, Before
  <2>2. OthersBack'
    BY <1>1, <2>1 DEF OthersBack, others
  <2>3. SourceBack'
    BY <1>1, <2>1 DEF SourceBack, After, others
  <2>4. TargetBack'
    BY <1>1, <2>1 DEF TargetBack, Kept, Exists, Undo, Undoing, others
  <2>5. QED
    BY <2>2, <2>3, <2>4
<1>7. QED
  BY <1>2, <1>3, <1>4, <1>5, <1>6 DEF IInv

LEMMA PutStep == ASSUME IInv, Put PROVE IInv'
<1>1. /\ pc = "put" /\ pc' = "source away" /\ Typed /\ pc' \in Steps
      /\ dirs' = Renamed(Staged(run), New)
      /\ UNCHANGED <<others, targetMoved, sourceMoved>>
  BY DEF Put, MoveStep, Goto, IInv, Steps
<1>2. /\ dirs' \in [Dirs -> Bundle \cup {NoDir}]
      /\ dirs'[New] = dirs[Staged(run)] /\ dirs'[Staged(run)] = NoDir
      /\ \A x \in Dirs \ {New, Staged(run)} : dirs'[x] = dirs[x]
  BY <1>1, Working, RenameEffect
<1>3. /\ HasSource(Old) /\ HasSource(Staged(run)) /\ failed = {}
      /\ Exists(TargetBackup(run)) /\ Says(Staged(run), Records)
  BY <1>1 DEF IInv, SourceHeld, Before, Present, Done
<1>4. Typed'
  BY <1>1, <1>2, GoesOnTyped DEF Typed
<1>5. Fresh' /\ SourcePlaces'
  <2>1. OnlySource(Old)' /\ OnlySource(SourceBackup(run))'
    BY <1>1, <1>2, Working DEF IInv, SourcePlaces, OnlySource, others
  <2>2. QED
    BY <1>1, <1>2, <2>1, OthersKept DEF IInv, others, Hidden
<1>6. dirs'[TargetBackup(run)] = dirs[TargetBackup(run)] /\ dirs'[Old] = dirs[Old]
  BY <1>1, <1>2, Working
<1>7. SourceHeld'
  BY <1>1, <1>2, <1>3, <1>6
  DEF SourceHeld, HasSource, Its, Exists, Before, After, Placed, Undo, Undoing, others
<1>8. Done' /\ Present'
  BY <1>1, <1>2, <1>3, <1>6 DEF Done, Present, Says, Records, Its, Exists, Placed, After, others
<1>9. Undoable'
  <2> SUFFICES ASSUME CanUndo' PROVE OthersBack' /\ SourceBack' /\ TargetBack'
    BY DEF Undoable
  <2>1. OthersBack /\ SourceBack /\ TargetBack
    BY <1>1, <1>3 DEF IInv, Undoable, CanUndo, Before
  <2>2. OthersBack'
    BY <1>1, <1>2, <2>1 DEF OthersBack, Hidden, others
  <2>3. SourceBack'
    BY <1>1, <1>2, <2>1, Working DEF SourceBack, After, others
  <2>4. TargetBack'
    BY <1>1, <1>2, <1>3, <1>6, <2>1 DEF TargetBack, Kept, Exists, Undo, Undoing, others
  <2>5. QED
    BY <2>2, <2>3, <2>4
<1>10. QED
  BY <1>4, <1>5, <1>7, <1>8, <1>9 DEF IInv

LEMMA SourceAwayStep == ASSUME IInv, SourceAway PROVE IInv'
<1>1. /\ pc = "source away" /\ pc' = "flag source" /\ Typed /\ pc' \in Steps
      /\ dirs' = Renamed(Old, SourceBackup(run))
      /\ UNCHANGED <<others, targetMoved, sourceMoved>>
  BY DEF SourceAway, MoveStep, Goto, IInv, Steps
<1>2. /\ dirs' \in [Dirs -> Bundle \cup {NoDir}]
      /\ dirs'[SourceBackup(run)] = dirs[Old] /\ dirs'[Old] = NoDir
      /\ \A x \in Dirs \ {Old, SourceBackup(run)} : dirs'[x] = dirs[x]
  BY <1>1, Working, RenameEffect
<1>3. /\ HasSource(Old) /\ HasSource(New) /\ failed = {}
      /\ Exists(TargetBackup(run)) /\ Says(New, Records)
  BY <1>1 DEF IInv, SourceHeld, Before, Present, Done
<1>4. Typed'
  BY <1>1, <1>2, GoesOnTyped DEF Typed
<1>5. Fresh' /\ SourcePlaces'
  <2>1. OnlySource(Old)' /\ OnlySource(SourceBackup(run))'
    BY <1>1, <1>2, Working DEF IInv, SourcePlaces, OnlySource, others
  <2>2. QED
    BY <1>1, <1>2, <2>1, OthersKept DEF IInv, others, Hidden
<1>6. dirs'[TargetBackup(run)] = dirs[TargetBackup(run)] /\ dirs'[New] = dirs[New]
  BY <1>1, <1>2, Working
<1>7. SourceHeld'
  BY <1>1, <1>2, <1>3, <1>6
  DEF SourceHeld, HasSource, Its, Exists, Before, After, Placed, Undo, Undoing, others
<1>8. Done' /\ Present'
  BY <1>1, <1>2, <1>3, <1>6
  DEF Done, Present, HasSource, Its, Says, Records, Exists, Placed, After, others
<1>9. Undoable'
  <2> SUFFICES ASSUME CanUndo' PROVE OthersBack' /\ SourceBack' /\ TargetBack'
    BY DEF Undoable
  <2>1. OthersBack /\ SourceBack /\ TargetBack
    BY <1>1, <1>3 DEF IInv, Undoable, CanUndo, Before
  <2>2. OthersBack'
    BY <1>1, <1>2, <2>1 DEF OthersBack, Hidden, others
  <2>3. SourceBack'
    BY <1>1, <1>2, <2>1 DEF SourceBack, After, others
  <2>4. TargetBack'
    BY <1>1, <1>2, <1>3, <1>6, <2>1 DEF TargetBack, Kept, Exists, Undo, Undoing, others
  <2>5. QED
    BY <2>2, <2>3, <2>4
<1>10. QED
  BY <1>4, <1>5, <1>7, <1>8, <1>9 DEF IInv

LEMMA FlagSourceStep == ASSUME IInv, FlagSource PROVE IInv'
<1>1. /\ pc = "flag source" /\ pc' = "remove target" /\ Typed /\ pc' \in Steps
      /\ sourceMoved' = TRUE /\ UNCHANGED <<others, dirs, targetMoved>>
  BY DEF FlagSource, Goto, IInv, Steps
<1>2. Typed'
  BY <1>1, GoesOnTyped DEF Typed
<1>3. Fresh' /\ SourcePlaces'
  BY <1>1, NothingMoved DEF IInv, others
<1>4. SourceHeld'
  BY <1>1 DEF IInv, SourceHeld, HasSource, Its, Exists, Before, After, Placed, Undo, Undoing, others
<1>5. Done' /\ Present'
  BY <1>1 DEF IInv, Done, Present, Says, Records, Its, Exists, Placed, After, others
<1>6. Undoable'
  <2> SUFFICES ASSUME CanUndo' PROVE OthersBack' /\ SourceBack' /\ TargetBack'
    BY DEF Undoable
  <2>1. failed = {} /\ OthersBack /\ SourceBack /\ TargetBack
    BY <1>1 DEF IInv, SourceHeld, Undoable, CanUndo, After
  <2>2. OthersBack'
    BY <1>1, <2>1 DEF OthersBack, others
  <2>3. SourceBack'
    BY <1>1, <2>1 DEF SourceBack, After, others
  <2>4. TargetBack'
    BY <1>1, <2>1 DEF TargetBack, Kept, Exists, Undo, Undoing, others
  <2>5. QED
    BY <2>2, <2>3, <2>4
<1>7. QED
  BY <1>2, <1>3, <1>4, <1>5, <1>6 DEF IInv

LEMMA RemoveTargetStep == ASSUME IInv, RemoveTarget PROVE IInv'
<1>1. pc = "remove target" /\ Typed /\ run' = run /\ loaded' = loaded /\ overwritten' = overwritten /\ failed' = failed
      /\ base' = base /\ UNCHANGED <<others, targetMoved, sourceMoved>>
  BY DEF RemoveTarget, RemoveStep, IInv, others
<1>2. /\ Exists(TargetBackup(run)) /\ Exists(SourceBackup(run)) /\ failed = {} /\ ~Exists(Old)
      /\ HasSource(New) /\ HasSource(SourceBackup(run)) /\ Says(New, Records)
  BY <1>1 DEF IInv, Present, SourceHeld, Done, After
<1>3. /\ dirs' \in [Dirs -> Bundle \cup {NoDir}]
      /\ \/ pc' = "remove target" /\ dirs'[TargetBackup(run)] \in Bundle
            /\ \A f \in Files : dirs'[TargetBackup(run)][f] \in {dirs[TargetBackup(run)][f], Gone}
         \/ pc' = "remove source" /\ dirs'[TargetBackup(run)] = NoDir
      /\ \A x \in Dirs \ {TargetBackup(run)} : dirs'[x] = dirs[x]
  <2>1. /\ TargetBackup(run) \in Dirs
        /\ RemoveStep("remove target", TargetBackup(run), "remove source")
    BY <1>1, Working DEF RemoveTarget
  <2>2. QED
    BY <1>1, <1>2, <2>1, RemoveEffect
<1>4. Typed'
  <2>1. pc' \in Steps
    BY <1>3 DEF Steps
  <2>2. QED
    BY <1>1, <1>3, <2>1, GoesOnTyped DEF Typed
<1>5. dirs'[Old] = dirs[Old] /\ dirs'[New] = dirs[New]
      /\ dirs'[SourceBackup(run)] = dirs[SourceBackup(run)]
  BY <1>1, <1>3, Working
<1>6. Fresh' /\ SourcePlaces'
  <2>1. OnlySource(Old)' /\ OnlySource(SourceBackup(run))'
    BY <1>1, <1>5, Working DEF IInv, SourcePlaces, OnlySource
  <2>2. QED
    BY <1>1, <1>3, <2>1, OthersKept DEF IInv, Hidden
<1>7. SourceHeld'
  BY <1>1, <1>2, <1>3, <1>5
  DEF SourceHeld, HasSource, Its, Exists, Before, After, Placed, Undo, Undoing
<1>8. Done' /\ Present'
  BY <1>1, <1>2, <1>3, <1>5, Bundles DEF Done, Present, Says, Records, Its, Exists, Placed, After
<1>9. Undoable'
  <2> SUFFICES ASSUME CanUndo' PROVE OthersBack' /\ SourceBack' /\ TargetBack'
    BY DEF Undoable
  <2>1. pc' = "remove target" /\ dirs'[TargetBackup(run)] \in Bundle
        /\ \A f \in Files : dirs'[TargetBackup(run)][f] \in {dirs[TargetBackup(run)][f], Gone}
    BY <1>3 DEF CanUndo, Before, After, Undo, Undoing
  <2>2. OthersBack /\ SourceBack /\ TargetBack
    BY <1>1, <1>2 DEF IInv, Undoable, CanUndo, After
  <2>3. OthersBack'
    BY <1>1, <1>3, <2>2 DEF OthersBack, Hidden
  <2>4. SourceBack'
    BY <1>1, <1>5, <2>1, <2>2 DEF SourceBack
  <2>5. TargetBack'
    <3>1. Kept(TargetBackup(run)) /\ targetMoved
      BY <1>1, <2>2 DEF TargetBack, Undo, Undoing
    <3>2. \A f \in Files : dirs'[TargetBackup(run)][f] \in {base[New][f], Gone}
      BY <1>1, <2>1, <3>1 DEF Kept
    <3>3. Kept(TargetBackup(run))'
      BY <1>1, <2>1, <3>2, Bundles DEF Kept, Exists
    <3>4. QED
      BY <1>1, <2>1, <3>1, <3>3 DEF TargetBack
  <2>6. QED
    BY <2>3, <2>4, <2>5
<1>10. QED
  BY <1>4, <1>6, <1>7, <1>8, <1>9 DEF IInv

LEMMA RemoveSourceStep == ASSUME IInv, RemoveSource PROVE IInv'
<1>1. pc = "remove source" /\ Typed /\ run' = run /\ loaded' = loaded /\ overwritten' = overwritten /\ failed' = failed
      /\ UNCHANGED <<others, targetMoved, sourceMoved>>
  BY DEF RemoveSource, RemoveStep, IInv, others
<1>2. /\ Exists(SourceBackup(run)) /\ failed = {} /\ ~Exists(Old)
      /\ HasSource(New) /\ Says(New, Records)
  BY <1>1 DEF IInv, Present, SourceHeld, Done, After
<1>3. /\ dirs' \in [Dirs -> Bundle \cup {NoDir}]
      /\ \/ pc' = "remove source" /\ dirs'[SourceBackup(run)] \in Bundle
            /\ \A f \in Files : dirs'[SourceBackup(run)][f] \in {dirs[SourceBackup(run)][f], Gone}
         \/ pc' = "audit" /\ dirs'[SourceBackup(run)] = NoDir
      /\ \A x \in Dirs \ {SourceBackup(run)} : dirs'[x] = dirs[x]
  BY <1>1, <1>2, Working, RemoveEffect DEF RemoveSource
<1>4. Typed'
  <2>1. pc' \in Steps
    BY <1>3 DEF Steps
  <2>2. QED
    BY <1>1, <1>3, <2>1, GoesOnTyped DEF Typed
<1>5. dirs'[Old] = dirs[Old] /\ dirs'[New] = dirs[New]
  BY <1>1, <1>3, Working
<1>6. Fresh' /\ SourcePlaces'
  <2>1. OnlySource(Old)'
    BY <1>1, <1>5, Working DEF IInv, SourcePlaces, OnlySource
  <2>2. OnlySource(SourceBackup(run))
    BY <1>1, Working DEF IInv, SourcePlaces
  <2>3. OnlySource(SourceBackup(run))'
    BY <1>1, <1>2, <1>3, <2>2 DEF OnlySource, Exists
  <2>4. QED
    BY <1>1, <1>3, <2>1, <2>3, OthersKept DEF IInv, Hidden
<1>7. SourceHeld'
  BY <1>1, <1>2, <1>3, <1>5
  DEF SourceHeld, HasSource, Its, Exists, Before, After, Placed, Undo, Undoing
<1>8. Done' /\ Present'
  BY <1>1, <1>2, <1>3, <1>5, Bundles DEF Done, Present, Says, Records, Its, Exists, Placed, After
<1>9. Undoable'
  BY <1>3 DEF Undoable, CanUndo, Before, After, Undo, Undoing
<1>10. QED
  BY <1>4, <1>6, <1>7, <1>8, <1>9 DEF IInv

-----------------------------------------------------------------------------
(* The undo.                                                                 *)

LEMMA UndoSourceStep == ASSUME IInv, UndoSource PROVE IInv'
<1>1. /\ pc = "undo source" /\ pc' = "undo target" /\ Typed /\ pc' \in Steps
      /\ dirs' = IF SourceReturns THEN Renamed(SourceBackup(run), Old) ELSE dirs
      /\ UNCHANGED <<others, targetMoved, sourceMoved>>
  BY DEF UndoSource, Goto, IInv, Steps
<1>2. /\ dirs' \in [Dirs -> Bundle \cup {NoDir}]
      /\ IF SourceReturns
         THEN dirs'[Old] = dirs[SourceBackup(run)] /\ dirs'[SourceBackup(run)] = NoDir
         ELSE dirs'[Old] = dirs[Old] /\ dirs'[SourceBackup(run)] = dirs[SourceBackup(run)]
      /\ \A x \in Dirs \ {Old, SourceBackup(run)} : dirs'[x] = dirs[x]
  <2>1. CASE SourceReturns
    BY <1>1, <2>1, Working, RenameEffect
  <2>2. CASE ~SourceReturns
    BY <1>1, <2>2 DEF Typed
  <2>3. QED
    BY <2>1, <2>2
<1>3. Typed'
  BY <1>1, <1>2, GoesOnTyped DEF Typed
<1>4. Fresh' /\ SourcePlaces'
  <2>1. OnlySource(Old) /\ OnlySource(SourceBackup(run))
    BY <1>1, Working DEF IInv, SourcePlaces
  <2>2. OnlySource(Old)' /\ OnlySource(SourceBackup(run))'
    BY <1>1, <1>2, <2>1 DEF OnlySource, others
  <2>3. QED
    BY <1>1, <1>2, <2>2, OthersKept DEF IInv, others, Hidden
<1>5. SourceHeld'
  <2>1. ASSUME "remove source" \notin failed
        PROVE  HasSource(Old)' \/ HasSource(SourceBackup(run))'
    <3>1. HasSource(Old) \/ HasSource(SourceBackup(run))
      BY <1>1, <2>1 DEF IInv, SourceHeld, Undo, Undoing
    <3>2. run' = run /\ loaded' = loaded /\ overwritten' = overwritten
      BY <1>1 DEF others
    <3>3. QED
      BY <1>2, <3>1, <3>2 DEF HasSource, Its, Exists, SourceReturns, SourceBackup
  <2>2. QED
    BY <1>1, <2>1 DEF SourceHeld, Before, After, Placed, Undo, Undoing, others
<1>6. Done' /\ Present'
  BY <1>1 DEF Done, Present, Placed, After
<1>7. Undoable'
  <2> SUFFICES ASSUME CanUndo' PROVE OthersBack' /\ SourceBack' /\ TargetBack'
    BY DEF Undoable
  <2>1. OthersBack /\ SourceBack /\ TargetBack
    BY <1>1 DEF IInv, Undoable, CanUndo, Undo, Undoing, others
  <2>2. OthersBack'
    BY <1>1, <1>2, <2>1 DEF OthersBack, Hidden, others
  <2>3. SourceBack'
    BY <1>1, <1>2, <2>1 DEF SourceBack, OthersBack, SourceReturns, Exists, After, others
  <2>4. dirs'[New] = dirs[New] /\ dirs'[TargetBackup(run)] = dirs[TargetBackup(run)]
    BY <1>1, <1>2, Working
  <2>5. TargetBack'
    BY <1>1, <2>1, <2>4 DEF TargetBack, Kept, Exists, Undo, Undoing, others
  <2>6. QED
    BY <2>2, <2>3, <2>5
<1>8. QED
  BY <1>3, <1>4, <1>5, <1>6, <1>7 DEF IInv

\* The directory that took the place of the displaced release is removed.
LEMMA UndoTargetStep == ASSUME IInv, UndoTarget PROVE IInv'
<1>1. /\ pc = "undo target" /\ pc' \in {"undo target", "undo backup"} /\ Typed
      /\ run' = run /\ loaded' = loaded /\ overwritten' = overwritten /\ failed' = failed /\ base' = base
      /\ UNCHANGED <<others, targetMoved, sourceMoved>>
  BY DEF UndoTarget, RemoveStep, Goto, IInv, others
<1>2. /\ dirs' \in [Dirs -> Bundle \cup {NoDir}]
      /\ \/ Exists(New) /\ targetMoved /\ (pc' = "undo backup" => dirs'[New] = NoDir)
         \/ ~(Exists(New) /\ targetMoved) /\ pc' = "undo backup" /\ dirs'[New] = dirs[New]
      /\ \A x \in Dirs \ {New} : dirs'[x] = dirs[x]
  <2>1. CASE Exists(New) /\ targetMoved /\ RemoveStep("undo target", New, "undo backup")
    BY <1>1, <2>1, Working, RemoveEffect
  <2>2. CASE ~(Exists(New) /\ targetMoved) /\ pc' = "undo backup" /\ dirs' = dirs
    BY <2>2, <1>1 DEF Typed
  <2>3. QED
    BY <2>1, <2>2 DEF UndoTarget, Goto
<1>3. Typed'
  <2>1. pc' \in Steps
    BY <1>1 DEF Steps
  <2>2. QED
    BY <1>1, <1>2, <2>1, GoesOnTyped DEF Typed
<1>4. dirs'[Old] = dirs[Old] /\ dirs'[SourceBackup(run)] = dirs[SourceBackup(run)]
      /\ dirs'[TargetBackup(run)] = dirs[TargetBackup(run)]
  BY <1>1, <1>2, Working
<1>5. Fresh' /\ SourcePlaces'
  <2>1. OnlySource(Old)' /\ OnlySource(SourceBackup(run))'
    BY <1>1, <1>4, Working DEF IInv, SourcePlaces, OnlySource
  <2>2. QED
    BY <1>1, <1>2, <2>1, OthersKept DEF IInv
<1>6. SourceHeld'
  <2>1. Its' = Its
    BY <1>1 DEF Its
  <2>2. QED
    BY <1>1, <1>4, <2>1
    DEF IInv, SourceHeld, HasSource, Exists, Before, After, Placed, Undo, Undoing
<1>7. Done' /\ Present'
  BY <1>1 DEF Done, Present, Placed, After
<1>8. Undoable'
  <2> SUFFICES ASSUME CanUndo' PROVE OthersBack' /\ SourceBack' /\ TargetBack'
    BY DEF Undoable
  <2>1. OthersBack /\ SourceBack /\ TargetBack
    BY <1>1 DEF IInv, Undoable, CanUndo, Undo, Undoing
  <2>2. OthersBack'
    BY <1>1, <1>2, <2>1 DEF OthersBack, Hidden
  <2>3. SourceBack'
    BY <1>1, <1>4, <2>1 DEF SourceBack, After
  <2>4. Kept(TargetBackup(run)) => Kept(TargetBackup(run))'
    BY <1>1, <1>4 DEF Kept, Exists
  <2>5. TargetBack'
    BY <1>1, <1>2, <1>4, <2>1, <2>4 DEF TargetBack, Exists, Undo, Undoing
  <2>6. QED
    BY <2>2, <2>3, <2>5
<1>9. QED
  BY <1>3, <1>5, <1>6, <1>7, <1>8 DEF IInv

LEMMA UndoBackupStep == ASSUME IInv, UndoBackup PROVE IInv'
<1> DEFINE returns == Exists(TargetBackup(run)) /\ ~Exists(New)
<1>1. /\ pc = "undo backup" /\ pc' = "cleanup" /\ Typed /\ pc' \in Steps
      /\ run' = run /\ loaded' = loaded /\ overwritten' = overwritten /\ failed' = failed /\ base' = base
      /\ dirs' = IF returns THEN Renamed(TargetBackup(run), New) ELSE dirs
      /\ UNCHANGED <<others, targetMoved, sourceMoved>>
  BY DEF UndoBackup, Goto, IInv, Steps, others
<1>2. /\ dirs' \in [Dirs -> Bundle \cup {NoDir}]
      /\ IF returns
         THEN dirs'[New] = dirs[TargetBackup(run)] /\ dirs'[TargetBackup(run)] = NoDir
         ELSE dirs'[New] = dirs[New] /\ dirs'[TargetBackup(run)] = dirs[TargetBackup(run)]
      /\ \A x \in Dirs \ {New, TargetBackup(run)} : dirs'[x] = dirs[x]
  <2>1. CASE returns
    BY <1>1, <2>1, Working, RenameEffect
  <2>2. CASE ~returns
    BY <1>1, <2>2 DEF Typed
  <2>3. QED
    BY <2>1, <2>2
<1>3. Typed'
  BY <1>1, <1>2, GoesOnTyped DEF Typed
<1>4. dirs'[Old] = dirs[Old] /\ dirs'[SourceBackup(run)] = dirs[SourceBackup(run)]
  BY <1>1, <1>2, Working
<1>5. Fresh' /\ SourcePlaces'
  <2>1. OnlySource(Old)' /\ OnlySource(SourceBackup(run))'
    BY <1>1, <1>4, Working DEF IInv, SourcePlaces, OnlySource
  <2>2. QED
    BY <1>1, <1>2, <2>1, OthersKept DEF IInv, Hidden
<1>6. SourceHeld'
  <2>1. Its' = Its
    BY <1>1 DEF Its
  <2>2. QED
    BY <1>1, <1>4, <2>1
    DEF IInv, SourceHeld, HasSource, Exists, Before, After, Placed, Undo, Undoing
<1>7. Done' /\ Present'
  BY <1>1 DEF Done, Present, Placed, After
<1>8. Undoable'
  <2> SUFFICES ASSUME CanUndo' PROVE OthersBack' /\ SourceBack' /\ TargetBack'
    BY DEF Undoable
  <2>1. OthersBack /\ SourceBack /\ TargetBack
    BY <1>1 DEF IInv, Undoable, CanUndo, Undo, Undoing
  <2>2. OthersBack'
    BY <1>1, <1>2, <2>1 DEF OthersBack, Hidden
  <2>3. SourceBack'
    BY <1>1, <1>4, <2>1 DEF SourceBack, After
  <2>4. TargetBack'
    BY <1>1, <1>2, <2>1 DEF TargetBack, OthersBack, Kept, Exists, Undo, Undoing
  <2>5. QED
    BY <2>2, <2>3, <2>4
<1>9. QED
  BY <1>3, <1>5, <1>6, <1>7, <1>8 DEF IInv

LEMMA CleanupStep == ASSUME IInv, Cleanup PROVE IInv'
<1>1. /\ pc = "cleanup" /\ pc' = "idle" /\ Typed /\ pc' \in Steps
      /\ run' = run /\ loaded' = loaded /\ overwritten' = overwritten /\ failed' = failed
      /\ dirs' = [dirs EXCEPT ![Staged(run)] = NoDir]
      /\ UNCHANGED <<others, targetMoved, sourceMoved>>
  BY DEF Cleanup, Goto, IInv, Steps, others
<1>2. /\ dirs' \in [Dirs -> Bundle \cup {NoDir}]
      /\ \A x \in Dirs \ {Staged(run)} : dirs'[x] = dirs[x]
  BY <1>1 DEF Typed
<1>3. Typed'
  BY <1>1, <1>2, GoesOnTyped DEF Typed
<1>4. dirs'[Old] = dirs[Old] /\ dirs'[SourceBackup(run)] = dirs[SourceBackup(run)]
  BY <1>1, <1>2, Working
<1>5. Fresh' /\ SourcePlaces'
  <2>1. OnlySource(Old)' /\ OnlySource(SourceBackup(run))'
    BY <1>1, <1>4, Working DEF IInv, SourcePlaces, OnlySource
  <2>2. QED
    BY <1>1, <1>2, <2>1, OthersKept DEF IInv, Hidden
<1>6. SourceRecoverable'
  <2> SUFFICES ASSUME "remove source" \notin failed PROVE SourceWhole'
    BY <1>1 DEF SourceRecoverable
  <2>1. HasSource(Old) \/ HasSource(SourceBackup(run))
    BY <1>1 DEF IInv, SourceHeld, Undo
  <2>2. Its' = Its /\ Old \in Dirs /\ SourceBackup(run) \in Dirs
    BY <1>1, Working DEF Its
  <2>3. QED
    BY <1>1, <1>4, <2>1, <2>2 DEF HasSource, SourceWhole, Exists
<1>7. SourceHeld' /\ Done' /\ Present' /\ Undoable'
  BY <1>1, <1>6
  DEF SourceHeld, Done, Present, Undoable, CanUndo, Before, After, Placed, Undo, Undoing
<1>8. QED
  BY <1>3, <1>5, <1>7 DEF IInv

-----------------------------------------------------------------------------
(* The invariant holds.                                                      *)

LEMMA InitInv == ASSUME Init PROVE IInv
<1>1. PICK target \in {NoDir, Whole("displaced", "new")}, audit \in BOOLEAN :
        dirs = [d \in Dirs |->
            IF d = Old
            THEN [f \in Files |-> IF f = "audit" /\ ~audit THEN Gone
                                  ELSE [of |-> "source", says |-> "old"]]
            ELSE IF d = New THEN target ELSE NoDir]
  BY DEF Init
<1>2. /\ successor = "old" /\ section = "old" /\ events = {} /\ pc = "idle" /\ loaded = {}
      /\ targetMoved = FALSE /\ sourceMoved = FALSE /\ run = 0 /\ errors = 0 /\ kills = 0
      /\ base = dirs /\ failed = {} /\ stale = Gone /\ overwritten = FALSE
  BY DEF Init
<1> DEFINE source == [f \in Files |-> IF f = "audit" /\ ~audit THEN Gone
                                      ELSE [of |-> "source", says |-> "old"]]
<1>3. source \in Bundle /\ target \in Bundle \cup {NoDir}
  BY DEF Bundle, File, Whole
<1>4. source["release"] = [of |-> "source", says |-> "old"] /\ source # NoDir
  BY <1>3, Bundles
<1>5. \A f \in Files : source[f] = Gone \/ source[f].of = "source"
  OBVIOUS
<1> HIDE DEF source
<1>6. dirs = [d \in Dirs |-> IF d = Old THEN source ELSE IF d = New THEN target ELSE NoDir]
  BY <1>1 DEF source
<1>7. Old \in Dirs /\ New \in Dirs /\ Old # New
  BY DEF Dirs, Old, New
<1>8. \A n \in 1..MaxRuns : \A d \in Hidden(n) : dirs[d] = NoDir
  BY <1>6, Distinct DEF Hidden
<1>9. Typed
  <2>1. pc \in Steps
    BY <1>2 DEF Steps
  <2>2. run \in 0..MaxRuns
    BY <1>2, BundleMoveAssumption
  <2>3. dirs \in [Dirs -> Bundle \cup {NoDir}]
    BY <1>3, <1>6
  <2>4. QED
    BY <1>2, <2>1, <2>2, <2>3 DEF Typed
<1>10. Fresh /\ SourcePlaces
  BY <1>5, <1>6, <1>7, <1>8 DEF Fresh, SourcePlaces, OnlySource, Hidden
<1>11. SourceRecoverable
  <2>1. dirs[Old] = source
    BY <1>6, <1>7
  <2>2. [of |-> "source", says |-> "old"] # Gone
    BY Bundles DEF File
  <2>3. QED
    BY <1>2, <1>4, <1>7, <2>1, <2>2 DEF SourceRecoverable, SourceWhole, Its, Exists
<1>12. SourceHeld /\ Done /\ Present /\ Undoable
  BY <1>2, <1>11
  DEF SourceHeld, Done, Present, Undoable, CanUndo, Before, After, Placed, Undo, Undoing
<1>13. QED
  BY <1>9, <1>10, <1>12 DEF IInv

LEMMA StutterInv == ASSUME IInv, UNCHANGED vars PROVE IInv'
<1>1. UNCHANGED <<dirs, successor, section, events, pc, loaded, stale, targetMoved, sourceMoved,
                  run, errors, kills, base, failed, overwritten>>
  BY DEF vars
<1>2. Typed' /\ Fresh' /\ SourcePlaces'
  BY <1>1 DEF IInv, Typed, Fresh, SourcePlaces, OnlySource
<1>3. SourceHeld'
  BY <1>1 DEF IInv, SourceHeld, HasSource, Its, SourceRecoverable, SourceWhole, Exists
<1>4. Done' /\ Present'
  BY <1>1 DEF IInv, Done, Present, Says, Records, Its, Exists
<1>5. Undoable'
  BY <1>1 DEF IInv, Undoable, CanUndo, OthersBack, SourceBack, TargetBack, Kept, Exists
<1>6. QED
  BY <1>2, <1>3, <1>4, <1>5 DEF IInv

LEMMA NextInv == ASSUME IInv, [Next]_vars PROVE IInv'
<1>1. ASSUME NEW replacing \in BOOLEAN, Start(replacing) PROVE IInv'
  BY <1>1, StartStep
<1>2. ASSUME NEW e \in Entries, SaveEntry(e) PROVE IInv'
  BY <1>2, SaveEntryStep
<1>3. QED
  BY <1>1, <1>2, StutterInv, RenameBundleStep, SaveReleaseStep, EntriesSavedStep, CopyStep,
     TargetAwayStep, FlagTargetStep, PutStep, SourceAwayStep, FlagSourceStep, RemoveTargetStep,
     RemoveSourceStep, UndoSourceStep, UndoTargetStep, UndoBackupStep, CleanupStep,
     SaveAuditStep, RelinkSuccessorStep, SaveStaleStep, RefuseStaleStep, SuccessorsSavedStep,
     AppendEventStep, WriteChangelogStep, FailStep, KillStep DEF Next

LEMMA Invariant == Spec => []IInv
<1>1. Init => IInv
  BY InitInv
<1>2. IInv /\ [Next]_vars => IInv'
  BY NextInv
<1>3. QED
  BY <1>1, <1>2, PTL DEF Spec

-----------------------------------------------------------------------------
(* The theorems.                                                             *)

\* Every state of the command is one of the types of the model
\* (rename_release_bundle, replace_canceled_release_bundle).
THEOREM Types == Spec => []TypeOK
<1>1. IInv => TypeOK
  BY BundleMoveAssumption DEF IInv, Typed, TypeOK
<1>2. QED
  BY <1>1, Invariant, PTL

\* Whatever fails and whenever rename_release is killed, its source is whole in one
\* directory, unless the removal of its backup failed half-way; its record only as
\* long as no displaced release, a successor itself, was saved over it.
THEOREM SourceStaysWhole == Spec => []SourceRecoverable
<1>1. IInv => SourceRecoverable
  BY HeldIsRecoverable DEF IInv
<1>2. QED
  BY <1>1, Invariant, PTL

\* A replacement that fails leaves the two releases as they were and no directory of
\* its own: the except and finally clauses of replace_canceled_release_bundle.
THEOREM ReplacementsAreUndone == Spec => UndoRestores
<1> DEFINE Restored == \A d \in Dirs :
               IF d = New /\ "remove target" \in failed
               THEN \A f \in Files : dirs'[New][f] \in {base[New][f], Gone}
               ELSE dirs'[d] = base[d]
           Step == pc = "cleanup" /\ kills' = kills
                     /\ failed # {} /\ failed \subseteq Guarded \ {"flag source", "remove source"}
                   => Restored
<1>1. ASSUME IInv, Next, pc = "cleanup", kills' = kills,
             failed \subseteq Guarded \ {"flag source", "remove source"}
      PROVE  Restored
  <2>1. Cleanup
    <3>1. ~Kill
      <4>1. kills \in Nat
        BY <1>1 DEF IInv, Typed
      <4>2. kills + 1 # kills
        BY <4>1
      <4>3. QED
        BY <1>1, <4>2 DEF Kill
    <3>2. QED
      BY <1>1, <3>1 DEF Next, Start, RenameBundle, SaveRelease, SaveEntry, EntriesSaved, Copy,
           TargetAway, FlagTarget, Put, SourceAway, FlagSource, MoveStep, RemoveTarget, RemoveSource,
           RemoveStep, UndoSource, UndoTarget, UndoBackup, SaveAudit, RelinkSuccessor, SaveStale,
           RefuseStale, SuccessorsSaved, AppendEvent, WriteChangelog, Fail
  <2>2. OthersBack /\ SourceBack /\ TargetBack
    BY <1>1 DEF IInv, Undoable, CanUndo, Undo
  <2>3. Typed /\ dirs' = [dirs EXCEPT ![Staged(run)] = NoDir]
    BY <1>1, <2>1 DEF Cleanup, IInv
  <2>4. /\ dirs'[Staged(run)] = NoDir
        /\ \A x \in Dirs \ {Staged(run)} : dirs'[x] = dirs[x]
    BY <1>1, <2>3, Working DEF Typed
  <2>5. dirs'[Old] = base[Old] /\ dirs'[SourceBackup(run)] = base[SourceBackup(run)]
    BY <1>1, <2>2, <2>3, <2>4, Working DEF SourceBack, OthersBack, Hidden, After
  <2>6. /\ dirs'[TargetBackup(run)] = base[TargetBackup(run)]
        /\ IF "remove target" \in failed
           THEN \A f \in Files : dirs'[New][f] \in {base[New][f], Gone}
           ELSE dirs'[New] = base[New]
    BY <1>1, <2>2, <2>3, <2>4, Working DEF TargetBack, Kept, OthersBack, Hidden
  <2>7. ASSUME NEW d \in Dirs, d \notin Hidden(run) \cup {Old, New}
        PROVE  dirs'[d] = base[d]
    BY <2>2, <2>4, <2>7 DEF OthersBack, Hidden
  <2>8. dirs'[Staged(run)] = base[Staged(run)]
    BY <2>2, <2>4 DEF OthersBack, Hidden
  <2>9. QED
    BY <2>5, <2>6, <2>7, <2>8 DEF Hidden
<1>2. IInv /\ [Next]_vars => [Step]_vars
  BY <1>1
<1>3. QED
  BY <1>2, Invariant, PTL DEF Spec, UndoRestores

\* The event release.renamed is true: the bundle says the new version in every file,
\* the old directory is gone and the successor is linked when it is appended.  The
\* record is excepted if a displaced release was one of the successors.
THEOREM RenamesAreComplete == Spec => EventIsTrue
<1> DEFINE Complete == ~Exists(Old)
                       /\ (\A f \in Its : dirs[New][f] = [of |-> "source", says |-> "new"])
                       /\ successor = "new"
<1>1. ASSUME IInv, Next, events' # events
      PROVE  Complete
  <2>1. AppendEvent
    BY <1>1 DEF Next, Start, RenameBundle, SaveRelease, SaveEntry, EntriesSaved, Copy,
         TargetAway, FlagTarget, Put, SourceAway, FlagSource, MoveStep, RemoveTarget, RemoveSource,
         RemoveStep, UndoSource, UndoTarget, UndoBackup, Cleanup, SaveAudit, RelinkSuccessor,
         SaveStale, RefuseStale, SuccessorsSaved, WriteChangelog, Fail, Kill, others
  <2>2. pc = "event"
    BY <2>1 DEF AppendEvent
  <2>3. QED
    BY <1>1, <2>2 DEF IInv, Done, Says, Placed
<1>2. IInv /\ [Next]_vars => [events' # events => Complete]_vars
  BY <1>1
<1>3. QED
  BY <1>2, Invariant, PTL DEF Spec, EventIsTrue
=============================================================================
