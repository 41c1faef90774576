-------------------------- MODULE MCChangelogFile -------------------------
(* ChangelogFile with a release, its candidate and a third one.            *)
EXTENDS ChangelogFile

CONSTANTS p1, p2

Old == <<"0.9.0">>
Rc == <<"1.0.0", "rc1">>
New == <<"1.0.0">>
Hand == Note(<<"by hand">>)

MCVersions == {Old, Rc, New}
MCNewest == <<New, Rc, Old>>
MCPrevious == (New :> Old) @@ (Rc :> NoVersion) @@ (Old :> NoVersion)
MCCandidates == {New}
MCEmpty == {Old}
MCProcs == {p1, p2}

\* No file; one with manual notes, its last section followed by a reference;
\* one with Unreleased alone.
MCFirstFiles ==
    {<<>>,
     <<Title, Unreleased, Hand, Heading(Old), Note(Old), Hand, Ref(Old)>>,
     <<Title, Unreleased, Hand, Ref(NoVersion)>>}

Processes == Permutations(MCProcs)
===========================================================================
