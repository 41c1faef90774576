--------------------------- MODULE ChangelogFile --------------------------
(***************************************************************************)
(* CHANGELOG.md and the commands that edit it: changelog build VERSION     *)
(* (insert or replace one section, restore the order of the others, merge  *)
(* the link references), changelog build --all (rewrite the whole file     *)
(* from the records, keeping or folding the Unreleased body), changelog    *)
(* section remove and rename.                                              *)
(*                                                                         *)
(* None of them takes the write lock: a command reads the file and the     *)
(* records, works on what it read, and replaces the file at the end.  That *)
(* write is atomic, so a killed command leaves the file as it was, like a  *)
(* command that was never started.                                         *)
(*                                                                         *)
(* The file is a sequence of lines.  The text of a line is abstracted to   *)
(* its kind and the release it is about; a version is a sequence of parts, *)
(* <<"1.0.0", "rc1">> for 1.0.0-rc1, because a section is found by a       *)
(* pattern that any heading beginning with the version matches.  Blank     *)
(* lines, dates and URLs are left out; the config asks for Keep a          *)
(* Changelog with link references.                                         *)
(***************************************************************************)
EXTENDS Naturals, SequencesExt

CONSTANTS
    Versions,    \* versions of releases, without the prefix v
    Newest,      \* Versions as a sequence: latest date, then highest version
    Previous,    \* version -> its previous_version, NoVersion if it has none
    Candidates,  \* the releases that are candidates in the beginning
    Empty,       \* the releases without a visible entry
    FirstFiles,  \* what the file may be before the first command
    Procs,       \* processes of the CLI
    MaxRuns,     \* bound: commands that write the file
    MaxChanges   \* bound: changes of a status

NoVersion == <<>>
Statuses == {"candidate", "released", "canceled"}

ASSUME ChangelogAssumption ==
    /\ NoVersion \notin Versions
    /\ Versions \subseteq Seq(STRING)
    /\ Newest \in Seq(Versions)
    /\ ToSet(Newest) = Versions /\ Len(Newest) = Cardinality(Versions)
    /\ Previous \in [Versions -> Versions \cup {NoVersion}]
    /\ Empty \subseteq Versions /\ Candidates \subseteq Versions
    /\ MaxRuns \in Nat /\ MaxChanges \in Nat

VARIABLES
    file,      \* the lines of the changelog, <<>> when there is none
    status,    \* version -> status of its record
    pc,        \* process -> "idle" or "write"
    job,       \* process -> its command, what it read and what it will write
    runs,      \* number of commands started
    changes    \* number of changes of a status

vars == <<file, status, pc, job, runs, changes>>

Line(k, v) == [kind |-> k, of |-> v]
Title == Line("title", NoVersion)          \* with the notice and the preamble
Unreleased == Line("unreleased", NoVersion)
Heading(v) == Line("heading", v)
Note(v) == Line("note", v)                 \* a bullet rendered from an entry of v
Sentinel == Line("sentinel", NoVersion)
Ref(v) == Line("ref", v)                   \* NoVersion: the one named Unreleased

NoNames == {}
Job(c, v, names) ==
    [command |-> c, version |-> v, to |-> NoVersion, option |-> "none",
     names |-> names, base |-> <<>>, records |-> NoNames, text |-> <<>>]
NoJob == Job("none", NoVersion, NoNames)

Init ==
    /\ file \in FirstFiles
    /\ status = [v \in Versions |-> IF v \in Candidates THEN "candidate" ELSE "released"]
    /\ pc = [p \in Procs |-> "idle"]
    /\ job = [p \in Procs |-> NoJob]
    /\ runs = 0
    /\ changes = 0

-----------------------------------------------------------------------------
(* Finding and cutting.  A span <<a, b>> is the lines a .. b - 1.          *)

Level2 == {"unreleased", "heading"}

\* The first line of one of the kinds at or after i, Len(f) + 1 if none.
FirstOf(f, kinds, i) ==
    Min({j \in i..Len(f) : f[j].kind \in kinds} \cup {Len(f) + 1})
Has(f, kind) == \E i \in DOMAIN f : f[i].kind = kind

Splice(f, span, s) == SubSeq(f, 1, span[1] - 1) \o s \o SubSeq(f, span[2], Len(f))

\* find_release_section: the first heading that begins with v, with the lines
\* up to the next heading or the end of the file.  NoSpan for None.
NoSpan == <<0, 0>>
FoundAt(f, v) == Min({i \in DOMAIN f : f[i].kind = "heading" /\ IsPrefix(v, f[i].of)}
                     \cup {Len(f) + 1})

\* Variant: the section runs to the end of the file.
FindToTheEnd(f, v) ==
    LET i == FoundAt(f, v) IN IF i > Len(f) THEN NoSpan ELSE <<i, Len(f) + 1>>

FindSection(f, v) ==
    LET i == FoundAt(f, v) IN IF i > Len(f) THEN NoSpan ELSE <<i, FirstOf(f, Level2, i + 1)>>

-----------------------------------------------------------------------------
(* The order of the releases of a document.                                *)

\* The elements of s that are in T.
Among(s, T) == FlattenSeq([i \in DOMAIN s |-> IF s[i] \in T THEN <<s[i]>> ELSE <<>>])

\* From v by previous_version, to the first version that is not among the
\* records or that was met before; no chain is longer than all versions.
Chain(v, records) ==
    LET at[n \in 0 .. Len(Newest)] ==
            IF n = 0 THEN v
            ELSE IF at[n - 1] \in records THEN Previous[at[n - 1]] ELSE NoVersion
        ends == {n \in 0 .. Len(Newest) :
                    at[n] \notin records \/ \E m \in 0 .. n - 1 : at[m] = at[n]}
    IN [k \in 1 .. Min(ends \cup {Len(Newest)}) |-> at[k - 1]]

\* Each element where it comes first.
Firsts(s) ==
    LET first == Among([i \in DOMAIN s |-> i],
                       {i \in DOMAIN s : \A j \in 1 .. i - 1 : s[j] # s[i]})
    IN [k \in DOMAIN first |-> s[first[k]]]

\* _order_releases_for_changelog: the previous_version chains of the heads, and
\* what no chain reached; heads and rest newest first, undated records last.
Order(records) ==
    LET dated == {v \in records : status[v] = "released"}
        fallback == Among(Newest, dated) \o Among(Newest, records \ dated)
        heads == Among(fallback, {v \in records : \A w \in records : Previous[w] # v})
        walked == FlattenSeq([k \in DOMAIN heads |-> Chain(heads[k], records)])
    IN Firsts(walked \o fallback)

Active == {v \in Versions : status[v] # "canceled"}

\* Variant: the sections stay where they are.
ReorderNothing(f, records) == f

\* The spans in the order of the file.
InFileOrder(spans) ==
    LET Places == DOMAIN spans
        order == CHOOSE p \in [Places -> Places] :
                    \A i, j \in Places : i < j =>
                        p[i] # p[j] /\ spans[p[i]][1] <= spans[p[j]][1]
    IN [k \in Places |-> spans[order[k]]]

\* reorder_managed_release_sections: the sections that are found for the
\* records change places, the lines between them do not.
Reorder(f, records) ==
    LET present == Among(Order(records), {v \in Versions : FindSection(f, v) # NoSpan})
        span == [k \in DOMAIN present |-> FindSection(f, present[k])]
        slots == InFileOrder(span)
        Moved(k) == SubSeq(f, span[k][1], span[k][2] - 1)
        Gap(k) == SubSeq(f, IF k = 1 THEN 1 ELSE slots[k - 1][2], slots[k][1] - 1)
    IN IF Len(present) < 2 THEN f
       ELSE FlattenSeq([k \in DOMAIN present |-> Gap(k) \o Moved(k)])
            \o SubSeq(f, slots[Len(present)][2], Len(f))

-----------------------------------------------------------------------------
(* Link references.  Only those after the last line of another kind are    *)
(* seen; they are written in a fixed order.                                *)

RefLines(names) ==
    LET listed == Among(<<NoVersion>> \o Newest, names)
    IN [k \in DOMAIN listed |-> Ref(listed[k])]

UpdateRefs(f, names) ==
    LET last == Max({i \in DOMAIN f : f[i].kind # "ref"} \cup {0})
        old == {f[i].of : i \in last + 1 .. Len(f)}
    IN SubSeq(f, 1, last) \o RefLines(old \cup names)

-----------------------------------------------------------------------------
(* One section: build VERSION, section remove and section rename.          *)

\* render_changelog_section.
Section(v) == <<Heading(v)>> \o (IF v \in Empty THEN <<>> ELSE <<Note(v)>>)

\* insert_release_section: below Unreleased, else before the first section,
\* else under the title, else in a new file.
Insert(f, v) ==
    LET under == FirstOf(f, {"unreleased"}, 1)
        at == IF Has(f, "unreleased") THEN FirstOf(f, Level2, under + 1)
              ELSE IF Has(f, "heading") THEN FirstOf(f, Level2, 1)
              ELSE FirstOf(f, {"title"}, 1) + 1
    IN IF {f[i].kind : i \in DOMAIN f} \cap (Level2 \cup {"title"}) = {}
       THEN <<Title, Unreleased>> \o Section(v) \o RefLines({NoVersion, v})
       ELSE Splice(f, <<at, at>>, Section(v))

\* The body under Unreleased: it ends at the next heading or reference.
BodyAt(f, ends) ==
    LET i == FirstOf(f, {"unreleased"}, 1) + 1 IN <<i, FirstOf(f, ends, i)>>

\* Variant: only a reference ends the body.
BodyToRefs(f) == BodyAt(f, {"ref"})

BodySpan(f) == BodyAt(f, Level2 \cup {"ref"})
Body(f) == IF Has(f, "unreleased")
           THEN SubSeq(f, BodySpan(f)[1], BodySpan(f)[2] - 1) ELSE <<>>
ClearBody(f) == IF Has(f, "unreleased") THEN Splice(f, BodySpan(f), <<>>) ELSE f

\* Variant: a build does not look for the section it is about to insert.
InsertAnyway(f, v, replace) == TRUE

\* A section that exists is only replaced when that is asked for.
MayBuild(f, v, replace) == FindSection(f, v) # NoSpan => replace

Built(f, v, replace) ==
    LET merged == IF replace /\ FindSection(f, v) # NoSpan
                  THEN Splice(f, FindSection(f, v), Section(v))
                  ELSE Insert(f, v)
    IN UpdateRefs(Reorder(merged, Active), {NoVersion, v})

Removed(f, v) == IF FindSection(f, v) = NoSpan THEN f ELSE Splice(f, FindSection(f, v), <<>>)

\* rename_release_section replaces the version in the heading it found.
Renamed(f, v, w) ==
    LET i == FindSection(f, v)[1] IN
    IF i = 0 THEN f
    ELSE [f EXCEPT ![i] = Heading(w \o SubSeq(f[i].of, Len(v) + 1, Len(f[i].of)))]

-----------------------------------------------------------------------------
(* The whole document: build --all.                                        *)

\* _wrap_generated_unreleased_body
Generated(v) == <<Line("start", v), Note(v), Line("end", NoVersion)>>

\* Variant: the folded body stays.
KeepGenerated(body, selected) == body

\* Variant: the end marker stays.
StripOneShort(body, selected) ==
    LET i == FirstOf(body, {"start"}, 1)
        j == FirstOf(body, {"end"}, i + 1)
    IN IF j <= Len(body) /\ body[i].of \in selected
       THEN Splice(body, <<i, j>>, <<>>) ELSE body

\* _strip_stale_generated_unreleased_body: the first generated block goes when
\* its release is among the selected ones.
StripGenerated(body, selected) ==
    LET i == FirstOf(body, {"start"}, 1)
        j == FirstOf(body, {"end"}, i + 1)
    IN IF j <= Len(body) /\ body[i].of \in selected
       THEN Splice(body, <<i, j + 1>>, <<>>) ELSE body

\* names: the statuses whose releases are included; fold: --unreleased-version.
Selected(names, fold) ==
    Among(Order({v \in Active : status[v] \in names}), Versions \ {fold})

Full(f, names, fold, preserve) ==
    LET selected == Selected(names, fold)
        kept == IF preserve THEN Body(f) ELSE <<>>
        body == IF fold # NoVersion /\ fold \notin Empty THEN Generated(fold) ELSE kept
        fresh == IF preserve THEN StripGenerated(body, ToSet(selected)) ELSE body
        head == IF fresh = <<>> THEN <<>> ELSE <<Unreleased>> \o fresh
        named == ToSet(selected) \cup (IF fresh = <<>> THEN {} ELSE {NoVersion})
    IN <<Title>> \o head \o FlattenSeq([k \in DOMAIN selected |-> Section(selected[k])])
       \o <<Sentinel>> \o RefLines(named)

-----------------------------------------------------------------------------
(* The commands.  Each reads file and records, and will write text.        *)

Start(p, j, text) ==
    /\ runs < MaxRuns
    /\ pc[p] = "idle"
    /\ runs' = runs + 1
    /\ pc' = [pc EXCEPT ![p] = "write"]
    /\ job' = [job EXCEPT ![p] = [j EXCEPT !.base = file, !.records = Active, !.text = text]]
    /\ UNCHANGED <<file, status, changes>>

\* policy: --unreleased-policy; consume and managed clear the Unreleased body.
Build(p, v, replace, policy) ==
    LET text == IF policy = "consume" THEN ClearBody(file) ELSE file IN
    /\ status[v] # "canceled"
    /\ MayBuild(text, v, replace)
    /\ Start(p, [Job("build", v, NoNames) EXCEPT !.option = policy], Built(text, v, replace))

BuildAll(p, names, fold, preserve) ==
    /\ fold # NoVersion => status[fold] = "candidate"
    /\ Start(p, [Job("all", fold, names) EXCEPT !.option = IF preserve THEN "preserve" ELSE "drop"],
             Full(file, names, fold, preserve))

\* Without --ignore-missing a section that is not found is an error.
RemoveSection(p, v, ignore) ==
    /\ FindSection(file, v) = NoSpan => ignore
    /\ Start(p, Job("remove", v, NoNames), Removed(file, v))

RenameSection(p, v, w, replace) ==
    /\ v # w
    /\ FindSection(file, v) # NoSpan
    /\ FindSection(file, w) # NoSpan => replace
    /\ Start(p, [Job("rename", v, NoNames) EXCEPT !.to = w], Renamed(file, v, w))

Write(p) ==
    /\ pc[p] = "write"
    /\ file' = job[p].text
    /\ pc' = [pc EXCEPT ![p] = "idle"]
    /\ job' = [job EXCEPT ![p] = NoJob]
    /\ UNCHANGED <<status, runs, changes>>

\* Commands on the records: finalize, cancel, restore.
ChangeStatus(v, s) ==
    /\ changes < MaxChanges
    /\ <<status[v], s>> \in {<<"candidate", "released">>, <<"candidate", "canceled">>,
                             <<"released", "canceled">>, <<"canceled", "candidate">>}
    /\ status' = [status EXCEPT ![v] = s]
    /\ changes' = changes + 1
    /\ UNCHANGED <<file, pc, job, runs>>

\* Nothing is left to do within the bounds.
Rest ==
    /\ runs = MaxRuns /\ \A p \in Procs : pc[p] = "idle"
    /\ UNCHANGED vars

Next ==
    \/ \E p \in Procs : Write(p)
    \/ \E p \in Procs, v \in Versions, replace \in BOOLEAN, policy \in {"preserve", "consume"} :
          Build(p, v, replace, policy)
    \/ \E p \in Procs, names \in {{"released"}, {"released", "candidate"}},
          fold \in Versions \cup {NoVersion}, preserve \in BOOLEAN :
          BuildAll(p, names, fold, preserve)
    \/ \E p \in Procs, v \in Versions, ignore \in BOOLEAN : RemoveSection(p, v, ignore)
    \/ \E p \in Procs, v \in Versions, w \in Versions, replace \in BOOLEAN :
          RenameSection(p, v, w, replace)
    \/ \E v \in Versions, s \in Statuses : ChangeStatus(v, s)
    \/ Rest

Spec == Init /\ [][Next]_vars

-----------------------------------------------------------------------------
(* Properties                                                              *)

Headings(f) == {f[i].of : i \in {j \in DOMAIN f : f[j].kind = "heading"}}
Notes(f) == SelectSeq(f, LAMBDA l : l.kind = "note")
NotesOf(f, v) ==
    LET i == Min({j \in DOMAIN f : f[j] = Heading(v)}) IN
    Notes(SubSeq(f, i, FirstOf(f, Level2, i + 1) - 1))
Twice(f) == {v \in Headings(f) : \E i, j \in DOMAIN f : i # j /\ f[i] = Heading(v) /\ f[j] = Heading(v)}

\* The search for a record's section ends at a longer version's heading.
Mistaken(f, records) ==
    \E v \in records : FindSection(f, v) # NoSpan /\ f[FindSection(f, v)[1]] # Heading(v)

Starts(p) == pc[p] = "idle" /\ pc[p]' = "write"
Writes(p) == pc[p] = "write" /\ pc[p]' = "idle"
Alone(p) == file = job[p].base

\* One title, at the top, one Unreleased heading at most, and the markers of a
\* folded release under that heading, around its bullet.
LineKinds == {"title", "unreleased", "heading", "note", "start", "end", "sentinel", "ref"}
Lines == [kind : LineKinds, of : Seq(STRING)]
Shaped(f) ==
    /\ f \in Seq(Lines)
    /\ \A i \in DOMAIN f :
          /\ (f[i].kind = "title") = (i = 1)
          /\ \A j \in DOMAIN f : f[i].kind = "unreleased" /\ f[j].kind = "unreleased" => i = j
          /\ f[i].kind = "start" =>
                /\ i > 1 /\ i + 2 <= Len(f)
                /\ f[i - 1].kind = "unreleased" /\ f[i + 1].kind = "note" /\ f[i + 2].kind = "end"
          /\ f[i].kind = "end" => i > 2 /\ f[i - 2].kind = "start"

\* A file is there because the commands, or a person who keeps to their format,
\* wrote it.
ASSUME ShapeAssumption == \A f \in FirstFiles : Shaped(f)

\* The variables have their types and the file its shape, whatever the commands
\* insert, move, fold and cut out of it.
TypeOK ==
    /\ Shaped(file)
    /\ status \in [Versions -> Statuses]
    /\ pc \in [Procs -> {"idle", "write"}]
    /\ \A p \in Procs : pc[p] = "idle" => job[p] = NoJob
    /\ runs \in 0..MaxRuns /\ changes \in 0..MaxChanges

\* A build, removal or renaming of one section keeps every bullet of every
\* other section, wherever reordering puts it, and the Unreleased bullets
\* unless the policy consumes them.  Excepted: a version that begins with
\* the one given, whose section is taken for it when it comes first, or with
\* the new name of a renamed one, and a version with two sections.
OthersKept ==
    [][\A p \in Procs :
        Writes(p) /\ Alone(p) /\ job[p].command # "all" =>
            /\ \A v \in Headings(file) :
                  IsPrefix(job[p].version, v) \/ v \in Twice(file)
                  \/ (job[p].command = "rename" /\ IsPrefix(job[p].to, v))
                  \/ (v \in Headings(file') /\ NotesOf(file', v) = NotesOf(file, v))
            /\ job[p].option = "consume" \/ Notes(Body(file')) = Notes(Body(file))]_vars

\* No command makes a second section of a release: neither inserting beside a
\* section it should have found, nor reordering.  Two ways are known and
\* excepted: rename --replace-existing, which leaves the section of the new
\* name where it is, and a section found for two records.
SectionsOnce ==
    [][\A p \in Procs : Starts(p) =>
        LET j == job'[p] IN
        \/ Twice(j.text) \subseteq Twice(j.base)
        \/ j.command = "rename" /\ j.to \in Headings(j.base)
        \/ Mistaken(j.base, j.records) \/ Mistaken(j.text, j.records)]_vars

\* After a build of one release the sections of all the releases that are not
\* canceled stand in the order of a full document.
CanonicalOrder ==
    [][\A p \in Procs : Starts(p) /\ job'[p].command = "build" =>
        LET text == job'[p].text
            ours == {v \in job'[p].records : v \in Headings(text)}
            found == SelectSeq(text, LAMBDA l : l.kind = "heading" /\ l.of \in ours)
        IN Twice(text) # {} \/ Mistaken(text, job'[p].records)
           \/ [k \in DOMAIN found |-> found[k].of]
              = SelectSeq(Order(job'[p].records), LAMBDA v : v \in ours)]_vars

\* The same full build again, on the file it wrote, writes the same file.
\* Excepted: a document of nothing but Unreleased, where the sentinel becomes
\* a part of the body and is written once more by every build.
RebuildStable ==
    [][\A p \in Procs : Starts(p) /\ job'[p].command = "all" =>
        LET j == job'[p] IN
        \/ Full(j.text, j.names, j.version, j.option = "preserve") = j.text
        \/ Has(j.text, "unreleased") /\ ~Has(j.text, "heading")]_vars

\* After a full build no release is both folded into Unreleased and listed
\* with a section of its own, whichever builds and finalizations came before.
FoldedOnce ==
    [][\A p \in Procs : Writes(p) /\ job[p].command = "all" =>
        ~\E i \in DOMAIN file' : file'[i].kind = "start" /\ file'[i].of \in Headings(file')]_vars

===========================================================================
