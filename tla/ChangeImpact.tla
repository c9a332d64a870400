---------------------------- MODULE ChangeImpact -----------------------------
(***************************************************************************)
(* analyze_changes.rs and analyze_impact: a diff of two revisions mapped   *)
(* to the symbols it edits, and what each revision tells of their impact;  *)
(* or the impact of what a question names.                                 *)
(*                                                                         *)
(* A revision holds its files: what each is to Git, its lines, and the     *)
(* symbols on them, by their first and last line.                          *)
(***************************************************************************)
EXTENDS ImpactAnalysis

CONSTANTS
  Comparisons,   (* pairs of revisions                                     *)
  Questions,
  Excluded,      (* files the exclusion policy keeps out of an index       *)
  KeptLines(_, _)   (* the lines two texts keep, as Git pairs them         *)

Sides == {"base", "target"}

(* A symbol lies on lines of its own file, and an index holds one of an id. *)
ASSUME ComparisonsAssumption ==
  \A c \in Comparisons, side \in Sides :
    LET files == c[side]
        placed == UNION {files[f].symbols : f \in DOMAIN files}
    IN /\ \A p, q \in placed : p.symbol.id = q.symbol.id => p = q
       /\ \A f \in DOMAIN files : \A p \in files[f].symbols :
            /\ p.symbol.file = f
            /\ p.first \in DOMAIN files[f].lines /\ p.last \in DOMAIN files[f].lines
       /\ \A f \in DOMAIN files :
            /\ DOMAIN files[f].lines = 1..Len(files[f].lines) /\ Len(files[f].lines) \in Nat
            /\ \A i \in DOMAIN files[f].lines :
                 LET calls == files[f].lines[i].calls
                 IN DOMAIN calls = 1..Len(calls) /\ Len(calls) \in Nat

(* Git tells an edit script of two texts: the lines they keep are the same *)
(* and in the same order.  What is parsed of a file depends on its text    *)
(* alone, and an id begins with the path of its file.                      *)
LinesIn(revision, f) ==
  IF f \in DOMAIN revision /\ revision[f].is = "file" THEN revision[f].lines ELSE << >>
IsEditScript(old, new, kept) ==
  /\ kept \in Seq((DOMAIN old) \X (DOMAIN new))
  /\ \A k \in DOMAIN kept : old[kept[k][1]] = new[kept[k][2]]
  /\ \A k, l \in DOMAIN kept : k < l => kept[k][1] < kept[l][1] /\ kept[k][2] < kept[l][2]
ASSUME DiffAssumption ==
  \A c \in Comparisons :
    /\ \A f \in DOMAIN c.base \cup DOMAIN c.target :
         LET old == LinesIn(c.base, f)
             new == LinesIn(c.target, f)
         IN IsEditScript(old, new, KeptLines(old, new))
    /\ \A f \in DOMAIN c.base \cap DOMAIN c.target :
         c.base[f].is = "file" /\ c.target[f].is = "file" /\ c.base[f].lines = c.target[f].lines
           => c.base[f].symbols = c.target[f].symbols
    /\ \A f \in DOMAIN c.base, g \in DOMAIN c.target :
         \A p \in c.base[f].symbols, q \in c.target[g].symbols :
           p.symbol.id = q.symbol.id => p.symbol.file = q.symbol.file
    /\ \A side \in Sides : \A f \in DOMAIN c[side] : \A p \in c[side][f].symbols : p.first <= p.last
ASSUME QuestionsAssumption == \A q \in Questions : q.depth \in Int

VARIABLES comparison, stage, changed, reports
changesVars == <<project, graph, question, profile, seeds, frontier, best, impacted,
          comparison, stage, changed, reports>>

Other(side) == IF side = "base" THEN "target" ELSE "base"
Revision(side) == comparison[side]
NothingTold == [symbols |-> << >>, total |-> 0, evidence |-> 0, omittedEvidence |-> 0, met |-> << >>,
                files |-> << >>, totalFiles |-> 0, tests |-> {}]

-----------------------------------------------------------------------------
(* A snapshot: files of a kind Git or the disk may hold and this does not  *)
(* read are noted as unavailable, but a tracked file that is gone from the *)
(* disk is merely absent.                                                  *)
Read(side) == {f \in DOMAIN Revision(side) : Revision(side)[f].is = "file"}
Unavailable(side) == {f \in DOMAIN Revision(side) : Revision(side)[f].is \in {"symlink", "large"}}
LinesOf(side, f) == LinesIn(Revision(side), f)

(* snapshot_index: the symbols of the files read and not excluded, each    *)
(* with its text.                                                          *)
Placed(side, f) == IF f \in Read(side) \ Excluded THEN Revision(side)[f].symbols ELSE {}
AllPlaced(side) == UNION {Placed(side, f) : f \in Read(side)}
IdsOf(side) == {p.symbol.id : p \in AllPlaced(side)}
SnapshotIndex(side) ==
  [symbols |-> {p.symbol : p \in AllPlaced(side)},
   text |-> [id \in IdsOf(side) |->
               LET p == CHOOSE x \in AllPlaced(side) : x.symbol.id = id
               IN SubSeq(LinesOf(side, p.symbol.file), p.first, p.last)],
   imports |-> [f \in Read(side) |-> << >>],
   unreadable |-> {}, mangled |-> {}]

-----------------------------------------------------------------------------
(* The diff of two texts: a hunk is what lies between two kept lines.  An  *)
(* empty range stands at the line before it.                               *)
Range1(from, to) == IF from < to THEN [start |-> from, count |-> to - from]
                    ELSE [start |-> from - 1, count |-> 0]
DiffHunks(old, new) ==
  LET kept == << <<0, 0>> >> \o KeptLines(old, new) \o << <<Len(old) + 1, Len(new) + 1>> >>
      between(k) == [base |-> Range1(kept[k][1] + 1, kept[k + 1][1]),
                     target |-> Range1(kept[k][2] + 1, kept[k + 1][2])]
  IN {h \in {between(k) : k \in 1..(Len(kept) - 1)} : h.base.count > 0 \/ h.target.count > 0}

FaultOverlaps(range, p) ==
  range.count > 0 /\ range.start < p.last /\ range.start + range.count - 1 >= p.first
Overlaps(range, p) ==
  range.count > 0 /\ range.start <= p.last /\ range.start + range.count - 1 >= p.first

(* analyze, file by file: an edited symbol is modified when the other      *)
(* index holds it too.                                                     *)
ChangedFiles ==
  {f \in Read("base") \cup Read("target") :
     /\ (f \in Read("base") /\ f \in Read("target")) => LinesOf("base", f) # LinesOf("target", f)
     /\ f \notin Unavailable("base") \cup Unavailable("target")}
Change(side, id) ==
  IF id \in IdsOf(Other(side)) THEN "modified" ELSE IF side = "base" THEN "deleted" ELSE "added"
ChangedIn(f, side) ==
  LET hunks == DiffHunks(LinesOf("base", f), LinesOf("target", f))
  IN {p.symbol.id : p \in {x \in Placed(side, f) : \E h \in hunks : Overlaps(h[side], x)}}
ChangedSymbols(side) ==
  {[side |-> side, id |-> id, change |-> Change(side, id)] :
     id \in UNION {ChangedIn(f, side) : f \in ChangedFiles}}
SeedsOf(side) == {c.id : c \in {x \in changed : x.side = side}}

IsTest(s) ==
  \/ Roles!ClassifyPathRole(s.file) = "test"
  \/ \E part \in {"test_", "_test"} : Holds(s.name, part)
  \/ \E i \in 1..(Len(s.qualified) - 1) : s.qualified[i] = "tests"
  \/ \E i \in DOMAIN s.qualified : Holds(s.qualified[i], "Test")
TestCandidates(shown) == {id \in ToSet(shown) \cup seeds : Indexed(id) /\ IsTest(SymbolOf(id))}

-----------------------------------------------------------------------------
(* resolve_impact_seeds: the symbol that is named, else the best three of  *)
(* the outline of the file, else what locate_code found, the best first,   *)
(* of a file the best three of its outline; no more than five.             *)
KindBonus(s) == CASE s.kind \in {"Function", "Method"} -> 14 [] s.kind = "Class" -> 4 [] OTHER -> 0
First(seq, n) == SubSeq(seq, 1, Min({n, Len(seq)}))
OutlineSeeds(f) ==
  LET worth(id) == ImpactScore(0, SymbolOf(id)) + 20 + KindBonus(SymbolOf(id))
      ids == {s.id : s \in {x \in project.symbols : x.file = f}}
  IN First(SortSeq(Listed(ids), LAMBDA a, b : worth(a) > worth(b)), 3)
CandidateScore(c) ==
  IF c.kind = "symbol" THEN ImpactScore(0, SymbolOf(c.id)) + 24 + KindBonus(SymbolOf(c.id))
  ELSE ImpactScore(0, [file |-> c.file, name |-> c.file]) + (IF c.kind = "file" THEN 8 ELSE 4)
SeedsFrom(c) == IF c.kind = "symbol" THEN <<c.id>> ELSE OutlineSeeds(c.file)
FirstFive(kept, id) == IF id \in ToSet(kept) \/ Len(kept) >= 5 THEN kept ELSE Append(kept, id)
LocatedSeeds ==
  LET indexed == SelectSeq(question.located, LAMBDA c : c.kind = "symbol" => Indexed(c.id))
      found == SortSeq(indexed, LAMBDA a, b : CandidateScore(a) > CandidateScore(b))
  IN FoldLeft(FirstFive, << >>, FlattenSeq([i \in DOMAIN found |-> SeedsFrom(found[i])]))
ResolveImpactSeeds ==
  IF question.symbol # None THEN {question.symbol}
  ELSE IF question.file # None /\ OutlineSeeds(question.file) # << >> THEN ToSet(OutlineSeeds(question.file))
  ELSE ToSet(LocatedSeeds)

-----------------------------------------------------------------------------
ChangesInit ==
  /\ comparison \in Comparisons /\ question \in Questions
  /\ stage = "asked" /\ changed = {} /\ reports = [side \in Sides |-> NothingTold]
  /\ project = SnapshotIndex("target") /\ graph = Unbuilt
  /\ profile = Roles!BuildRepoProfile({s.file : s \in project.symbols})
  /\ seeds = {} /\ frontier = {} /\ best = << >> /\ impacted = << >>

Walk(side, from) ==
  /\ project' = SnapshotIndex(side)
  /\ graph' = Unbuilt
  /\ profile' = Roles!BuildRepoProfile({s.file : s \in project'.symbols})
  /\ Begin(from)

MapChanges ==
  /\ stage = "asked" /\ question.kind = "changes"
  /\ changed' = ChangedSymbols("base") \cup ChangedSymbols("target")
  /\ stage' = "base"
  /\ Walk("base", {c.id : c \in {x \in changed' : x.side = "base"}})
  /\ UNCHANGED <<comparison, question, reports>>

BuildGraph ==
  /\ stage \in Sides /\ graph = Unbuilt
  /\ graph' = BuildNavigationGraph
  /\ UNCHANGED <<comparison, question, project, profile, stage, changed, reports, walk>>
Walking == stage = "impact" \/ (stage \in Sides /\ graph # Unbuilt)

(* analyze_impact asks the index in memory, which has lost its graph when  *)
(* files of it were gone as it was loaded.                                 *)
AskImpact(built) ==
  /\ stage = "asked" /\ question.kind = "impact"
  /\ ResolveImpactSeeds # {}
  /\ stage' = "impact"
  /\ graph' = IF built THEN BuildNavigationGraph ELSE Unbuilt
  /\ Begin(ResolveImpactSeeds)
  /\ UNCHANGED <<comparison, question, project, profile, changed, reports>>
NoSeed ==
  /\ stage = "asked" /\ question.kind = "impact" /\ ResolveImpactSeeds = {}
  /\ stage' = "done"
  /\ UNCHANGED <<comparison, question, project, graph, profile, changed, reports, walk>>

WalkOn ==
  /\ Walking
  /\ \E way \in Foremost : Drop(way) \/ Expand(way)
  /\ UNCHANGED <<comparison, question, project, graph, profile, stage, changed, reports>>

Report == IF seeds = {} THEN NothingTold ELSE Ranked @@ [tests |-> TestCandidates(Ranked.symbols)]
ReportBase ==
  /\ stage = "base" /\ Walking /\ frontier = {}
  /\ reports' = [reports EXCEPT !.base = Report]
  /\ stage' = "target" /\ Walk("target", SeedsOf("target"))
  /\ UNCHANGED <<comparison, question, changed>>
ReportTarget ==
  /\ stage \in {"target", "impact"} /\ Walking /\ frontier = {}
  /\ reports' = [reports EXCEPT !.target = Report]
  /\ stage' = "done"
  /\ UNCHANGED <<comparison, question, project, graph, profile, changed, walk>>

ChangesNext == MapChanges \/ BuildGraph \/ (\E built \in BOOLEAN : AskImpact(built)) \/ NoSeed \/ WalkOn \/ ReportBase \/ ReportTarget
ChangesSpec == ChangesInit /\ [][ChangesNext]_changesVars /\ WF_changesVars(ChangesNext)

-----------------------------------------------------------------------------
(* No edit of a symbol goes unseen.  One that is not told as changed, of a *)
(* file that could be read in both revisions, has all its lines in the     *)
(* other revision of its file, in their order; and where that holds the    *)
(* symbol too, from the same first line to the same last, it reads the     *)
(* same there.  Of a file that could not be read nothing is claimed        *)
(* (analyze, LineRange::overlaps, "Do not turn an unreadable/oversized     *)
(* target into a claimed deletion").                                       *)
TextOf(side, p) == SubSeq(LinesOf(side, p.symbol.file), p.first, p.last)
StandsIn(text, lines) == \E i \in DOMAIN lines : i + Len(text) - 1 <= Len(lines) /\ SubSeq(lines, i, i + Len(text) - 1) = text
Scattered(text, lines) ==
  \E at \in [DOMAIN text -> DOMAIN lines] : \A i, j \in DOMAIN text :
    text[i] = lines[at[i]] /\ (i < j => at[i] < at[j])
SamePlace(side, p, q) ==
  LET kept == ToSet(KeptLines(LinesOf("base", p.symbol.file), LinesOf("target", p.symbol.file)))
  IN IF side = "base" THEN {<<p.first, q.first>>, <<p.last, q.last>>} \subseteq kept
     ELSE {<<q.first, p.first>>, <<q.last, p.last>>} \subseteq kept
Survives(side, p) ==
  LET here == TextOf(side, p)
      lines == LinesOf(Other(side), p.symbol.file)
  IN /\ StandsIn(here, lines) \/ Scattered(here, lines)
     /\ \A q \in AllPlaced(Other(side)) :
          q.symbol.id = p.symbol.id => TextOf(Other(side), q) = here \/ ~SamePlace(side, p, q)
EditsMapped ==
  stage \notin {"asked", "impact"} /\ question.kind = "changes" =>
    \A side \in Sides : \A p \in AllPlaced(side) :
      LET told == {c.id : c \in changed}
      IN IF p.symbol.file \in Unavailable(Other(side)) THEN p.symbol.id \notin told
         ELSE p.symbol.id \notin told => Survives(side, p)
=============================================================================
