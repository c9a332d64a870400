----------------------------- MODULE SearchPages ------------------------------
(***************************************************************************)
(* search_content.rs and search_files.rs: which files a search takes, what *)
(* it finds in them and how it ranks them, with what session.rs remembers  *)
(* of earlier questions.  Their calls are actions of UsagePages.           *)
(*                                                                         *)
(* A line is a sequence of words, each with its form (its capitals).  A    *)
(* question brings what its text is to a search: a word, its tokens, where *)
(* it stands in names, the words it stands for as a pattern.  Scores are   *)
(* in hundredths.                                                          *)
(***************************************************************************)
EXTENDS ScanPolicy, Integers, FiniteSets, FiniteSetsExt

CONSTANTS
  Root,             (* the names on the path of the project                *)
  FileOf(_),        (* a file: path, ext, declaration, widths and trigrams *)
  TokensOf(_),      (* the tokens of a name                                *)
  ByName,           (* the files by name, then by path                     *)
  Gitignore, Recorded, ExtraDirs,   (* what is excluded, and by meta.json  *)
  Profile, Bears(_, _),             (* the profile in meta.json            *)
  MaxRecent, MaxQueries             (* MAX_RECENT_ITEMS, RECENT_QUERY_LIMIT *)

Roles == INSTANCE RepoProfile WITH Holds <- Bears

(* A set by an order that ranks all of it: i - 1 are before the i-th.      *)
Ordered(set, before(_, _)) ==
  [i \in 1..Cardinality(set) |-> CHOOSE x \in set : Cardinality({y \in set : before(y, x)}) = i - 1]
PositionIn(list, x) == CHOOSE i \in DOMAIN list : list[i] = x
InTurn(list, set) ==
  LET places == Ordered({i \in DOMAIN list : list[i] \in set}, LAMBDA i, j : i < j)
  IN [i \in DOMAIN places |-> list[places[i]]]

Unasked == "none"
MaxContext == 5   \* MAX_CONTEXT_LINES

-----------------------------------------------------------------------------
(* The walks: both prune as the indexer does and skip a file that is named *)
(* like an excluded directory; only that for contents knows what meta.json *)
(* excludes, and the size, extension and kind of a file.                   *)
BuildExcludeSet(recorded) ==
  DefaultExcludes(ExtraDirs) \cup UNION {GitignoreGlobs(line) : line \in Gitignore} \cup recorded
Visited(file, globs) ==
  /\ ~WalkExcludes(file, Root, globs, ExtraDirs)
  /\ ~\E i \in DOMAIN file.path : ExcludedDir(file.path[i], ExtraDirs)
InLanguage(file, exts) == exts = {} \/ file.ext \in exts
IsDocument(file) == file.ext \in {"md", "markdown", "json", "yaml", "yml", "toml"}

(* A filter that is the path of a directory stands for all that is in it.  *)
BuildFileFilter(filter, files) ==
  IF \E f \in files : IsStrictPrefix(filter.path, FileOf(f).path)
  THEN Glob(filter.path, FALSE, TRUE) ELSE filter
Searchable(f, entry, q, files) ==
  LET file == FileOf(f)
  IN /\ entry.is = "regular"
     /\ entry.supported \/ IsDocument(file)
     /\ ~file.declaration
     /\ InLanguage(file, q.exts)
     /\ Visited(file, BuildExcludeSet(Recorded))
     /\ \A filter \in q.filter : MatchesFile(BuildFileFilter(filter, files), file)
Locatable(f, entry, q) ==
  LET file == FileOf(f)
  IN /\ entry.is \in {"regular", "oversized"}
     /\ Visited(file, BuildExcludeSet({}))
     /\ \A filter \in q.filter : MatchesFile(filter, file)
     /\ InLanguage(file, q.exts)

-----------------------------------------------------------------------------
(* How a text is looked for: as a pattern when that was asked, or when it  *)
(* was left open and the text looks like one that can be used.             *)
Usable(q) == ~q.long /\ q.compiles
Mode(q) ==
  CASE q.regex = "no" \/ (q.regex = Unasked /\ ~q.marked) -> "literal"
    [] q.regex = "yes" -> IF Usable(q) THEN "regex" ELSE "refused"
    [] OTHER -> IF Usable(q) /\ ~q.matchesEmpty THEN "regex" ELSE "literal"
Same(q, a, b) == a.word = b.word /\ (q.caseSensitive => a.form = b.form)
Columns(q, line) ==
  LET sought == IF Mode(q) = "regex" THEN q.words ELSE {q.text}
  IN {i \in DOMAIN line : \E w \in sought : Same(q, line[i], w)}
     \cup (IF Mode(q) = "regex" /\ q.matchesEmpty THEN {1} ELSE {})
ContentMatch(f, lines, q, i) ==
  [file |-> f, line |-> i, column |-> Min(Columns(q, lines[i])),
   before |-> Max({1, i - Min({q.before, MaxContext})})..(i - 1),
   after |-> (i + 1)..Min({i + Min({q.after, MaxContext}), Len(lines)})]
MatchesIn(f, lines, q) ==
  LET hits == Ordered({i \in DOMAIN lines : Columns(q, lines[i]) # {}}, LAMBDA i, j : i < j)
  IN [i \in DOMAIN hits |-> ContentMatch(f, lines, q, hits[i])]

-----------------------------------------------------------------------------
(* What a session remembers: questions, the latest first, and when a file  *)
(* or a directory was last told of, by the path it was told under.  Every  *)
(* record takes a tick of its own and one for the session, and so does     *)
(* every look at a session that is there.                                  *)
ForgetfulSession == [clock |-> 1, queries |-> << >>, files |-> << >>, dirs |-> << >>]
Dated(seen, clock) == IsFiniteSet(DOMAIN seen) /\ \A k \in DOMAIN seen : seen[k] \in 0..clock
Remembers(s) ==
  /\ DOMAIN s = {"clock", "queries", "files", "dirs"}
  /\ s.clock \in Nat /\ Dated(s.files, s.clock) /\ Dated(s.dirs, s.clock)
  /\ s.queries \in Seq(ToSet(s.queries))
  /\ \A asked \in ToSet(s.queries) :
       asked.tokens \in Seq(ToSet(asked.tokens)) /\ asked.tick \in 0..s.clock
RecordQuery(s, tokens) ==
  LET all == <<[tokens |-> tokens, tick |-> s.clock]>> \o s.queries
  IN [s EXCEPT !.queries = SubSeq(all, 1, Min({Len(all), MaxQueries})), !.clock = @ + 2]
Recently(seen, key, tick) ==
  LET all == [k \in DOMAIN seen \cup {key} |-> IF k = key THEN tick ELSE seen[k]]
      newest == {k \in DOMAIN all : Cardinality({j \in DOMAIN all : all[j] > all[k]}) < MaxRecent}
  IN [k \in newest |-> all[k]]
RecordFile(s, path) ==
  [s EXCEPT !.files = Recently(@, path, s.clock), !.dirs = Recently(@, Front(path), s.clock),
            !.clock = @ + 2]
RecordFiles(s, files) ==
  LET upTo[n \in 0..Len(files)] == IF n = 0 THEN s ELSE RecordFile(upTo[n - 1], FileOf(files[n]).path)
  IN upTo[Len(files)]
Looked(s, times) == IF s.queries = << >> /\ s.files = << >> THEN s ELSE [s EXCEPT !.clock = @ + times]

RecentTick(s) ==
  LET ticks == {s.files[k] : k \in DOMAIN s.files} \cup {s.dirs[k] : k \in DOMAIN s.dirs}
               \cup {s.queries[i].tick : i \in DOMAIN s.queries}
  IN IF ticks = {} THEN s.clock ELSE Max(ticks)
ScoreRecent(seen, key, now, base) ==
  IF key \in DOMAIN seen THEN Max({0, base - 2 * (now - seen[key])}) ELSE 0
QueryOverlapBoost(queries, tokens) ==
  LET overlap(i) == Cardinality({j \in DOMAIN tokens : tokens[j] \in ToSet(queries[i].tokens)})
  IN Max({0} \cup {3 + 2 * overlap(i) : i \in {x \in DOMAIN queries : overlap(x) > 0}})
PathTokens(path) == FlattenSeq([i \in DOMAIN path |-> TokensOf(path[i])])
RecencyBoost(s, path) ==
  LET now == RecentTick(s)
  IN Max({ScoreRecent(s.files, path, now, 18)}
         \cup {ScoreRecent(s.dirs, SubSeq(path, 1, n), now, 12) : n \in 1..(Len(path) - 1)})
FileBoost(s, path) == RecencyBoost(s, path) + QueryOverlapBoost(s.queries, PathTokens(path))

-----------------------------------------------------------------------------
(* How well a name answers, if it does; q.at has the places of the text in *)
(* a name and in a path.                                                   *)
Similarity(a, b) ==
  IF a = {} \/ b = {} THEN 0 ELSE (10000 * Cardinality(a \cap b)) \div Cardinality(a \cup b)
NameScores(f, q) ==
  LET file == FileOf(f)
      similar == Max({Similarity(q.grams, file.nameGrams), Similarity(q.grams, file.pathGrams)})
  IN CASE q.mode = "exact" /\ Last(file.path) = q.name -> {30000}
       [] q.mode = "exact" /\ f = q.name -> {28000}
       [] q.mode = "substring" /\ q.at[f].name # {} -> {22000 - 100 * Min(q.at[f].name) - file.nameWidth}
       [] q.mode = "substring" /\ q.at[f].path # {} -> {18000 - 100 * Min(q.at[f].path) - file.pathWidth}
       [] q.mode = "fuzzy" /\ similar >= 2000 -> {similar}
       [] q.mode = "glob" /\ MatchesFile(q.glob, file) -> {20000}
       [] OTHER -> {}
Accepted(q) == q.mode \in {"exact", "substring", "fuzzy"} \/ (q.mode = "glob" /\ q.compiles)
FileScore(s, q, f) ==
  Max(NameScores(f, q)) + 100 * Roles!RoleBoostForPath(Profile, f, ToSet(q.tokens))
  + 100 * FileBoost(s, Root \o FileOf(f).path) + 50 * QueryOverlapBoost(s.queries, q.tokens)
CollectFiles(tree, q) == {f \in DOMAIN tree : Locatable(f, tree[f], q) /\ NameScores(f, q) # {}}
RankedFiles(s, q, found) ==
  LET ahead(a, b) == \/ a.score > b.score
                     \/ a.score = b.score /\ PositionIn(ByName, a.file) < PositionIn(ByName, b.file)
      ranked == Ordered({[file |-> f, score |-> FileScore(s, q, f)] : f \in found}, ahead)
  IN [i \in DOMAIN ranked |-> ranked[i].file]
=============================================================================
