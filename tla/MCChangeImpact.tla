--------------------------- MODULE MCChangeImpact ----------------------------
(***************************************************************************)
(* Two revisions of a few files: a chain of functions each kept, edited or *)
(* deleted, a caller beside it, a class that is renamed over its method, a *)
(* method of it that gains a line, two classes that exchange their names,  *)
(* a test, and files that are a link, too large, or gone in one of them.   *)
(***************************************************************************)
EXTENDS ChangeImpact

(* Git's diff: a longest common subsequence of the lines.                  *)
Longer(a, b) == IF Len(a) >= Len(b) THEN a ELSE b
KeptRow(old, new, below, i) ==
  FoldLeft(LAMBDA row, k :
             LET j == Len(new) + 1 - k
             IN <<IF old[i] = new[j] THEN << <<i, j>> >> \o below[j + 1] ELSE Longer(below[j], row[1])>> \o row,
           << << >> >>, [k \in 1..Len(new) |-> k])
MCKeptLines(old, new) ==
  FoldLeft(LAMBDA below, k : KeptRow(old, new, below, Len(old) + 1 - k),
           << >> \o [j \in 1..(Len(new) + 1) |-> << >>], [k \in 1..Len(old) |-> k])[1]

MCHolds(text, part) ==
  \/ text = part
  \/ <<text, part>> \in {<<"tests/t.cc", "tests/">>, <<"tests/t.cc", "/tests/">>, <<"test_third", "test_">>,
                         <<"test_third", "third">>, <<"src/main.cc", "main">>}

Line(tokens) == [tokens |-> tokens, calls |-> << >>, sized |-> FALSE,
                 binds |-> [keyword |-> FALSE, parameter |-> FALSE, local |-> None, type |-> None,
                            constructed |-> None, assigned |-> FALSE], sites |-> {}]
Opens(name) == Line(<<"auto", name, "(", ")">>)
Calls(name) == Line(<<name, "(", ")">>)
Names(name) == Line(<<"ns", "::", name>>)
Closes == Line(<<"}">>)
Blank == Line(<<"=">>)
Symbol(id, file, qualified, kind) ==
  [id |-> id, language |-> "cpp", file |-> file, path |-> <<file>>, name |-> qualified[Len(qualified)],
   qualified |-> qualified, kind |-> kind]
Place(symbol, first, last) == [symbol |-> symbol, first |-> first, last |-> last]
File(lines, symbols) == [is |-> "file", lines |-> lines, symbols |-> symbols]
Other1(is) == [is |-> is, lines |-> << >>, symbols |-> {}]

(* A file of functions, one after the other.                               *)
Fn(name, body) == [name |-> name, lines |-> <<Opens(name)>> \o body \o <<Closes>>]
FileOfFns(file, fns) ==
  LET at(i) == FoldLeft(LAMBDA sum, f : sum + Len(f.lines) + 1, 0, SubSeq(fns, 1, i - 1))
  IN File(FlattenSeq([i \in DOMAIN fns |-> fns[i].lines \o <<Blank>>]),
          {Place(Symbol(fns[i].name, file, <<fns[i].name>>, "Function"),
                 at(i) + 1, at(i) + Len(fns[i].lines)) : i \in DOMAIN fns})

Edited(fn) == [fn EXCEPT !.lines = <<fn.lines[1], Line(<<"x">>)>> \o Tail(fn.lines)]
Version(fn, how) ==
  CASE how = "kept" -> <<fn>> [] how = "edited" -> <<Edited(fn)>> [] how = "deleted" -> << >>
Chain == <<Fn("first", <<Calls("second")>>), Fn("second", <<Calls("third"), Names("fourth")>>),
           Fn("third", <<Calls("fourth")>>), Fn("fourth", << >>)>>
ChainFile(how) ==
  FileOfFns("src/a.cc", FlattenSeq([i \in DOMAIN Chain |-> Version(Chain[i], how[i])]))
Main == FileOfFns("src/main.cc", <<Fn("main", <<Calls("first")>>), Fn("caller", <<Calls("third")>>)>>)
Ended == FileOfFns("src/main.cc", <<Fn("main", <<Calls("first")>>),
                                    [name |-> "caller", lines |-> <<Opens("caller"), Calls("third"), Calls("first")>>]>>)
Test == FileOfFns("tests/t.cc", <<Fn("test_third", <<Calls("third")>>)>>)
Class(name) ==
  File(<<Opens(name), Opens("run_it"), Calls("first"), Closes, Closes>>,
       {Place(Symbol(name, "src/c.cc", <<name>>, "Class"), 1, 5),
        Place(Symbol(IF name = "Klass" THEN "Klass.run_it" ELSE "Other.run_it", "src/c.cc", <<name, "run_it">>, "Method"), 2, 4)})

(* The class renamed, and a line put into its method; two classes that     *)
(* exchange their names.                                                   *)
Grown == [Class("Renamed") EXCEPT !.lines = SubSeq(@, 1, 2) \o <<Calls("second")>> \o SubSeq(@, 3, 5),
            !.symbols = {[p EXCEPT !.last = @ + 1] : p \in @}]
Pair(a, b) ==
  File(<<Opens(a), Opens("run_it"), Calls("first"), Closes, Closes,
         Opens(b), Opens("run_it"), Calls("third"), Closes, Closes>>,
       UNION {{Place(Symbol(c, "src/c.cc", <<c>>, "Class"), 5 * i - 4, 5 * i),
               Place(Symbol(IF c = "Klass" THEN "Klass.run_it" ELSE "Other.run_it", "src/c.cc", <<c, "run_it">>, "Method"),
                     5 * i - 3, 5 * i - 1)} : <<i, c>> \in {<<1, a>>, <<2, b>>}})

Holding(how, main, class) ==
  "src/a.cc" :> ChainFile(how) @@ "src/main.cc" :> main @@ "tests/t.cc" :> Test @@ "src/c.cc" :> class
AllKept == [i \in 1..4 |-> "kept"]
Hows == {how \in [1..4 -> {"kept", "edited", "deleted"}] : how[4] # "edited"}
Compare(base, target) == [base |-> base, target |-> target]
MCComparisons ==
  {Compare(Holding(AllKept, Main, Class("Klass")), Holding(how, Main, Class("Klass"))) : how \in Hows}
  \cup {Compare(Holding(AllKept, Main, Class("Klass")), Holding(AllKept, m, Class(c))) :
          m \in {Main, Ended, Other1("large"), Other1("symlink"), Other1("gone")}, c \in {"Klass", "Renamed"}}
  \cup {Compare(Holding(AllKept, Main, Class("Klass")), Holding(AllKept, Main, Grown)),
        Compare(Holding(AllKept, Main, Pair("Klass", "Renamed")), Holding(AllKept, Main, Pair("Renamed", "Klass")))}
  \cup {Compare(Holding(AllKept, Other1("large"), Class("Klass")), Holding(AllKept, Main, Class("Klass")))}

Changes(depth, limit) ==
  [kind |-> "changes", depth |-> depth, limit |-> limit, scope |-> Everywhere, words |-> {},
   symbol |-> None, file |-> None, located |-> << >>]
Impact(depth, symbol, file, located) ==
  [Changes(depth, 8) EXCEPT !.kind = "impact", !.symbol = symbol, !.file = file, !.located = located,
                            !.words = {"refactor"}]
Found(kind, id, file) == [kind |-> kind, id |-> id, file |-> file]
MCQuestions ==
  {Changes(1, 8), Changes(2, 1), Changes(9, 0),
   Impact(2, "third", None, << >>), Impact(1, "absent", None, << >>),
   [Impact(3, "third", None, << >>) EXCEPT !.scope = {"src/a.cc", "tests/t.cc"}],
   Impact(1, None, "src/a.cc", << >>), Impact(2, None, None, << >>),
   Impact(2, None, "src/none.cc", <<Found("symbol", "test_third", "tests/t.cc"), Found("file", None, "src/a.cc"),
                                    Found("content", None, "src/c.cc"), Found("symbol", "caller", "src/main.cc")>>)}
(* The symbols by name and file.                                           *)
Ordered == <<"Klass", "Renamed", "caller", "first", "fourth", "main", "Klass.run_it", "Other.run_it",
             "second", "test_third", "third">>
MCRank(s) == CHOOSE i \in DOMAIN Ordered : Ordered[i] = s.id
MCShort == {"x", "ns"}
MCLow == {"main"}
MCExcluded == {}
=============================================================================
