---------------------------- MODULE MCNavigation -----------------------------
(***************************************************************************)
(* Small projects for the tracer: every call graph of four functions with  *)
(* cheap and dear calls forward and back, and a corpus of the ways a text  *)
(* names a symbol; and a tree of files to page through.                    *)
(***************************************************************************)
EXTENDS UsagePages

MCHolds(text, part) ==
  \/ text = part
  \/ <<text, part>> \in {
       <<"src/main.rs", "/main.">>, <<"src/tests/f.rs", "/tests/">>, <<"src/printer/f.rs", "/printer/">>,
       <<"load_config", "config">>, <<"scan_all", "scan">>, <<"print_all", "print">>,
       <<"helper_two", "helper">>, <<"src/main.tests/f.rs", "/tests/">>}

Symbol(id, language, file, path, qualified, kind) ==
  [id |-> id, language |-> language, file |-> file, path |-> path,
   name |-> Last(qualified), qualified |-> qualified, kind |-> kind]
NoBind == [keyword |-> FALSE, parameter |-> FALSE, local |-> None, type |-> None,
           constructed |-> None, assigned |-> FALSE]
Line(tokens, calls, sites) ==
  [tokens |-> tokens, calls |-> calls, binds |-> NoBind, sized |-> TRUE, sites |-> sites]
Short(line) == [line EXCEPT !.sized = FALSE]
Bind(line, keyword, local, type, constructed) ==
  [line EXCEPT !.binds = [NoBind EXCEPT !.keyword = keyword, !.local = local, !.type = type,
                                        !.constructed = constructed, !.assigned = constructed # None]]
Param(line, local, type) ==
  [line EXCEPT !.binds = [NoBind EXCEPT !.parameter = TRUE, !.local = local, !.type = type]]
(* A tree: the root, and after it the trees of its kids.                   *)
Node(kind, name, object, kids) ==
  LET before(i) == FoldLeft(LAMBDA sum, kid : sum + Len(kid), 1, SubSeq(kids, 1, i - 1))
      moved(i) == [k \in DOMAIN kids[i] |->
                     [kids[i][k] EXCEPT !.kids = [j \in DOMAIN @ |-> @[j] + before(i)]]]
  IN <<[kind |-> kind, name |-> name, object |-> object, kids |-> [i \in DOMAIN kids |-> before(i) + 1]]>>
     \o FlattenSeq([i \in DOMAIN kids |-> moved(i)])
Id(name) == Node("identifier", name, None, << >>)
Field(object, name) == Node("field_expression", None, None, <<Id(object), Node("field_identifier", name, None, << >>)>>)
Scoped(name) == Node("scoped_identifier", None, None, <<Id("crate"), Id(name)>>)
Attribute(object, name) == Node("attribute", name, object, << >>)
Member(object, name) == Node("member_expression", name, object, << >>)
Call(kind, target) == [kind |-> kind, target |-> target]
Head1(keyword, name) == Line(<<keyword, name, "(", ")">>, << >>, {})

(* A project of one text per symbol.                                       *)
Project(symbols, text, imports) ==
  [symbols |-> {symbols[i] : i \in DOMAIN symbols},
   text |-> [id \in {symbols[i].id : i \in DOMAIN symbols} |->
               LET i == CHOOSE j \in DOMAIN symbols : symbols[j].id = id IN text[i]],
   imports |-> [f \in {symbols[i].file : i \in DOMAIN symbols} |->
                  IF f \in DOMAIN imports THEN imports[f] ELSE << >>],
   unreadable |-> {}, mangled |-> {}]

-----------------------------------------------------------------------------
(* The graphs: functions of C++, a near call through a path and a field, a *)
(* plain one, and a far one, a name taken with its path and no call.       *)
Fns == <<"load_config", "scan_all", "middle", "print_all">>
FnOf(i) == Symbol(Fns[i], "cpp", IF i = 3 THEN "src/printer/f.rs" ELSE "src/f.rs", <<"src", "f">>,
                  <<Fns[i]>>, "Function")
LineOf(how, name) ==
  CASE how = "near" -> Line(<<"self", ".", "ns", "::", name, "(", ")">>, << >>, {name})
    [] how = "plain" -> Short(Line(<<name, "(", ")">>, << >>, {name}))
    [] how = "far" -> Short(Line(<<"ns", "::", name>>, << >>, {}))
Edges == {<<1, 2>>, <<1, 3>>, <<2, 3>>, <<2, 4>>, <<3, 4>>, <<4, 2>>}
GraphProject(how) ==
  LET text(i) == <<Head1("auto", Fns[i])>> \o FlattenSeq([j \in 1..4 |->
        IF <<i, j>> \in Edges /\ how[<<i, j>>] # "none" THEN <<LineOf(how[<<i, j>>], Fns[j])>> ELSE << >>])
  IN Project([i \in 1..4 |-> FnOf(i)], [i \in 1..4 |-> text(i)], << >>)
Graphs == {GraphProject(how) : how \in {h \in [Edges -> {"none", "near", "far"}] : h[<<4, 2>>] # "far"}}

-----------------------------------------------------------------------------
(* The corpus.                                                             *)
Plain(name) == Line(<<name, "(", ")">>, << >>, {name})
RustCall(target, name) == Line(<<name, "(", ")">>, <<Call("call_expression", target)>>, {name})
PyCall(line, target) == [line EXCEPT !.calls = <<Call("call", target)>>]
TsCall(line, target) == [line EXCEPT !.calls = <<Call("call_expression", target)>>]
From(module, names) == [module |-> module, names |-> names, alias |-> None, default |-> None,
                        within |-> {}]
As(imported, local) == [imported |-> imported, local |-> local]
Path(dots, path) == [dots |-> dots, path |-> path]

RustSymbols == <<
  Symbol("main", "rust", "src/main.rs", <<"src", "main">>, <<"main">>, "Function"),
  Symbol("helper", "rust", "src/f.rs", <<"src", "f">>, <<"helper">>, "Function"),
  Symbol("helper_two", "rust", "src/f.rs", <<"src", "f">>, <<"helper_two">>, "Function"),
  Symbol("Worker::new", "rust", "src/f.rs", <<"src", "f">>, <<"Worker", "new">>, "Method"),
  Symbol("emit", "rust", "src/f.rs", <<"src", "f">>, <<"emit">>, "Macro"),
  Symbol("parse", "rust", "src/f.rs", <<"src", "f">>, <<"parse">>, "Function"),
  Symbol("parse2", "rust", "src/g.rs", <<"src", "g">>, <<"parse">>, "Function"),
  Symbol("load_config", "rust", "src/tests/f.rs", <<"src", "tests", "f">>, <<"load_config">>, "Function"),
  Symbol("scan_all", "rust", "src/f.rs", <<"src", "f">>, <<"scan_all">>, "Function")>>
RustProject == Project(RustSymbols,
  << <<Head1("fn", "main"), RustCall(Id("helper"), "helper"), RustCall(Scoped("new"), "new"),
       Line(<<"emit", "(", "helper_two", "(", ")", ")">>, <<Call("macro_invocation", Id("emit"))>>,
            {"emit", "helper_two"}),
       Line(<<"//", "scan_all", "(", ")">>, << >>, {}), RustCall(Id("parse"), "parse"),
       Line(<<"f", "(", "load_config", ")">>, <<Call("call_expression", Field("self", "0"))>>, {})>>,
     <<Head1("fn", "helper"), RustCall(Field("self", "scan_all"), "scan_all"), Plain("helper")>>,
     <<Head1("fn", "helper_two"), Line(<<"dq", "scan_all", "(", ")", "dq", "helper", "(", ")">>,
                                      <<Call("call_expression", Id("helper"))>>, {"helper"})>>,
     <<Head1("fn", "new"), RustCall(Node("parenthesized_expression", None, None, <<Id("helper_two")>>), "helper_two")>>,
     <<Head1("macro", "emit")>>, <<Head1("fn", "x")>>, <<Head1("fn", "x")>>,
     <<Head1("fn", "load_config"), RustCall(Id("helper"), "helper")>>,
     <<Head1("fn", "scan_all"), Line(<<"/*">>, << >>, {}), Line(<<"helper_two", "(", "*/", "new", "(", ")">>, << >>, {"new"})>> >>,
  << >>)

PySymbols == <<
  Symbol("load_config", "python", "pkg/a.py", <<"pkg", "a">>, <<"load_config">>, "Function"),
  Symbol("Cls", "python", "pkg/a.py", <<"pkg", "a">>, <<"Cls">>, "Class"),
  Symbol("Cls::save", "python", "pkg/a.py", <<"pkg", "a">>, <<"Cls", "save">>, "Method"),
  Symbol("Cls::load", "python", "pkg/a.py", <<"pkg", "a">>, <<"Cls", "load">>, "Method"),
  Symbol("Other::load", "python", "pkg/b/__init__.py", <<"pkg", "b", "__init__">>, <<"Other", "load">>, "Method"),
  Symbol("Other", "python", "pkg/b/__init__.py", <<"pkg", "b", "__init__">>, <<"Other">>, "Class"),
  Symbol("helper", "python", "pkg/b/__init__.py", <<"pkg", "b", "__init__">>, <<"helper">>, "Function"),
  Symbol("scan_all", "python", "pkg/c.py", <<"pkg", "c">>, <<"scan_all">>, "Function")>>
PyProject == Project(PySymbols,
  << <<Param(Head1("def", "load_config"), "arg", "Cls"),
       PyCall(Plain("fetch"), Id("fetch")), PyCall(Line(<<"bee", ".", "helper", "(", ")">>, << >>, {"helper"}), Attribute("bee", "helper")),
       Bind(PyCall(Line(<<"x", "=", "Cls", "(", ")">>, << >>, {"Cls"}), Id("Cls")), FALSE, "x", None, "Cls"),
       PyCall(Line(<<"x", ".", "load", "(", ")">>, << >>, {"load"}), Attribute("x", "load")),
       PyCall(Line(<<"arg", ".", "save", "(", ")">>, << >>, {"save"}), Attribute("arg", "save")),
       PyCall(Line(<<"y", ".", "load", "(", ")">>, << >>, {}), Attribute("y", "load"))>>,
     <<Head1("class", "Cls")>>,
     <<Head1("def", "save"), Line(<<"dqdqdq", "scan_all", "(", ")">>, << >>, {}), Line(<<"load_config", "dqdqdq">>, << >>, {}),
       PyCall(Line(<<"self", ".", "load", "(", ")">>, << >>, {"load"}), Attribute("self", "load"))>>,
     <<Head1("def", "load"), Line(<<"#", "helper", "(", ")">>, << >>, {}),
       Bind(Line(<<"scan_all", "=", "x">>, << >>, {"scan_all"}), FALSE, "scan_all", None, "x"),
       PyCall(Plain("scan_all"), Id("scan_all"))>>,
     <<Head1("def", "load"), PyCall(Plain("helper"), Id("helper"))>>, <<Head1("class", "Other")>>,
     <<Head1("def", "helper"), PyCall(Line(<<"f", "(", ")", "(", ")">>, << >>, {}), Node("call", "f()", None, << >>))>>,
     <<Head1("def", "scan_all"), PyCall(Plain("fetch"), Id("fetch")), PyCall(Plain("Cls"), Id("Cls"))>> >>,
  "pkg/a.py" :> <<From(Path(1, <<"b">>), <<As("helper", "fetch"), As("Other", "Other")>>),
                  [From(Path(0, <<"pkg", "b">>), << >>) EXCEPT !.alias = "bee", !.within = {"load_config"}]>>
  @@ "pkg/c.py" :> <<From(Path(1, <<"a">>), <<As("Cls", "Cls"), As("load_config", "fetch")>>)>>)

TsSymbols == <<
  Symbol("load_config", "typescript", "src/a.ts", <<"src", "a">>, <<"load_config">>, "Function"),
  Symbol("Store", "typescript", "src/store/index.ts", <<"src", "store", "index">>, <<"Store">>, "Class"),
  Symbol("Store.save", "typescript", "src/store/index.ts", <<"src", "store", "index">>, <<"Store", "save">>, "Method"),
  Symbol("Store.load", "typescript", "src/store/index.ts", <<"src", "store", "index">>, <<"Store", "load">>, "Method"),
  Symbol("helper", "typescript", "src/b.ts", <<"src", "b">>, <<"helper">>, "Function"),
  Symbol("scan_all", "typescript", "src/b.ts", <<"src", "b">>, <<"scan_all">>, "Function")>>
TsProject == Project(TsSymbols,
  << <<Head1("function", "load_config"),
       [Bind(Line(<<"s", "=", "new", "Store", "(", ")">>, << >>, {"Store"}), TRUE, "s", None, "Store")
          EXCEPT !.calls = <<Call("new_expression", Id("Store"))>>],
       TsCall(Line(<<"s", ".", "save", "(", ")">>, << >>, {"save"}), Member("s", "save")),
       TsCall(Line(<<"b", ".", "helper", "(", ")">>, << >>, {"helper"}), Member("b", "helper")),
       TsCall(Plain("scan_all"), Node("parenthesized_expression", None, None, <<Id("scan_all")>>))>>,
     <<Head1("class", "Store")>>,
     <<Line(<<"save", "(", ")">>, << >>, {}), TsCall(Line(<<"this", ".", "load", "(", ")">>, << >>, {"load"}), Member("this", "load"))>>,
     <<Line(<<"load", "(", ")">>, << >>, {}),
       TsCall(Line(<<"t", "(", ")">>, << >>, {"save"}), Node("subscript_expression", "t[e]", "t", <<Node("string", "save", None, << >>)>>))>>,
     <<Head1("function", "helper"), TsCall(Plain("scan_all"), Id("scan_all"))>>,
     <<Head1("function", "scan_all"), TsCall(Line(<<"helper", "'", "Store", "'">>, << >>, {"helper"}), Id("helper"))>> >>,
  "src/a.ts" :> <<From(Path(1, <<"b">>), <<As("scan_all", "scan_all")>>),
                  [From(Path(1, <<"store">>), << >>) EXCEPT !.default = "Store"],
                  [From(Path(1, <<"b">>), << >>) EXCEPT !.alias = "b"]>>)

(* Two methods of one name: each stands in the text of the other.          *)
GoSymbols == <<
  Symbol("load_config", "go", "src/f.go", <<"src", "f">>, <<"load_config">>, "Function"),
  Symbol("A::Close", "go", "src/f.go", <<"src", "f">>, <<"A", "Close">>, "Method"),
  Symbol("B::Close", "go", "src/f.go", <<"src", "f">>, <<"B", "Close">>, "Method")>>
Homonyms == Project(GoSymbols,
  << <<Head1("func", "load_config"), Line(<<"x", ".", "Close", "(", ")">>, << >>, {"Close"})>>,
     <<Head1("func", "Close")>>, <<Head1("func", "Close")>> >>, << >>)
LostFile == [RustProject EXCEPT !.unreadable = {"src/f.rs"}]

Mangled == [PyProject EXCEPT !.mangled = {"pkg/a.py"}]

MCProjects == Graphs \cup {RustProject, PyProject, TsProject, Homonyms, LostFile, Mangled}

Search1(semantic, bm25) == [semantic |-> semantic, bm25 |-> bm25, terms |-> <<{}, {"middle"}>>]
NoHint == [names |-> << >>, text |-> None]
Hint(name) == [names |-> <<name>>, text |-> name]
Request(searches, source, sink, config, depth, symbols) ==
  [searches |-> searches, source |-> source, sink |-> sink, config |-> config,
   query |-> IF config THEN <<"config", "flow">> ELSE <<"scan">>, maxDepth |-> depth, maxSymbols |-> symbols]
MCRoleBonus(f, text) ==
  Roles!RoleBoostForPath(Profile, f, {w \in {"config", "flow"} : \E i \in DOMAIN text : MCHolds(text[i], w)})
MCRequests ==
  {Request(<<Search1({"load_config"}, {})>>, NoHint, NoHint, FALSE, 2, 4),
   Request(<<Search1({}, {"scan_all", "gone"}), Search1({}, {})>>, Hint("load_config"), NoHint, FALSE, 1, 3),
   Request(<<Search1({"load_config"}, {})>>, NoHint, Hint("print_all"), TRUE, 3, 4)}
(* The symbols by name and file.                                           *)
Ranked ==
  <<"A::Close", "B::Close", "Cls", "Other", "Store", "emit", "helper", "helper_two", "Cls::load",
    "Other::load", "Store.load", "load_config", "main", "middle", "Worker::new", "parse", "parse2",
    "print_all", "Cls::save", "Store.save", "scan_all">>
MCRank(s) == CHOOSE i \in DOMAIN Ranked : Ranked[i] = s.id
MCShort == {"a", "ns"}
MCLow == {"main", "run", "build", "new", "default", "fmt", "from", "into", "clone", "copy", "eq", "ne",
          "hash", "len", "clear", "args"}

-----------------------------------------------------------------------------
(* A tree to page through: a component of two scripts, a file that is not   *)
(* indexed, one too large, a link, and one in a language that is not read.  *)
Leaf(kind, name, row, col, at) == [kind |-> kind, name |-> name, row |-> row, col |-> col, at |-> at]
Ident(name, row, col) == Leaf("identifier", name, row, col, <<row + 1, col + 1>>)
Block(says, leaves) == [row |-> 0, col |-> 0, says |-> says, leaves |-> leaves]
Source(is, supported, lines, blocks) ==
  [is |-> is, supported |-> supported, utf8 |-> TRUE, lines |-> lines, blocks |-> blocks]
Low(word) == [word |-> word, form |-> "low"]
High(word) == [word |-> word, form |-> "high"]
Rust(lines, leaves) ==
  Source("regular", TRUE, lines, <<Block({x.name : x \in leaves} \cup {"helper_two"}, leaves)>>)
Component ==
  Source("regular", TRUE, << <<Low("script")>>, <<Low("helper")>> >>,
    << [row |-> 2, col |-> 8, says |-> {"helper"},
        leaves |-> {Leaf("identifier", "helper", 0, 1, <<3, 10>>), Leaf("property_identifier", "helper", 1, 0, <<4, 1>>)}],
       [row |-> 9, col |-> 4, says |-> {}, leaves |-> {}],
       [row |-> 12, col |-> 3, says |-> {"helper"}, leaves |-> {Leaf("type_identifier", "helper", 2, 0, <<15, 1>>)}] >>)
Twice == Rust(<< <<Low("fn"), Low("helper")>>, << >>, <<High("helper"), Low("helper")>>, <<Low("other")>>, <<Low("helper")>> >>,
  {Ident("helper", 0, 3), Ident("helper", 4, 3), Ident("other", 5, 0), Leaf("string", "helper", 6, 0, <<7, 1>>)})
Once == Rust(<< <<Low("fn")>>, <<Low("other"), Low("helper")>> >>, {Ident("helper", 1, 1)})
MCByPath ==
  <<"dist/f.rs", "gen/f.rs", "src/App.svelte", "src/f-old.rs", "src/f.d.ts", "src/f.rs", "src/f/g.rs",
    "src/large.rs", "src/link.rs", "src/notes.md">>
MCByWalk ==
  <<"dist/f.rs", "gen/f.rs", "src/App.svelte", "src/f/g.rs", "src/f-old.rs", "src/f.d.ts", "src/f.rs",
    "src/large.rs", "src/link.rs", "src/notes.md">>
TreeOf(old) ==
  [f \in ToSet(MCByPath) |->
     CASE f = "src/App.svelte" -> Component [] f = "src/f.rs" -> Twice [] f = "src/f-old.rs" -> old
       [] f \in {"src/f/g.rs", "dist/f.rs", "gen/f.rs", "src/f.d.ts"} -> Once
       [] f = "src/large.rs" -> [Twice EXCEPT !.is = "oversized"]
       [] f = "src/link.rs" -> [Once EXCEPT !.is = "symlink"] [] OTHER -> [Once EXCEPT !.supported = FALSE]]
AllTrees ==
  {[tree |-> TreeOf(old), listed |-> l] : old \in {Twice, [Once EXCEPT !.utf8 = FALSE]},
     l \in {{"src/f.rs"}, {"src/f.rs", "src/f-old.rs", "src/App.svelte"}, {"src/f-old.rs", "src/f/g.rs", "src/large.rs"}}}
MCTrees == AllTrees
MCRewrites(f) == IF f \in {"src/f.rs", "src/f/g.rs"} THEN {Once, Twice, [Once EXCEPT !.is = "gone"]} ELSE {}
Asking(tool, id, scope, limit) ==
  [tool |-> tool, id |-> id, name |-> "helper", file |-> "src/f.rs", scope |-> scope, limit |-> limit]
Everywhere == ToSet(MCByPath) \cup {"src/main.rs", "src/tests/f.rs"}
MCAsked(p) ==
  IF p = RustProject
  THEN {Asking("usages", "helper", scope, limit) :
          scope \in {Everywhere, Everywhere \ {"src/f.rs"}}, limit \in {1, 2, 5, 100}}
       \cup {Asking(tool, id, scope, limit) : tool \in {"callers", "callees"}, id \in {"helper", "main"},
               scope \in {Everywhere, {"src/main.rs"}}, limit \in {1, 2}}
  ELSE {}
-----------------------------------------------------------------------------
(* What is searched for.  dist is a directory that is never indexed, gen   *)
(* one that only meta.json excludes; what names are made of stands for the *)
(* trigrams of them.                                                       *)
MCRoot == <<"/", "work">>
MCProfile == [roles |-> [f \in {"src/f.rs"} |-> "handler"] @@ [f \in {"src/f/g.rs"} |-> "test"],
              archetype |-> "service"]
Entry(path, ext, declaration, nameWidth, pathWidth, nameGrams, pathGrams) ==
  [path |-> path, ext |-> ext, declaration |-> declaration, nameWidth |-> nameWidth, pathWidth |-> pathWidth,
   nameGrams |-> nameGrams, pathGrams |-> pathGrams]
Entries ==
  "dist/f.rs" :> Entry(<<"dist", "f.rs">>, "rs", FALSE, 4, 9, {"f.r", ".rs"}, {"f.r", ".rs", "st/"})
  @@ "gen/f.rs" :> Entry(<<"gen", "f.rs">>, "rs", FALSE, 4, 8, {"f.r", ".rs"}, {"f.r", ".rs", "en/"})
  @@ "src/App.svelte" :> Entry(<<"src", "App.svelte">>, "svelte", FALSE, 10, 14, {"app"}, {"src", "app"})
  @@ "src/f-old.rs" :> Entry(<<"src", "f-old.rs">>, "rs", FALSE, 8, 12, {"old", ".rs"}, {"src", "old", ".rs"})
  @@ "src/f.d.ts" :> Entry(<<"src", "f.d.ts">>, "ts", TRUE, 6, 10, {"f.d", ".ts"}, {"src", "f.d", ".ts"})
  @@ "src/f.rs" :> Entry(<<"src", "f.rs">>, "rs", FALSE, 4, 8, {"f.r", ".rs"}, {"src", "f.r", ".rs"})
  @@ "src/f/g.rs" :> Entry(<<"src", "f", "g.rs">>, "rs", FALSE, 4, 10, {"g.r", ".rs"}, {"src", "g.r", ".rs"})
  @@ "src/large.rs" :> Entry(<<"src", "large.rs">>, "rs", FALSE, 8, 12, {"lar", ".rs"}, {"src", "lar", ".rs"})
  @@ "src/link.rs" :> Entry(<<"src", "link.rs">>, "rs", FALSE, 7, 11, {"lin", ".rs"}, {"src", "lin", ".rs"})
  @@ "src/notes.md" :> Entry(<<"src", "notes.md">>, "md", FALSE, 8, 12, {"not"}, {"src", "not"})
MCFileOf(f) == Entries[f]
MCTokensOf(name) ==
  CASE name = "/" -> << >> [] name = "f.rs" -> <<"f", "rs">> [] name = "g.rs" -> <<"g", "rs">>
    [] name = "f-old.rs" -> <<"f", "old", "rs">> [] name = "f.d.ts" -> <<"f", "d", "ts">>
    [] name = "large.rs" -> <<"large", "rs">> [] name = "link.rs" -> <<"link", "rs">>
    [] name = "notes.md" -> <<"notes", "md">> [] name = "App.svelte" -> <<"app", "svelte">>
    [] OTHER -> <<name>>
MCByName ==
  <<"src/App.svelte", "src/f-old.rs", "src/f.d.ts", "dist/f.rs", "gen/f.rs", "src/f.rs", "src/f/g.rs",
    "src/large.rs", "src/link.rs", "src/notes.md">>
MCGitignore == {[negated |-> FALSE, star |-> "none", anchored |-> FALSE, path |-> <<"large.rs">>],
                [negated |-> TRUE, star |-> "none", anchored |-> FALSE, path |-> <<"f.rs">>]}
MCRecorded == {Glob(<<"gen">>, FALSE, TRUE)}
MCBears(f, part) ==
  <<f, part>> \in {<<"src/f-old.rs", "handler/">>, <<"gen/f.rs", "client">>, <<"src/link.rs", "bin/">>}

Content == [tool |-> "content", regex |-> Unasked, marked |-> FALSE, long |-> FALSE, compiles |-> TRUE,
            matchesEmpty |-> FALSE, caseSensitive |-> FALSE, text |-> High("helper"), words |-> {},
            before |-> 0, after |-> 9, exts |-> {}, filter |-> {}, limit |-> 1]
Patterns ==
  {[Content EXCEPT !.regex = asked, !.marked = TRUE, !.words = words, !.long = long, !.compiles = compiles,
               !.matchesEmpty = empty, !.limit = 3] :
     asked \in {Unasked, "yes"}, words \in {{Low("other"), Low("fn")}},
     long \in BOOLEAN, compiles \in BOOLEAN, empty \in BOOLEAN}
ContentSearches ==
  {[Content EXCEPT !.caseSensitive = strict, !.limit = limit, !.before = 1] : strict \in BOOLEAN, limit \in 1..3}
  \cup Patterns
  \cup {[Content EXCEPT !.regex = "no", !.marked = TRUE, !.exts = exts, !.filter = filter, !.limit = 2] :
          exts \in {{}, {"rs"}, {"md", "markdown"}},
          filter \in {{}, {Glob(<<"src", "f">>, FALSE, FALSE)}, {Glob(<<"src", "f.rs">>, FALSE, FALSE)}}}

Text(name, tokens, mode) ==
  [tool |-> "files", name |-> name, tokens |-> tokens, mode |-> mode, compiles |-> TRUE,
   at |-> [f \in ToSet(MCByPath) |-> [name |-> {}, path |-> {}]], grams |-> {}, glob |-> Glob(<<"src">>, FALSE, TRUE),
   exts |-> {}, filter |-> {}, limit |-> 2]
OfRust ==
  [Text("rs", <<"rs">>, "substring") EXCEPT
     !.at = [f \in ToSet(MCByPath) |->
               LET file == Entries[f]
               IN [name |-> IF file.ext = "rs" THEN {file.nameWidth - 2} ELSE {},
                   path |-> IF file.ext = "rs" THEN {file.pathWidth - 2}
                            ELSE IF f = "src/notes.md" THEN {1} ELSE {}]]]
FileSearches ==
  {[q EXCEPT !.limit = limit] : limit \in 1..3,
     q \in {Text("f.rs", <<"f", "rs">>, "exact"), Text("src/f.rs", <<"src", "f", "rs">>, "exact"), OfRust,
            [Text("f.rs", <<"config">>, "fuzzy") EXCEPT !.grams = {"f.r", ".rs"}],
            Text("src/**", <<"src">>, "glob")}}
  \cup {[Text("[", << >>, "glob") EXCEPT !.compiles = FALSE], Text("f.rs", <<"f", "rs">>, "nearby"),
        [OfRust EXCEPT !.exts = {"rs"}, !.filter = {Glob(<<"f.rs">>, TRUE, FALSE)}],
        [OfRust EXCEPT !.tokens = <<"work">>]}
MCSearches == ContentSearches \cup FileSearches
AskedBefore(tokens) == RecordQuery(ForgetfulSession, tokens)
MCSessions ==
  {ForgetfulSession, AskedBefore(<<"rs">>), RecordQuery(AskedBefore(<<"old", "rs">>), <<"src", "f">>),
   RecordFiles(AskedBefore(<<"src">>), <<"src/f.rs", "src/f/g.rs">>),
   [RecordQuery(ForgetfulSession, <<"zig">>) EXCEPT
      !.files = [p \in {MCRoot \o <<"src", "f-old.rs">>} |-> 1], !.dirs = [p \in {MCRoot \o <<"src">>} |-> 1]]}
=============================================================================
