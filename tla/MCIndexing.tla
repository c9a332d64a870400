----------------------------- MODULE MCIndexing ------------------------------
(***************************************************************************)
(* A corpus of small syntax trees in the shapes the nineteen grammars give *)
(* them, and a project of one file for each language and some more that    *)
(* the exclusion policy is about.                                          *)
(***************************************************************************)
EXTENDS Indexing

(* A shape is a node without lines.  first: its children begin on its own   *)
(* line (0) or the next (1); close: a line of its own ends it; flat: they  *)
(* share a line.                                                           *)
Shape(kind, name, kids) ==
  [kind |-> kind, field |-> None, name |-> name, of |-> None, tag |-> None, kids |-> kids,
   first |-> 0, close |-> 0, flat |-> TRUE]
Tagged(shape, tag) == [shape EXCEPT !.tag = tag]
OfType(shape, of) == [shape EXCEPT !.of = of]
AsField(shape, field) == [shape EXCEPT !.field = field]
Leaf0(kind, name) == Shape(kind, name, << >>)
Comment(kind, tag) == Tagged(Leaf0(kind, None), tag)
Rows(kind, kids) == [Shape(kind, None, kids) EXCEPT !.flat = FALSE]
Brace(kind, kids) == [Shape(kind, None, kids) EXCEPT !.first = 1, !.close = 1, !.flat = FALSE]
Braced(kind, name, body) == Shape(kind, name, <<AsField(body, "body")>>)
Indented(kind, name, body, close) ==
  [Shape(kind, name, <<AsField(body, "body")>>) EXCEPT !.first = 1, !.close = close]

RECURSIVE Lay(_, _), LayKids(_, _, _)
Lay(shape, line) ==
  LET kids == LayKids(shape.kids, line + shape.first, shape.flat)
      last == IF kids = << >> THEN line ELSE Max({kids[i].to : i \in DOMAIN kids})
  IN [kind |-> shape.kind, field |-> shape.field, name |-> shape.name, of |-> shape.of,
      tag |-> shape.tag, kids |-> kids, at |-> line, to |-> last + shape.close]
LayKids(shapes, line, flat) ==
  IF shapes = << >> THEN << >>
  ELSE LET first == Lay(Head(shapes), line)
       IN <<first>> \o LayKids(Tail(shapes), IF flat THEN line ELSE first.to + 1, flat)

(* A box is a shape with room for others, at a depth along its last child. *)
RECURSIVE Fill(_, _, _)
Fill(shape, depth, kids) ==
  IF depth = 0 THEN [shape EXCEPT !.kids = @ \o kids]
  ELSE [shape EXCEPT !.kids[Len(shape.kids)] = Fill(@, depth - 1, kids)]
Box(shape, depth) == [shape |-> shape, depth |-> depth]
OneLine(box) == Box([box.shape EXCEPT !.kids[Len(box.shape.kids)].first = 0,
                                      !.kids[Len(box.shape.kids)].close = 0,
                                      !.kids[Len(box.shape.kids)].flat = TRUE], box.depth)

(* The outer boxes stand in no other box.                                   *)
Lang(root, leaves, comments, boxes, outer) ==
  [root |-> root, leaves |-> leaves, comments |-> comments, boxes |-> boxes, outer |-> outer]

Templates ==
  [java |-> Lang("program",
     <<Braced("method_declaration", "f", Brace("block", <<Leaf0("class_declaration", "L")>>)),
      Leaf0("method_declaration", "g"), Leaf0("annotation_type_declaration", "T")>>,
     <<Comment("line_comment", "//"), Comment("block_comment", "/**"), Comment("block_comment", "/*")>>,
     <<Box(Braced("class_declaration", "A", Brace("class_body", << >>)), 1),
      Box(Braced("interface_declaration", "B", Brace("interface_body", << >>)), 1)>>, << >>),
   csharp |-> Lang("compilation_unit",
     <<Braced("method_declaration", "f", Brace("block", <<Leaf0("local_function_statement", "l")>>)),
      Leaf0("constructor_declaration", "A"), Leaf0("enum_declaration", "E")>>,
     <<Comment("comment", "//"), Comment("comment", "/**")>>,
     <<Box(Braced("class_declaration", "A", Brace("declaration_list", << >>)), 1),
      Box(Braced("struct_declaration", "B", Brace("declaration_list", << >>)), 1)>>,
     <<Box(Braced("namespace_declaration", "N", Brace("declaration_list", << >>)), 1),
       Box(Rows("file_scoped_namespace_declaration", <<Leaf0("identifier", None)>>), 0)>>),
   kotlin |-> Lang("source_file",
     <<Braced("function_declaration", "f",
             Brace("function_body", <<Leaf0("function_declaration", "l")>>)),
      Leaf0("secondary_constructor", None), Leaf0("type_alias", "T")>>,
     <<Comment("line_comment", "//"), Comment("block_comment", "/**")>>,
     <<Box(Tagged(Braced("class_declaration", "A", Brace("class_body", << >>)), "class"), 1),
      Box(Tagged(Braced("class_declaration", "B", Brace("class_body", << >>)), "interface"), 1),
      Box(Braced("object_declaration", "C", Brace("class_body", << >>)), 1),
      Box(Braced("companion_object", None, Brace("class_body", << >>)), 1)>>, << >>),
   swift |-> Lang("source_file",
     <<Braced("function_declaration", "f",
             Brace("function_body", <<Leaf0("function_declaration", "l")>>)),
      Leaf0("init_declaration", "init"), Leaf0("typealias_declaration", "T")>>,
     <<Comment("comment", "///"), Comment("comment", "/**")>>,
     <<Box(Tagged(Braced("class_declaration", "A", Brace("class_body", << >>)), "class"), 1),
      Box(Tagged(Braced("class_declaration", "B", Brace("class_body", << >>)), "extension"), 1),
      Box(Tagged(Braced("class_declaration", "E", Brace("enum_class_body", << >>)), "enum"), 1),
      Box(Braced("protocol_declaration", "P", Brace("protocol_body", << >>)), 1)>>, << >>),
   php |-> Lang("program",
     <<Braced("method_declaration", "f",
             Brace("compound_statement", <<Leaf0("function_definition", "l")>>)),
      Leaf0("enum_declaration", "E")>>,
     <<Comment("comment", "//"), Comment("comment", "/**"), Comment("comment", "#")>>,
     <<Box(Braced("class_declaration", "A",
                 Brace("declaration_list", <<Leaf0("method_declaration", "m")>>)), 1),
      Box(Braced("trait_declaration", "T", Brace("declaration_list", << >>)), 1)>>,
     <<Box(Braced("function_definition", "g", Brace("compound_statement", << >>)), 1)>>),
   solidity |-> Lang("source_file",
     <<Braced("function_definition", "f", Brace("function_body", << >>)),
      Leaf0("constructor_definition", None), Leaf0("event_definition", "e"),
      Tagged(Leaf0("fallback_receive_definition", None), "receive")>>,
     <<Comment("comment", "//"), Comment("comment", "/**")>>,
     <<Box(Braced("contract_declaration", "A", Brace("contract_body", << >>)), 1),
      Box(Braced("library_declaration", "B", Brace("contract_body", << >>)), 1)>>, << >>),
   rust |-> Lang("source_file",
     <<Braced("function_item", "f", Brace("block", <<Leaf0("function_item", "l")>>)),
      Leaf0("struct_item", "S"), Leaf0("mod_item", "m")>>,
     <<Comment("line_comment", "///"), Comment("line_comment", "//")>>,
     <<Box(Braced("impl_item", "S", Brace("declaration_list", << >>)), 1),
      Box(OfType(Braced("impl_item", "S", Brace("declaration_list", << >>)), "T"), 1),
      Box(Braced("trait_item", "T", Brace("declaration_list", << >>)), 1)>>, << >>),
   go |-> Lang("source_file",
     <<Braced("function_declaration", "f", Brace("block", << >>)),
      OfType(Braced("method_declaration", "m", Brace("block", << >>)), "T"),
      Rows("type_declaration", <<Tagged(Leaf0("type_spec", "T"), "struct_type"),
                                 Tagged(Leaf0("type_spec", "U"), "other")>>)>>,
     <<Comment("comment", "//"), Comment("comment", "/*")>>,
     <<Box(Brace("block", << >>), 0)>>, << >>),
   c |-> Lang("translation_unit",
     <<Braced("function_definition", "f", Brace("compound_statement", <<Leaf0("type_definition", "L")>>)),
      Braced("struct_specifier", "S", Brace("field_declaration_list", << >>)),
      Leaf0("struct_specifier", "S"), Leaf0("preproc_def", "M")>>,
     <<Comment("comment", "//")>>,
     <<Box(Brace("preproc_if", << >>), 0),
      Box(Braced("type_definition", "T", Brace("other", << >>)), 1)>>, << >>),
   cpp |-> Lang("translation_unit",
     <<Braced("function_definition", "f", Brace("compound_statement", << >>)),
      OfType(Braced("function_definition", "g", Brace("compound_statement", << >>)), "X"),
      Braced("enum_specifier", "E", Brace("enumerator_list", << >>))>>,
     <<Comment("comment", "///"), Comment("comment", "/**"), Comment("comment", "//")>>,
     <<Box(Braced("class_specifier", "A", Brace("field_declaration_list", << >>)), 1),
      Box(Braced("struct_specifier", None, Brace("field_declaration_list", << >>)), 1)>>,
     <<Box(Braced("namespace_definition", "N", Brace("declaration_list", << >>)), 1)>>),
   objc |-> Lang("translation_unit",
     <<Leaf0("method_declaration", "m"), Braced("method_definition", "m", Brace("compound_statement", << >>)),
      Braced("function_definition", "f", Brace("compound_statement", << >>))>>,
     <<Comment("comment", "///"), Comment("comment", "/*")>>,
     <<Box(Brace("class_interface", << >>), 0),
      Box(Tagged([Brace("class_interface", << >>) EXCEPT !.name = "A"], "category"), 0),
      Box([Brace("class_interface", << >>) EXCEPT !.name = "A"], 0),
      Box([Brace("class_implementation", <<Rows("implementation_definition", << >>)>>)
             EXCEPT !.name = "A"], 1)>>, << >>),
   zig |-> Lang("source_file",
     <<Braced("function_declaration", "f", Brace("block", <<Leaf0("variable_declaration", "l")>>)),
      Leaf0("variable_declaration", "c"), Leaf0("test_declaration", None)>>,
     <<Comment("comment", "///"), Comment("comment", "//")>>,
     <<Box(Shape("variable_declaration", "A", <<Brace("struct_declaration", << >>)>>), 1),
      Box(Brace("comptime_declaration", << >>), 0)>>, << >>),
   python |-> Lang("module",
     <<Indented("function_definition", "f",
        Rows("block", <<Shape("expression_statement", None, <<Leaf0("string", None)>>),
                        Leaf0("function_definition", "l")>>), 0),
      Rows("decorated_definition", <<Leaf0("decorator", None),
                                     Indented("function_definition", "g", Rows("block", << >>), 0)>>),
      Leaf0("assignment", None)>>,
     <<Comment("comment", "#"), Shape("expression_statement", None, <<Leaf0("string", None)>>)>>,
     <<Box(Indented("class_definition", "A", Rows("block", << >>), 0), 1),
      Box(Shape("if_statement", None, <<Rows("block", << >>)>>), 1)>>, << >>),
   ruby |-> Lang("program",
     <<Indented("method", "f", Rows("body_statement", <<Leaf0("method", "l")>>), 1),
      Leaf0("singleton_method", "g"), Leaf0("call", None)>>,
     <<Comment("comment", "#")>>,
     <<Box(Indented("class", "A", Rows("body_statement", << >>), 1), 1),
      Box(Indented("module", "M", Rows("body_statement", << >>), 1), 1)>>, << >>),
   lua |-> Lang("chunk",
     <<Tagged(Braced("function_declaration", "f", Brace("block", <<Leaf0("function_declaration", "l")>>)),
             "identifier"),
      Tagged(OfType(Leaf0("function_declaration", "m"), "T"), "method_index_expression"),
      Shape("assignment_statement", None,
            <<Shape("variable_list", None, <<Tagged(OfType(Leaf0("name", "g"), "T"), "dot_index_expression")>>),
              Shape("expression_list", None, <<Leaf0("function_definition", None)>>)>>)>>,
     <<Comment("comment", "//")>>,
     <<Box(Brace("do_statement", << >>), 0), Box(Brace("block", << >>), 0)>>, << >>),
   bash |-> Lang("program",
     <<Braced("function_definition", "f", Brace("compound_statement", <<Leaf0("function_definition", "l")>>)),
      Leaf0("command", None)>>,
     <<Comment("comment", "#")>>,
     <<Box(Brace("if_statement", << >>), 0)>>, << >>),
   javascript |-> Lang("program",
     <<Braced("function_declaration", "f", Brace("statement_block", <<Leaf0("function_declaration", "l")>>)),
      Leaf0("method_definition", "m"),
      Shape("lexical_declaration", None,
            <<Shape("variable_declarator", "g", <<AsField(Leaf0("arrow_function", None), "value")>>),
              Shape("variable_declarator", "h", <<AsField(Leaf0("arrow_function", None), "value")>>)>>)>>,
     <<Comment("comment", "/**"), Comment("comment", "//")>>,
     <<Box(Braced("class_declaration", "A", Brace("class_body", << >>)), 1),
      Box(Shape("export_statement", None, << >>), 0)>>, << >>),
   typescript |-> Lang("program",
     <<Braced("function_declaration", "f", Brace("statement_block", << >>)),
      Leaf0("method_definition", "m"), Leaf0("interface_declaration", "I")>>,
     <<Comment("comment", "/**"), Comment("comment", "//")>>,
     <<Box(Braced("abstract_class_declaration", "A", Brace("class_body", << >>)), 1),
      Box(Shape("export_statement", None, << >>), 0)>>, << >>)]

-----------------------------------------------------------------------------
(* Trees: something before a box with two things in it; and a box within a  *)
(* box, between a comment and something.  A box also stands on one line.    *)
Pairs(s, t) ==
  [i \in 1..(Len(s) * Len(t)) |-> <<s[((i - 1) \div Len(t)) + 1], t[((i - 1) % Len(t)) + 1]>>]
Single(s) == [i \in DOMAIN s |-> <<s[i]>>]
FilledWith(pairs) == [i \in DOMAIN pairs |-> Fill(pairs[i][1].shape, pairs[i][1].depth, pairs[i][2])]
Filled(boxes, contents) == FilledWith(Pairs(boxes, contents))
OneLined(boxes) == [i \in DOMAIN boxes |-> OneLine(boxes[i])]
Between(x, rooms, y) == [i \in DOMAIN rooms |-> <<x, rooms[i], y>>]

RowsOf(t, items, single, outer) ==
  Pairs(t.comments, Filled(outer, Pairs(items, items))) \o Pairs(t.leaves, single)
  \o Between(t.comments[1], Filled(outer, Pairs(t.comments, single)), t.leaves[1])
RowsIn(t, items, inner) == RowsOf(t, items, Filled(inner, Single(items)), inner \o t.outer)
Laid(root, rows) == [i \in DOMAIN rows |-> Lay(Rows(root, rows[i]), 1)]
Bodied(boxes) == SelectSeq(boxes, LAMBDA b : b.depth = 1)
Trees(t) == Laid(t.root, RowsIn(t, t.leaves \o t.comments, t.boxes \o OneLined(Bodied(t.boxes))))

(* Two scripts of a component, each parsed with lines of its own.           *)
ScriptNode(kind, tag, kids, line, program) ==
  [kind |-> kind, field |-> None, name |-> None, of |-> None, tag |-> tag, kids |-> kids,
   at |-> line, to |-> line + program.to - 1]
Script(tag, program, line) ==
  ScriptNode("script_element", None,
             <<ScriptNode("start_tag", tag, << >>, line, program),
               ScriptNode("raw_text", None, <<program>>, line, program)>>, line, program)
Component(first, second) ==
  [Lay(Rows("document", << >>), 1) EXCEPT !.kids = <<first, second>>, !.to = second.to]
Pair(js, ts) == Component(Script("js", js, 1), Script("ts", ts, js.to + 2))
Components(js, ts) == [i \in DOMAIN js \cap DOMAIN ts |-> Pair(js[i].tree, ts[i].tree)]

(* The first two are java: overloads, which tell an id twice, and a class    *)
(* with two methods.                                                        *)
JavaClass(kids) ==
  [lang |-> "java",
   tree |-> Lay(Rows("program", <<Braced("class_declaration", "A", Brace("class_body", kids))>>), 1)]
Method(name) == Leaf0("method_declaration", name)
OfLanguage(lang, trees) == [i \in DOMAIN trees |-> [lang |-> lang, tree |-> trees[i]]]
TemplateTrees == [lang \in DOMAIN Templates |-> OfLanguage(lang, Trees(Templates[lang]))]
Svelte(js, ts) == OfLanguage("svelte", Components(js, ts))
LangOrder == <<"rust", "python", "javascript", "typescript", "c", "cpp", "go", "java", "csharp",
               "bash", "ruby", "swift", "objc", "php", "zig", "kotlin", "lua", "solidity">>
CorpusOf(trees) ==
  <<JavaClass(<<Method("f"), Method("f"), Method("g")>>), JavaClass(<<Method("f"), Method("g")>>)>>
  \o FlattenSeq([i \in DOMAIN LangOrder |-> trees[LangOrder[i]]])
  \o Svelte(trees["javascript"], trees["typescript"])
Corpus == CorpusOf(TemplateTrees)

(* The lines of a script counted in its component.                          *)
RECURSIVE Lowered(_, _)
Lowered(n, by) ==
  [n EXCEPT !.at = @ + by, !.to = @ + by, !.kids = [i \in DOMAIN @ |-> Lowered(@[i], by)]]
PlacedBy(element, block) == [element EXCEPT !.kids[2].kids = <<Lowered(block.kids[1], block.at - 1)>>]
Placed(c) ==
  IF c.lang # "svelte" THEN c.tree
  ELSE [c.tree EXCEPT !.kids = [i \in DOMAIN @ |-> PlacedBy(@[i], SvelteBlock(@[i]))]]
ParsedOf(c) == [lang |-> c.lang, tree |-> Placed(c), symbols |-> Extract(c.lang, c.tree)]
(* Every tree of the corpus, the symbols told of it and where they are.     *)
ParsedAll(corpus) == [i \in DOMAIN corpus |-> ParsedOf(corpus[i])]
Parsed == ParsedAll(Corpus)
MCTreeOf(c) == Parsed[c].tree

-----------------------------------------------------------------------------
(* The project: a file for each language, two more of java, one under a     *)
(* directory that .gitignore names, one in node_modules, one under the      *)
(* directory a literal glob names, and a declaration file.                  *)
File(path, ext) == [path |-> path, ext |-> ext, declaration |-> FALSE]
Others == [java2 |-> File(<<"src", "B.java">>, "java"),
           java3 |-> File(<<"src", "C.java">>, "java"),
           generated |-> File(<<"src", "gen", "D.java">>, "java"),
           modules |-> File(<<"lib", "node_modules", "E.java">>, "java"),
           legacy |-> File(<<"legacy", "F.java">>, "java"),
           types |-> [File(<<"src", "G.d.ts">>, "ts") EXCEPT !.declaration = TRUE]]
MCFiles == Languages \cup DOMAIN Others
FileOf == [f \in MCFiles |-> IF f \in Languages THEN File(<<"src", f>>, f) ELSE Others[f]]
LanguageOf(f) == IF f \in Languages THEN f ELSE IF f = "types" THEN "typescript" ELSE "java"

Root == <<"home", "project">>
Ignored == {[path |-> <<"gen">>, anchored |-> FALSE, negated |-> FALSE, star |-> None],
            [path |-> <<"src", "old">>, anchored |-> TRUE, negated |-> FALSE, star |-> None],
            [path |-> <<"keep">>, anchored |-> FALSE, negated |-> TRUE, star |-> None],
            [path |-> << >>, anchored |-> FALSE, negated |-> FALSE, star |-> "log"]}
Globs == DefaultExcludes({"third_party"}) \cup UNION {GitignoreGlobs(line) : line \in Ignored}
         \cup {Glob(<<"legacy">>, FALSE, FALSE)}
WalkSkipped == {f \in MCFiles : WalkExcludes(FileOf[f], Root, Globs, {"third_party"})}
WatchSkipped == {f \in MCFiles : PathIsExcluded(FileOf[f], Globs, {"third_party"})}
MCWalkSkips == WalkSkipped
MCWatchSkips == WatchSkipped

AllContents == DOMAIN Parsed \cup Unread
MCContents == AllContents
Told(f, lang, s) == [id |-> SymbolId(f, lang, s), at |-> s.at, to |-> s.to, doc |-> s.doc]
ToldOf(f, parsed) ==
  IF parsed.lang # LanguageOf(f) THEN << >>
  ELSE [i \in DOMAIN parsed.symbols |-> Told(f, parsed.lang, parsed.symbols[i])]
MCParse(f, c) ==
  IF c \in Unread \/ FileOf[f].declaration THEN << >> ELSE ToldOf(f, Parsed[c])

Overloads == 1
Plain == 2
MCWrites == {Absent, Symlink, Oversized, Overloads, Plain}

Empty == [f \in MCFiles |-> Absent]
StartsOf(corpus) ==
  {[disk |-> [Empty EXCEPT ![corpus[c].lang] = c], edits |-> 0] : c \in DOMAIN corpus}
  \cup {[disk |-> [Empty EXCEPT !["java"] = Overloads, !["java2"] = Plain, !["modules"] = Plain],
         edits |-> 2]}
AllStarts == StartsOf(Parsed)
MCStarts == AllStarts
=============================================================================
