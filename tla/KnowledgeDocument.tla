-------------------------- MODULE KnowledgeDocument --------------------------
(***************************************************************************)
(* A Markdown source as the knowledge base reads it (knowledge/document.rs *)
(* with links.rs and okf.rs), and as the discovery of documents does       *)
(* (documents.rs).                                                         *)
(*                                                                         *)
(* A source is a sequence of lines.  A line is of a kind (heading, text,   *)
(* key: a text that YAML takes for a pair, rule: three dashes, dots,       *)
(* fence, blank) and has words and links; what stands before a heading on  *)
(* its line is nothing, an indent, or the mark of a quotation or of a list *)
(* item, and before a line of text nothing or an indent.  A path is the    *)
(* sequence of its segments, a text the sequence of its words.             *)
(***************************************************************************)
EXTENDS Integers, FiniteSets, SequencesExt, FiniteSetsExt

CONSTANTS None,
          Now        (* the day of today *)

Numeral == <<"1", "2", "3", "4", "5", "6", "7", "8", "9">>
Mark == "&"          (* a word without a letter or a digit *)

-----------------------------------------------------------------------------
(* split_front_matter: what stands between a first rule and the next line  *)
(* that closes it, when YAML can read it.  A heading is a comment to YAML, *)
(* and lines of text alone a scalar (no heading behind a mark is there).   *)
Closes(line) == line.kind \in {"rule", "dots"}
IsYaml(block) ==
  LET keys == {i \in DOMAIN block : block[i].kind = "key"}
      kinds == {line.kind : line \in ToSet(block)}
  IN \/ /\ kinds \subseteq {"key", "blank", "heading"}
        /\ Cardinality({block[i].key : i \in keys}) = Cardinality(keys)
     \/ kinds \subseteq {"text", "blank"}
FrontEnd(source) ==
  LET ends == {i \in 2..Len(source) : Closes(source[i])}
  IN IF source = << >> \/ ends = {} THEN 0
     ELSE IF source[1].kind = "rule" /\ IsYaml(SubSeq(source, 2, Min(ends) - 1)) THEN Min(ends) ELSE 0
FrontMatter(source) ==
  LET pairs == {line \in ToSet(SubSeq(source, 1, FrontEnd(source))) : line.kind = "key"}
  IN [k \in {line.key : line \in pairs} |-> (CHOOSE line \in pairs : line.key = k).value]
Field(front, key) == IF key \in DOMAIN front THEN front[key] ELSE None

-----------------------------------------------------------------------------
(* The headings of the lines behind `from`, as the Markdown parser tells   *)
(* them: a rule under a paragraph underlines it, a fence hides them.  It   *)
(* tells a heading from behind what stands before it.                      *)
Fenced(source, from, i) ==
  Cardinality({j \in (from + 1)..(i - 1) : source[j].kind = "fence"}) % 2 = 1
IsParagraph(line) == line.kind \in {"text", "key", "dots"}
IsHeading(source, from, i) ==
  /\ ~Fenced(source, from, i)
  /\ \/ source[i].kind = "heading"
     \/ source[i].kind = "rule" /\ i - 1 > from /\ IsParagraph(source[i - 1])
HeadingAt(source, from, i) ==
  LET first == CHOOSE j \in (from + 1)..i :
                 /\ \A k \in j..(i - 1) : IsParagraph(source[k])
                 /\ j - 1 > from => ~IsParagraph(source[j - 1])
  IN IF source[i].kind = "heading"
     THEN [level |-> source[i].level, words |-> source[i].words,
           first |-> i, last |-> i, before |-> source[i].before]
     ELSE [level |-> 2, words |-> FlattenSeq([k \in 1..(i - first) |-> source[first + k - 1].words]),
           first |-> first, last |-> i, before |-> source[first].before]
HeadingsOf(source, from) ==
  LET at == SelectSeq([k \in 1..(Len(source) - from) |-> from + k],
                      LAMBDA i : IsHeading(source, from, i))
  IN [k \in DOMAIN at |-> HeadingAt(source, from, at[k])]

-----------------------------------------------------------------------------
(* The text of some lines, and of what stands before the next heading: an  *)
(* indent is trimmed, a mark is text.                                      *)
MarkBefore == [kind |-> "mark", words |-> << >>]
Content(source, first, last, before) ==
  SelectSeq(SubSeq(source, first, last), LAMBDA line : line.kind # "blank")
  \o (IF before = "mark" THEN <<MarkBefore>> ELSE << >>)
Section(id, heading, hierarchy, level, content, first, last) ==
  [id |-> id, heading |-> heading, hierarchy |-> hierarchy, level |-> level,
   content |-> content, first |-> first, last |-> last]

(* An id that is taken gets a number.                                      *)
Slug(words) ==
  LET spoken == SelectSeq(words, LAMBDA w : w # Mark)
  IN IF spoken = << >> THEN <<"section">> ELSE spoken
Numbered(used, base) ==
  LET count == 1 + Cardinality({i \in DOMAIN used : used[i] = base})
  IN IF count = 1 THEN base ELSE Append(base, Numeral[count])

Under(stack, h) == Append(SelectSeq(stack, LAMBDA g : g.level < h.level), h)

(* parse_markdown: the preamble, and a section for every heading, which    *)
(* ends where the next begins, which is within its line where something    *)
(* stands before it.                                                       *)
FaultLineBefore(source, headings, k) ==
  IF k > Len(headings) THEN Len(source) ELSE headings[k].first
LineBefore(source, headings, k) ==
  IF k > Len(headings) THEN Len(source)
  ELSE headings[k].first - (IF headings[k].before = "nothing" THEN 1 ELSE 0)
TextBefore(source, headings, k, first) ==
  IF k > Len(headings) THEN Content(source, first, Len(source), "nothing")
  ELSE Content(source, first, headings[k].first - 1, headings[k].before)
Preamble(source, headings, body) ==
  LET text == TextBefore(source, headings, 1, body)
  IN IF text = << >> THEN << >>
     ELSE <<Section(<<"preamble">>, << >>, << >>, 0, text, body, LineBefore(source, headings, 1))>>
SectionsOf(source, from) ==
  LET headings == HeadingsOf(source, from)
      preamble == Preamble(source, headings, from + 1)
      add(acc, k) ==
        LET h == headings[k]
            stack == Under(acc.stack, h)
            path == [i \in DOMAIN stack |-> stack[i].words]
            base == IF h.words = << >> THEN <<"section">> ELSE Slug(FlattenSeq(path))
        IN [stack |-> stack, used |-> Append(acc.used, base),
            sections |-> Append(acc.sections,
              Section(Numbered(acc.used, base), h.words, path, h.level,
                      TextBefore(source, headings, k + 1, h.last + 1),
                      h.first, LineBefore(source, headings, k + 1)))]
  IN FoldLeft(add, [stack |-> << >>, used |-> [i \in DOMAIN preamble |-> preamble[i].id], sections |-> preamble],
              [k \in DOMAIN headings |-> k]).sections
IsEmpty(section) == section.content = << >>

-----------------------------------------------------------------------------
(* links.rs: links to other documents by their path within the project, in *)
(* order, each target once.  `..` over the root leads nowhere.             *)
DirectoryOf(path) == SubSeq(path, 1, Len(path) - 1)
NormalizeSegments(path) ==
  FoldLeft(LAMBDA acc, s : CASE s \in {"", "."} \/ acc = <<None>> -> acc
                             [] s = ".." -> IF acc = << >> THEN <<None>> ELSE DirectoryOf(acc)
                             [] OTHER -> Append(acc, s),
           << >>, path)
NormalizeTarget(link, directory) ==
  IF link.is # "markdown" THEN <<None>>
  ELSE NormalizeSegments(IF link.rooted THEN link.path ELSE directory \o link.path)
LinksOf(source, from, path) ==
  LET read == SelectSeq([k \in 1..(Len(source) - from) |-> from + k],
                        LAMBDA i : ~Fenced(source, from, i) /\ source[i].kind # "fence")
      links == FlattenSeq([k \in DOMAIN read |-> source[read[k]].links])
      targets == [k \in DOMAIN links |-> NormalizeTarget(links[k], DirectoryOf(path))]
  IN FoldLeft(LAMBDA acc, t : IF t \in {<< >>, <<None>>} \/ t \in ToSet(acc) THEN acc ELSE Append(acc, t),
              << >>, targets)

-----------------------------------------------------------------------------
(* okf.rs.  A verification names who or when, or is none.                  *)
TrustTiers == <<"unverified", "machine-confirmed", "human-reviewed">>
Tier(trust) == CHOOSE i \in DOMAIN TrustTiers : TrustTiers[i] = trust
VerifiedEvents(front) ==
  IF Field(front, "verified") = None THEN {}
  ELSE {e \in front.verified : e.by # None \/ e.at # None}
TrustTier(events) ==
  IF \E e \in events : e.by = "human" THEN "human-reviewed"
  ELSE IF events = {} THEN "unverified" ELSE "machine-confirmed"
ExtractOkf(front) ==
  IF Field(front, "type") = None THEN None
  ELSE [type |-> front.type, status |-> Field(front, "status"),
        staleAfter |-> Field(front, "stale_after"), trust |-> TrustTier(VerifiedEvents(front))]
IsStale(okf) == okf # None /\ okf.staleAfter # None /\ Now >= okf.staleAfter

-----------------------------------------------------------------------------
Title(path, front, headings) ==
  LET top == {k \in DOMAIN headings : headings[k].level = 1}
  IN IF Field(front, "title") # None THEN front.title
     ELSE IF top # {} /\ headings[Min(top)].words # << >> THEN headings[Min(top)].words
     ELSE <<path[Len(path)]>>
TagsOf(front) == UNION {IF Field(front, k) = None THEN {} ELSE front[k] : k \in {"tags", "categories"}}

ParseMarkdown(path, source) ==
  LET from == FrontEnd(source)
      front == FrontMatter(source)
  IN [path |-> path, title |-> Title(path, front, HeadingsOf(source, from)), tags |-> TagsOf(front),
      okf |-> ExtractOkf(front), links |-> LinksOf(source, from, path),
      sections |-> SectionsOf(source, from), source |-> source]

(* What is embedded of a section, and its hash.                            *)
EmbeddingText(document, section) == <<document.title, section.hierarchy, section.content>>

-----------------------------------------------------------------------------
(* documents.rs: the sections and configuration keys a discovery of        *)
(* documents tells, by line.  Unlike a section of the knowledge base, a    *)
(* unit of Markdown runs to the next heading of its own level or above,    *)
(* and the front matter is read as Markdown like the rest.                 *)

(* The names on the way to a unit, joined by a mark.                       *)
Joint == ">"
Joined(names) ==
  FoldLeft(LAMBDA acc, name : IF acc = << >> THEN name ELSE acc \o <<Joint>> \o name, << >>, names)
Unit(name, qualified, kind, first, last) ==
  [name |-> name, qualified |-> qualified, kind |-> kind, first |-> first, last |-> last]

(* markdown_units                                                          *)
UnitEnd(source, headings, k) ==
  LET above == {j \in DOMAIN headings : j > k /\ headings[j].level <= headings[k].level}
  IN IF above = {} THEN Max({1, Len(source)}) ELSE headings[Min(above)].first - 1
MarkdownUnits(source) ==
  LET headings == HeadingsOf(source, 0)
      stacks == FoldLeft(LAMBDA acc, h : Append(acc, Under(IF acc = << >> THEN << >> ELSE Last(acc), h)),
                         << >>, headings)
      named(stack) == Joined([i \in DOMAIN stack |-> stack[i].words])
  IN [k \in DOMAIN headings |->
        Unit(headings[k].words, named(stacks[k]), "section",
             headings[k].first, UnitEnd(source, headings, k))]

(* config_units: the pairs and tables of a syntax tree, its nodes in order *)
(* from the root down, each with its parent (the root has none: 0).  A     *)
(* unit stands under the names of those around it; a pair whose key cannot *)
(* be read and a node in error are left out with all below them, and a     *)
(* pair without a key is gone through like any other node.                 *)
Unreadable == "?"
IsLeftOut(node) == node.kind = "error" \/ node.key = Unreadable
IsUnit(node) == node.kind = "pair" /\ node.key # None
ConfigUnits(tree) ==
  LET names[i \in 0..Len(tree)] ==
        IF i = 0 THEN << >>
        ELSE LET around == names[tree[i].parent]
             IN IF around = None \/ IsLeftOut(tree[i]) THEN None
                ELSE IF IsUnit(tree[i]) THEN Joined(<<around, <<tree[i].key>> >>) ELSE around
      told == SelectSeq([i \in DOMAIN tree |-> i], LAMBDA i : IsUnit(tree[i]) /\ names[i] # None)
  IN [k \in DOMAIN told |-> LET node == tree[told[k]]
                            IN Unit(<<node.key>>, names[told[k]], "config_key", node.first, node.last)]

-----------------------------------------------------------------------------
(* A file of a project: of an extension, with its lines or its tree; the   *)
(* source it holds cannot be read as text when it is None.                 *)
IsMarkdown(file) == file.extension \in {"md", "markdown"}
IsDocumentExtension(extension) == extension \in {"md", "markdown", "json", "yaml", "yml", "toml"}
Units(file) == IF IsMarkdown(file) THEN MarkdownUnits(file.source) ELSE ConfigUnits(file.source)

FillerWords == {"the", "a", "an", "how", "where", "is", "are", "to", "of", "for", "in"}
MatchScore(unit, query) ==
  LET tokens == ToSet(query) \ (FillerWords \cup {Mark, Joint})
  IN IF query \in {unit.name, unit.qualified} THEN 100
     ELSE IF \E i \in DOMAIN unit.name : SubSeq(unit.name, i, Min({Len(unit.name), i + Len(query) - 1})) = query THEN 80
     ELSE IF tokens # {} /\ tokens \subseteq ToSet(unit.qualified) THEN 50 ELSE 0

(* Which files a question is about.                                       *)
Concerns(question, file) ==
  /\ IsDocumentExtension(file.extension) /\ file.source # None
  /\ question.language \in {None, file.extension}
  /\ ~(question.intent \in {"docs", "documentation"} /\ ~IsMarkdown(file))
  /\ ~(question.intent = "config" /\ IsMarkdown(file))

(* discover: file by file in order, the best so far kept, each in the      *)
(* place it was found in among those of its score.                         *)
Found(score, path, unit) == [score |-> score, path |-> path, unit |-> unit]
Insert(found, f) ==
  LET ahead == SelectSeq(found, LAMBDA x : x.score >= f.score)
  IN ahead \o <<f>> \o SubSeq(found, Len(ahead) + 1, Len(found))
Keep(found, limit) == SubSeq(found, 1, Min({limit, Len(found)}))
UnitsOf(question, path, file) ==
  LET fits(u) == question.kind \in {None, u.kind} /\ MatchScore(u, question.words) > 0
      units == SelectSeq(Units(file), fits)
  IN [i \in DOMAIN units |-> Found(MatchScore(units[i], question.words), path, units[i])]
Discover(question, paths, files) ==
  LET read == SelectSeq(paths, LAMBDA p : Concerns(question, files[p]))
      all == FlattenSeq([i \in DOMAIN read |-> UnitsOf(question, read[i], files[read[i]])])
  IN FoldLeft(LAMBDA found, f : Keep(Insert(found, f), question.limit), << >>, all)

(* related_source: symbols a unit spells, by their id, three at most.  What *)
(* a section spells in backticks is among the names of its lines.          *)
Spells(f, files, name) ==
  IF f.unit.kind = "config_key" THEN f.unit.name = <<name>>
  ELSE \E i \in f.unit.first..Min({f.unit.last, Len(files[f.path].source)}) :
         name \in files[f.path].source[i].spelled
RelatedSource(f, files, symbols) ==
  Keep(SelectSeq(symbols, LAMBDA s : s.file \in DOMAIN files /\ Spells(f, files, s.name)), 3)
=============================================================================
