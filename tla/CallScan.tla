------------------------------ MODULE CallScan -------------------------------
(***************************************************************************)
(* What a symbol refers to, read off its text (graph.rs, from              *)
(* scan_direct_references on): the calls its syntax tree holds, resolved   *)
(* through imports, receivers and local names, and the identifiers of its  *)
(* text without comments and strings.                                      *)
(*                                                                         *)
(* A project holds its symbols, the lines of each and the imports of each  *)
(* file, each with the symbols whose text it stands within; some files are *)
(* unreadable (not to be opened), some mangled (not UTF-8).  A line is its *)
(* tokens, the calls that begin on it, the name it binds and whether it is *)
(* neither short nor long, with the names it calls in truth.  Confidences  *)
(* are in hundredths, evidence is a line of a symbol.  What a call names   *)
(* is a tree: its nodes, the root first, each with the places of its kids  *)
(* among them.                                                             *)
(***************************************************************************)
EXTENDS Naturals, Sequences, SequencesExt, FiniteSets

CONSTANTS
  Holds(_, _),      (* a text holds another (str::contains)                *)
  ShortNames,       (* identifiers of one or two characters                *)
  Rank(_)           (* the place of a symbol by name, file and line        *)

VARIABLE project

None == "none"
Capped(confidence, cap) == IF confidence < cap THEN confidence ELSE cap
Ambiguous == "ambiguous"
Resolved == "resolved"
AmbiguousCap == 84
GenericCap(sym) == IF sym.language \in {"rust", "python", "typescript"} THEN 84 ELSE 100
IsCallable(sym) == sym.kind \in {"Function", "Method", "Macro", "Class"}

-----------------------------------------------------------------------------
(* Comments and strings go, state by state; what is open at the end of a   *)
(* line stays open only in a block comment or a triple quote.              *)
Quotes == {"'", "dq"}
TripleQuotes == {"'''", "dqdqdq"}
Punctuation == {"(", ")", "::", ".", ",", "=", "--", "//", "#", "/*", "*/"} \cup Quotes \cup TripleQuotes

StripToken(acc, token) ==
  CASE acc.state = "normal" /\ token \in Quotes \cup TripleQuotes -> [acc EXCEPT !.state = token]
    [] acc.state = "normal" /\ token \in {"//", "#"} -> [acc EXCEPT !.state = "line comment"]
    [] acc.state = "normal" /\ token = "/*" -> [acc EXCEPT !.state = "block comment"]
    [] acc.state = "normal" -> [acc EXCEPT !.kept = Append(@, token)]
    [] acc.state = "block comment" /\ token = "*/" -> [acc EXCEPT !.state = "normal"]
    [] acc.state \in Quotes \cup TripleQuotes /\ token = acc.state -> [acc EXCEPT !.state = "normal"]
    [] OTHER -> acc
StripLine(acc, line) ==
  LET read == FoldLeft(StripToken, [state |-> acc.state, kept |-> << >>], line.tokens)
  IN [state |-> IF read.state \in Quotes \cup {"line comment"} THEN "normal" ELSE read.state,
      clean |-> Append(acc.clean, read.kept)]
StripCommentsAndStrings(lines) ==
  FoldLeft(StripLine, [state |-> "normal", clean |-> << >>], lines).clean

ExtractIdentifiers(clean) ==
  UNION {ToSet(clean[i]) : i \in DOMAIN clean} \ (Punctuation \cup ShortNames)
ContainsCallPattern(clean, name) ==
  \E i \in DOMAIN clean : \E j \in 1..(Len(clean[i]) - 1) :
    clean[i][j] = name /\ clean[i][j + 1] = "("
CallShapedUnambiguous(clean, sym, ambiguous) ==
  ~ambiguous /\ IsCallable(sym) /\ ContainsCallPattern(clean, sym.name)

(* The first line that holds the name, and what its shape is worth.        *)
EvidenceLine(clean, name) ==
  CHOOSE i \in DOMAIN clean :
    /\ \E token \in ToSet(clean[i]) : Holds(token, name)
    /\ \A j \in 1..(i - 1) : \A token \in ToSet(clean[j]) : ~Holds(token, name)
EvidenceConfidence(tokens, sym) ==
  IF "(" \in tokens THEN IF sym.kind \in {"Function", "Method"} THEN 98 ELSE 90
  ELSE IF "::" \in tokens THEN 86 ELSE 80

-----------------------------------------------------------------------------
(* What a call names.                                                      *)
Leaves == {"identifier", "field_identifier"}
Through == {"generic_function", "await_expression", "try_expression", "reference_expression",
            "parenthesized_expression"}
LastFound(names) == IF SelectSeq(names, LAMBDA n : n # None) = << >> THEN None
                    ELSE Last(SelectSeq(names, LAMBDA n : n # None))
LastIdentifier(nodes) ==
  LET last[k \in DOMAIN nodes] ==
        IF nodes[k].kind \in Leaves THEN nodes[k].name
        ELSE LastFound([i \in DOMAIN nodes[k].kids |-> last[nodes[k].kids[i]]])
  IN last
RustCallableName(nodes) ==
  LET name[k \in DOMAIN nodes] ==
        CASE nodes[k].kind \in Leaves -> nodes[k].name
          [] nodes[k].kind \in {"scoped_identifier", "field_expression"} ->
               LET own == name[Last(nodes[k].kids)]
               IN IF own # None THEN own ELSE LastIdentifier(nodes)[k]
          [] nodes[k].kind \in Through -> LastFound([i \in DOMAIN nodes[k].kids |-> name[nodes[k].kids[i]]])
          [] OTHER -> None
  IN name[1]

Target(name, receiver, confidence) ==
  [name |-> name, receiver |-> receiver, confidence |-> confidence]
RustTarget(call) ==
  LET named == RustCallableName(call.target)
      found == IF named # None \/ call.kind = "call_expression" THEN named
               ELSE LastIdentifier(call.target)[1]
  IN Target(found, None, IF call.kind = "macro_invocation" THEN 98 ELSE 99)

(* What is neither a name nor a member is called through no name at all.   *)
Dynamic(n) == Target(n.name, "<dynamic>", 65)
Unwrapped(nodes) ==
  LET inner[k \in DOMAIN nodes] ==
        IF nodes[k].kind = "parenthesized_expression" THEN inner[nodes[k].kids[1]] ELSE k
  IN nodes[inner[1]]
PythonCallTarget(nodes) ==
  LET n == Unwrapped(nodes)
  IN CASE n.kind = "identifier" -> Target(n.name, None, 98)
       [] n.kind = "attribute" -> Target(n.name, n.object, 98)
       [] OTHER -> Dynamic(n)
TsCallTarget(nodes) ==
  LET n == Unwrapped(nodes)
      index == nodes[n.kids[1]]
  IN CASE n.kind = "identifier" -> Target(n.name, None, 98)
       [] n.kind = "member_expression" -> Target(n.name, n.object, 98)
       [] n.kind = "subscript_expression" /\ index.kind = "string" -> Target(index.name, n.object, 90)
       [] OTHER -> Dynamic(n)
TsTarget(call) ==
  LET target == TsCallTarget(call.target)
  IN IF call.kind = "new_expression" THEN [target EXCEPT !.confidence = Capped(@, 95)] ELSE target

(* The calls of a text that name something, each with where it begins: a   *)
(* line, and a place among the calls of the line.                          *)
TargetOf(sym, call) ==
  CASE sym.language = "rust" -> RustTarget(call)
    [] sym.language = "python" -> PythonCallTarget(call.target)
    [] sym.language = "typescript" -> TsTarget(call)
CallsOf(lines) == UNION {{<<i, j>> : j \in DOMAIN lines[i].calls} : i \in DOMAIN lines}
AstMatches(sym) ==
  LET lines == project.text[sym.id]
      match(at) == [target |-> TargetOf(sym, lines[at[1]].calls[at[2]]), at |-> at]
  IN {m \in {match(at) : at \in CallsOf(lines)} : GenericCap(sym) # 100 /\ m.target.name # None}

-----------------------------------------------------------------------------
(* Imports: a namespace, or names and a default, of a module.  Names in a  *)
(* text: those a line assigns or declares, and the parameters.             *)
Binding(local, imported, module, namespace) ==
  [local |-> local, imported |-> imported, module |-> module, namespace |-> namespace]
ParsePythonImport(s) ==
  IF s.names = << >>
  THEN <<Binding(IF s.alias = None THEN Head(s.module.path) ELSE s.alias, None, s.module, TRUE)>>
  ELSE [i \in DOMAIN s.names |-> Binding(s.names[i].local, s.names[i].imported, s.module, FALSE)]
ParseTypescriptImport(s) ==
  IF s.alias # None THEN <<Binding(s.alias, None, s.module, TRUE)>>
  ELSE [i \in DOMAIN s.names |-> Binding(s.names[i].local, s.names[i].imported, s.module, FALSE)]
       \o (IF s.default = None THEN << >> ELSE <<Binding(s.default, "default", s.module, FALSE)>>)
ParseImports(language, statements) ==
  FlattenSeq([i \in DOMAIN statements |->
    IF language = "python" THEN ParsePythonImport(statements[i])
                           ELSE ParseTypescriptImport(statements[i])])
(* Of a file that is not UTF-8 only the statements within the symbols own  *)
(* text are found (file_source falls back on the text of the symbol).      *)
Within(id, statements) == SelectSeq(statements, LAMBDA s : id \in s.within)
StatementsFor(sym) ==
  LET all == project.imports[sym.file]
  IN IF sym.file \in project.mangled THEN Within(sym.id, all) ELSE all
ImportsOf(sym) == ParseImports(sym.language, StatementsFor(sym))

(* A line binds a name by a declaration or, in Python, any assignment; the *)
(* parameters are read last.  A later type replaces an earlier one.        *)
Binds(sym, b) ==
  b.parameter \/ ((b.keyword \/ sym.language = "python") /\ (b.assigned \/ b.type # None))
OwnerOf(b) == IF b.type # None \/ b.parameter THEN b.type ELSE b.constructed
BindingsIn(lines, sym) ==
  LET bound == SelectSeq([i \in DOMAIN lines |-> lines[i].binds],
                         LAMBDA b : b.local # None /\ Binds(sym, b))
  IN SelectSeq(bound, LAMBDA b : ~b.parameter) \o SelectSeq(bound, LAMBDA b : b.parameter)
CollectLocalBindings(sym) == BindingsIn(project.text[sym.id], sym)
Shadowed(sym) == {b.local : b \in ToSet(CollectLocalBindings(sym))}
TypeAmong(bindings, receiver) ==
  LET typed == SelectSeq(bindings, LAMBDA b : b.local = receiver /\ OwnerOf(b) # None)
  IN IF typed = << >> THEN receiver ELSE OwnerOf(Last(typed))
ReceiverType(sym, receiver) == TypeAmong(CollectLocalBindings(sym), receiver)

-----------------------------------------------------------------------------
(* CandidateIndex: the symbols of the language that bear the name.         *)
Lookup(name, caller) ==
  {s \in project.symbols : s.language = caller.language /\ s.name = name /\ s.id # caller.id}

(* A module is the names of its path; dots before it begin at a directory. *)
ModulePath(caller, module) ==
  IF module.dots = 0 THEN module.path
  ELSE LET up == Len(caller.path) - module.dots
       IN SubSeq(caller.path, 1, IF up > 0 THEN up ELSE 0) \o module.path
ModuleMatches(s, caller, module) ==
  LET full == ModulePath(caller, module)
      stems == {full, Append(full, "index"), Append(full, "__init__")}
  IN /\ module.path # << >> \/ caller.language = "typescript"
     /\ IF module.dots > 0 THEN s.path \in stems ELSE \E stem \in stems : IsSuffix(stem, s.path)
InModule(found, caller, module) == {s \in found : ModuleMatches(s, caller, module)}

OwnerPart(s) == Front(s.qualified)
PreferLexical(caller, found) ==
  LET scoped == {s \in found : Len(caller.qualified) > 1 /\ OwnerPart(s) = OwnerPart(caller)}
  IN IF scoped # {} THEN scoped ELSE {s \in found : Len(s.qualified) = 1}

Named(imports, local, namespace) ==
  SelectSeq(imports, LAMBDA b : b.namespace = namespace /\ b.local = local)
NamedImports(caller, local) == Named(ImportsOf(caller), local, FALSE)
Namespaces(caller, local) == Named(ImportsOf(caller), local, TRUE)
BindingCandidates(caller, binding) ==
  IF binding.imported = "default"
  THEN InModule({s \in project.symbols : /\ s.id # caller.id /\ s.language = caller.language
                                         /\ IsCallable(s)}, caller, binding.module)
  ELSE InModule(Lookup(binding.imported, caller), caller, binding.module)

(* The class a receiver stands for: the callers own, an imported one, one  *)
(* of the file, or the only one there is; None when that is open.          *)
Owner(qualified, module) == [qualified |-> qualified, module |-> module]
ImportedOwner(caller, binding) ==
  IF binding.imported # "default" THEN {Owner(<<binding.imported>>, <<binding.module>>)}
  ELSE LET classes == InModule({s \in project.symbols : s.language = caller.language /\ s.kind = "Class"},
                               caller, binding.module)
       IN IF Cardinality(classes) # 1 THEN {}
          ELSE {Owner(<<s.name>>, <<binding.module>>) : s \in classes}
VisibleClass(caller, name) ==
  LET found == Lookup(name, caller)
      near == {s \in found : s.file = caller.file}
      only(set) == Cardinality(set) = 1 /\ \A s \in set : s.kind = "Class"
  IN IF only(near) THEN {Owner(<<s.name>>, << >>) : s \in near}
     ELSE IF only(found) THEN {Owner(<<s.name>>, << >>) : s \in found} ELSE {}
ReceiverOwner(caller, receiver) ==
  IF receiver \in {"self", "cls", "this"}
  THEN IF Len(caller.qualified) > 1 THEN {Owner(OwnerPart(caller), << >>)} ELSE {}
  ELSE LET name == ReceiverType(caller, receiver)
       IN IF NamedImports(caller, name) # << >>
          THEN ImportedOwner(caller, Head(NamedImports(caller, name)))
          ELSE VisibleClass(caller, name)

Unresolved(reason) == [found |-> {}, reason |-> reason]
Visible(found) == [found |-> found, reason |-> IF found = {} THEN "no_visible_target" ELSE None]
ResolveMember(caller, name, receiver) ==
  IF Namespaces(caller, receiver) # << >>
  THEN Visible(InModule(Lookup(name, caller), caller, Head(Namespaces(caller, receiver)).module))
  ELSE LET owners == ReceiverOwner(caller, receiver)
           methods(o) == {s \in Lookup(name, caller) : s.qualified = Append(o.qualified, s.name)}
       IN IF owners = {} THEN Unresolved("dynamic_receiver")
          ELSE Visible(UNION {IF o.module = << >> THEN methods(o)
                              ELSE InModule(methods(o), caller, o.module[1]) : o \in owners})
ResolveName(caller, name) ==
  LET lexical == PreferLexical(caller, {s \in Lookup(name, caller) : s.file = caller.file})
  IN IF name \in Shadowed(caller) THEN Unresolved("shadowed_local_binding")
     ELSE IF lexical # {} THEN Visible(lexical)
     ELSE IF NamedImports(caller, name) = << >> THEN Visible({})
     ELSE Visible(BindingCandidates(caller, Head(NamedImports(caller, name))))
ResolveMatch(caller, target) ==
  IF caller.language = "rust" THEN Visible(Lookup(target.name, caller))
  ELSE IF target.receiver # None THEN ResolveMember(caller, target.name, target.receiver)
  ELSE ResolveName(caller, target.name)

-----------------------------------------------------------------------------
Reference(target, at, confidence, ambiguous) ==
  [id |-> target.id, name |-> target.name, rank |-> Rank(target), at |-> at,
   confidence |-> IF ambiguous THEN Capped(confidence, AmbiguousCap) ELSE confidence,
   resolution |-> IF ambiguous THEN Ambiguous ELSE Resolved]
RefsFromMatch(m, found) ==
  {Reference(s, m.at, m.target.confidence, Cardinality(found) > 1) : s \in found}

GenericReferences(sym) ==
  LET clean == StripCommentsAndStrings(project.text[sym.id])
      named == UNION {Lookup(name, sym) : name \in ExtractIdentifiers(clean)}
      reference(s) ==
        LET ambiguous == Cardinality(Lookup(s.name, sym)) > 1
            line == EvidenceLine(clean, s.name)
            shown == EvidenceConfidence(ToSet(clean[line]), s)
        IN Reference(s, <<line, 0>>,
                     IF CallShapedUnambiguous(clean, s, ambiguous) THEN 98
                     ELSE Capped(shown, GenericCap(sym)),
                     ambiguous)
  IN {reference(s) : s \in named}

(* Sorted by resolution, confidence and symbol; of the same three in the   *)
(* order they were found, the calls of the tree from the last to the first *)
(* (the walk is a stack), those of the text after them.  Then one that     *)
(* follows another to the same symbol goes; what stands between two keeps  *)
(* the second.                                                             *)
SameKey(a, b) == a.id = b.id /\ a.resolution = b.resolution /\ a.confidence = b.confidence
FoundBefore(a, b) ==
  IF a.at[2] = 0 \/ b.at[2] = 0 THEN a.at[2] # 0
  ELSE a.at[1] > b.at[1] \/ (a.at[1] = b.at[1] /\ a.at[2] > b.at[2])
SortsBefore(a, b) ==
  \/ a.resolution = Resolved /\ b.resolution = Ambiguous
  \/ a.resolution = b.resolution /\ a.confidence > b.confidence
  \/ a.resolution = b.resolution /\ a.confidence = b.confidence /\ a.rank < b.rank
Repeats(refs, first, next) ==
  /\ first.id = next.id
  /\ \/ SameKey(first, next) /\ FoundBefore(first, next)
     \/ /\ SortsBefore(first, next)
        /\ ~\E between \in refs :
             between.id # next.id /\ SortsBefore(first, between) /\ SortsBefore(between, next)
SortDirectReferences(refs) ==
  refs \ {pair[2] : pair \in {p \in refs \X refs : Repeats(refs, p[1], p[2])}}

(* Rust sorts the calls of the tree by themselves first.                   *)
Scan(match, outcome) == [target |-> match.target, at |-> match.at,
                         found |-> outcome.found, reason |-> outcome.reason]
Scans(sym, matches) == {Scan(m, ResolveMatch(sym, m.target)) : m \in matches}
ReferencesOf(sym, scans) ==
  LET called == UNION {RefsFromMatch(m, m.found) : m \in scans}
      ofTree == IF sym.language = "rust" THEN SortDirectReferences(called) ELSE called
      told == IF sym.language = "rust" THEN {} ELSE {m.target.name : m \in scans}
      generic == {r \in GenericReferences(sym) : r.name \notin told}
      line(r) == <<sym.id, r.at[1]>>
  IN [references |-> {[id |-> r.id, line |-> line(r), confidence |-> r.confidence, resolution |-> r.resolution] :
                        r \in SortDirectReferences(ofTree \cup generic)},
      unresolved |-> {[name |-> m.target.name, line |-> m.at[1], reason |-> m.reason] :
                        m \in {x \in scans : sym.language # "rust" /\ x.reason # None}}]
ScanDirectReferences(sym) == ReferencesOf(sym, Scans(sym, AstMatches(sym)))
=============================================================================
