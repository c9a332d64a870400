---------------------------- MODULE CallGraph_proof ----------------------------
(***************************************************************************)
(* Lemmas about the navigation graph, for every index whose symbols have   *)
(* ids of their own: what a reading of a symbol tells, that a graph tells  *)
(* the same, what its edges join, and that a graph of an index that has    *)
(* not changed is built the same.  What is told over an index rests on     *)
(* them: of the impact of a change, and of the ways of an execution.       *)
(***************************************************************************)
EXTENDS NavigationGraph, FiniteSetTheorems, WellFoundedInduction, TLAPS

\* A finite set of numbers that is not empty has a greatest: the sets of what
\* is not below a member get smaller, and not forever.
LEMMA GreatestExists ==
  ASSUME NEW D \in SUBSET Int, IsFiniteSet(D), D # {}
  PROVE  \E k \in D : \A j \in D : j <= k
<1> DEFINE From(k) == {j \in D : j >= k}
           Tails == {From(k) : k \in D}
<1>1. IsWellFoundedOn(StrictSubsetOrdering(D), FiniteSubsetsOf(D))
  BY FS_StrictSubsetOrderingWellFounded
<1>2. FiniteSubsetsOf(D) = SUBSET D
  BY FS_FiniteSubsetsOfFinite
<1>3. Tails \subseteq SUBSET D /\ Tails # {}
  OBVIOUS
<1>4. PICK T \in Tails : \A U \in Tails : ~(<<U, T>> \in StrictSubsetOrdering(D))
  <2>1. IsWellFoundedOn(StrictSubsetOrdering(D), SUBSET D)
    BY <1>1, <1>2
  <2> HIDE DEF Tails
  <2> QED
    BY <2>1, <1>3, WFMin
<1>5. PICK k \in D : T = From(k)
  BY <1>4
<1>6. ASSUME NEW j \in D, ~(j <= k) PROVE FALSE
  <2>0. j \in Int /\ k \in Int /\ k < j /\ \A n \in D : n \in Int
    BY <1>6
  <2>1. From(j) \subseteq From(k) /\ k \in From(k) /\ k \notin From(j)
    <3>1. \A n \in D : n >= j => n >= k
      BY <2>0
    <3>2. k >= k /\ ~(k >= j)
      BY <2>0
    <3> QED
      BY <3>1, <3>2
  <2>2. <<From(j), From(k)>> \in StrictSubsetOrdering(D)
    BY <2>1, <1>3 DEF StrictSubsetOrdering
  <2> QED
    BY <1>4, <1>5, <2>2
<1> QED
  BY <1>6

\* What holds of zero and of the next of every number it holds of.
LEMMA Counting ==
  ASSUME NEW S \in SUBSET Nat, 0 \in S, \A n \in S : n + 1 \in S
  PROVE  S = Nat
<1>1. ASSUME NEW n \in Nat, n \notin S PROVE FALSE
  <2> DEFINE D == S \cap (0..n)
  <2>1. D \in SUBSET Nat /\ IsFiniteSet(D) /\ 0 \in D
    <3>1. IsFiniteSet(0..n)
      BY FS_Interval
    <3> QED
      BY <3>1, FS_Subset
  <2>2. PICK k \in D : \A j \in D : j <= k
    <3> HIDE DEF D
    <3> QED
      BY <2>1, GreatestExists
  <2>3. k \in Nat /\ k <= n /\ k # n
    BY <1>1
  <2>4. k + 1 \in D
    BY <2>3
  <2>5. k + 1 <= k
    BY <2>2, <2>4
  <2> QED
    BY <2>3, <2>5
<1> QED
  BY <1>1

-----------------------------------------------------------------------------
(* What a reading of a symbol tells.  Of two references found at one place *)
(* to one symbol there is but one, so that sorting and dropping what       *)
(* repeats leaves one of each symbol, resolution and confidence; each is   *)
(* of another symbol, and certain only if it has one candidate.            *)

\* What every index of a revision is.
ProjectOK ==
  /\ \A s, t \in project.symbols : s.id = t.id => s = t
  /\ \A s \in project.symbols : \A i \in DOMAIN project.text[s.id] :
       /\ i \in Nat \ {0}
       /\ \A j \in DOMAIN project.text[s.id][i].calls : j \in Nat \ {0}

\* The symbols a caller may refer to.
Others(caller) == {s \in project.symbols : s.id # caller.id}

\* What a reference is before it is told: of another symbol, of a confidence
\* in hundredths, and an ambiguous one never above the cap.
Fit(r, sym) ==
  /\ \E s \in Others(sym) : r.id = s.id
  /\ r.confidence \in 0..100
  /\ r.resolution \in {Resolved, Ambiguous}
  /\ r.resolution = Ambiguous => r.confidence <= 84
\* Where it was found, a line and a place on it, or a line of text.
FoundAt(r) == r.at[2] = 0 \/ r.at \in (Nat \ {0}) \X (Nat \ {0})
\* No two of one symbol at one place.
OneAPlace(refs) ==
  \A a, b \in refs : a.id = b.id /\ (a.at = b.at \/ (a.at[2] = 0 /\ b.at[2] = 0)) => a = b

\* The confidence of what a call names is in hundredths.
LEMMA ConfidenceOfTarget ==
  ASSUME NEW sym, NEW call, GenericCap(sym) # 100
  PROVE  TargetOf(sym, call).confidence \in 0..100
<1>1. sym.language \in {"rust", "python", "typescript"}
  BY DEF GenericCap
<1>2. RustTarget(call).confidence \in 0..100
  BY DEF RustTarget, Target
<1>3. PythonCallTarget(call.target).confidence \in 0..100
  BY DEF PythonCallTarget, Dynamic, Target
<1>4. TsCallTarget(call.target).confidence \in 0..100
  BY DEF TsCallTarget, Dynamic, Target
<1>5. TsTarget(call).confidence \in 0..100
  <2> DEFINE ATarget(t) == t = Target(t.name, t.receiver, t.confidence)
  <2>1. \A name, receiver, confidence : ATarget(Target(name, receiver, confidence))
    BY DEF Target
  <2>2. \A n : ATarget(Dynamic(n))
    BY <2>1 DEF Dynamic
  <2> HIDE DEF ATarget
  <2>3. ATarget(TsCallTarget(call.target))
    BY <2>1, <2>2 DEF TsCallTarget
  <2>4. TsCallTarget(call.target) \in [name : {TsCallTarget(call.target).name},
                                       receiver : {TsCallTarget(call.target).receiver}, confidence : 0..100]
    BY <1>4, <2>3 DEF ATarget, Target
  <2> QED
    BY <2>4 DEF TsTarget, Capped
<1> QED
  BY <1>1, <1>2, <1>3, <1>5 DEF TargetOf

\* No import leads a caller to itself.
LEMMA CandidatesAreOthers ==
  ASSUME NEW caller, NEW binding
  PROVE  BindingCandidates(caller, binding) \subseteq Others(caller)
BY DEF BindingCandidates, InModule, Lookup, Others

\* Nor does a name.
LEMMA LookedUpAreOthers ==
  ASSUME NEW caller, NEW name
  PROVE  Lookup(name, caller) \subseteq Others(caller)
BY DEF Lookup, Others

\* Nor does a member of what it holds.
LEMMA MembersAreOthers ==
  ASSUME NEW caller, NEW name, NEW receiver
  PROVE  ResolveMember(caller, name, receiver).found \subseteq Others(caller)
<1>1. \A m : InModule(Lookup(name, caller), caller, m) \subseteq Others(caller)
  BY LookedUpAreOthers DEF InModule
<1> DEFINE methods(o) == {s \in Lookup(name, caller) : s.qualified = Append(o.qualified, s.name)}
           owners == ReceiverOwner(caller, receiver)
           found == UNION {IF o.module = << >> THEN methods(o)
                           ELSE InModule(methods(o), caller, o.module[1]) : o \in owners}
<1>2. found \subseteq Others(caller)
  BY LookedUpAreOthers DEF InModule
<1>3. ResolveMember(caller, name, receiver).found
        \in {InModule(Lookup(name, caller), caller, Head(Namespaces(caller, receiver)).module), {}, found}
  BY DEF ResolveMember, Visible, Unresolved
<1> QED
  BY <1>1, <1>2, <1>3

\* Nor does a name that scopes and imports resolve.
LEMMA NamedAreOthers ==
  ASSUME NEW caller, NEW name
  PROVE  ResolveName(caller, name).found \subseteq Others(caller)
<1> DEFINE near == {s \in Lookup(name, caller) : s.file = caller.file}
           lexical == PreferLexical(caller, near)
<1>1. lexical \subseteq Others(caller)
  BY LookedUpAreOthers DEF PreferLexical
<1>2. ResolveName(caller, name).found \in {{}, lexical, BindingCandidates(caller, Head(NamedImports(caller, name)))}
  BY DEF ResolveName, Visible, Unresolved
<1> QED
  BY <1>1, <1>2, CandidatesAreOthers

\* So no call resolves to its own caller.
LEMMA ResolvedAreOthers ==
  ASSUME NEW caller, NEW target
  PROVE  ResolveMatch(caller, target).found \subseteq Others(caller)
BY LookedUpAreOthers, MembersAreOthers, NamedAreOthers DEF ResolveMatch, Visible

\* A reference of a confidence in hundredths is fit to be told.
LEMMA ReferenceFits ==
  ASSUME NEW sym, NEW s \in Others(sym), NEW at, NEW confidence \in 0..100, NEW ambiguous \in BOOLEAN
  PROVE  Fit(Reference(s, at, confidence, ambiguous), sym)
BY DEF Reference, Fit, Capped, AmbiguousCap, Resolved, Ambiguous

\* Two references with one key, of which one was found first: the other is
\* one that repeats.
LEMMA NoneRepeats ==
  ASSUME NEW refs, NEW a \in SortDirectReferences(refs), NEW b \in SortDirectReferences(refs)
  PROVE  a \in refs /\ b \in refs /\ ~Repeats(refs, a, b)
<1>1. a \in refs /\ b \in refs
  BY DEF SortDirectReferences
<1>2. ASSUME Repeats(refs, a, b) PROVE FALSE
  <2>1. <<a, b>> \in {p \in refs \X refs : Repeats(refs, p[1], p[2])}
    BY <1>1, <1>2
  <2>2. b \in {pair[2] : pair \in {p \in refs \X refs : Repeats(refs, p[1], p[2])}}
    BY <2>1
  <2> QED
    BY <2>2 DEF SortDirectReferences
<1> QED
  BY <1>1, <1>2

\* What is left when repeats are dropped holds no two with one key, if no two
\* were found at one place.
LEMMA SortedOnce ==
  ASSUME NEW refs, \A r \in refs : FoundAt(r), OneAPlace(refs),
         NEW a \in SortDirectReferences(refs), NEW b \in SortDirectReferences(refs), SameKey(a, b)
  PROVE  a = b
<1>1. a \in refs /\ b \in refs /\ ~Repeats(refs, a, b) /\ ~Repeats(refs, b, a)
  BY NoneRepeats
<1>2. ~FoundBefore(a, b) /\ ~FoundBefore(b, a)
  BY <1>1 DEF Repeats, SameKey
<1>3. a.id = b.id
  BY DEF SameKey
<1>4. CASE a.at[2] = 0 \/ b.at[2] = 0
  BY <1>1, <1>2, <1>3, <1>4 DEF FoundBefore, OneAPlace
<1>5. CASE a.at[2] # 0 /\ b.at[2] # 0
  <2>1. a.at \in (Nat \ {0}) \X (Nat \ {0}) /\ b.at \in (Nat \ {0}) \X (Nat \ {0})
    BY <1>1, <1>5 DEF FoundAt
  <2>2. a.at[1] = b.at[1] /\ a.at[2] = b.at[2]
    BY <1>2, <1>5, <2>1 DEF FoundBefore
  <2>3. a.at = b.at
    BY <2>1, <2>2
  <2> QED
    BY <1>1, <1>3, <2>3 DEF OneAPlace
<1> QED
  BY <1>4, <1>5

\* Calls begin at places of their own.
LEMMA CallsArePlaced ==
  ASSUME ProjectOK, NEW sym \in project.symbols, NEW m \in AstMatches(sym)
  PROVE  m.at \in (Nat \ {0}) \X (Nat \ {0}) /\ m.target.confidence \in 0..100
<1> DEFINE lines == project.text[sym.id]
           match(at) == [target |-> TargetOf(sym, lines[at[1]].calls[at[2]]), at |-> at]
<1>1. PICK at \in CallsOf(lines) : m = match(at) /\ GenericCap(sym) # 100
  BY DEF AstMatches
<1>2. PICK i \in DOMAIN lines : \E j \in DOMAIN lines[i].calls : at = <<i, j>>
  BY <1>1 DEF CallsOf
<1>5. PICK j \in DOMAIN lines[i].calls : at = <<i, j>>
  BY <1>2
<1>3. i \in Nat \ {0} /\ j \in Nat \ {0}
  BY <1>2, <1>5 DEF ProjectOK
<1>4. TargetOf(sym, lines[at[1]].calls[at[2]]).confidence \in 0..100
  BY <1>1, ConfidenceOfTarget
<1> QED
  BY <1>1, <1>5, <1>3, <1>4

\* And at one place begins one of them.
LEMMA OneMatchAPlace ==
  ASSUME NEW sym, NEW m \in AstMatches(sym), NEW n \in AstMatches(sym), m.at = n.at
  PROVE  m = n
BY DEF AstMatches

\* What calls of a tree refer to is fit, no two at one place.
LEMMA CalledFit ==
  ASSUME ProjectOK, NEW sym \in project.symbols, NEW scans, scans = Scans(sym, AstMatches(sym)),
         NEW called, called = UNION {RefsFromMatch(m, m.found) : m \in scans}
  PROVE  /\ \A r \in called : Fit(r, sym) /\ r.at \in (Nat \ {0}) \X (Nat \ {0})
         /\ \A a, b \in called : a.id = b.id /\ a.at = b.at => a = b
<1>1. ASSUME NEW r \in called
      PROVE  \E m \in AstMatches(sym) : LET found == ResolveMatch(sym, m.target).found IN
               \E s \in found : r = Reference(s, m.at, m.target.confidence, Cardinality(found) > 1)
  <2>1. PICK x \in scans : r \in RefsFromMatch(x, x.found)
    BY <1>1
  <2>2. PICK m \in AstMatches(sym) : x = Scan(m, ResolveMatch(sym, m.target))
    BY <2>1 DEF Scans
  <2>3. x.target = m.target /\ x.at = m.at /\ x.found = ResolveMatch(sym, m.target).found
    BY <2>2 DEF Scan
  <2> QED
    BY <2>1, <2>3 DEF RefsFromMatch
<1>2. ASSUME NEW r \in called
      PROVE  Fit(r, sym) /\ r.at \in (Nat \ {0}) \X (Nat \ {0})
  <2>0. PICK m \in AstMatches(sym) : LET found == ResolveMatch(sym, m.target).found IN
          \E s \in found : r = Reference(s, m.at, m.target.confidence, Cardinality(found) > 1)
    BY <1>1
  <2>1. PICK s \in ResolveMatch(sym, m.target).found :
          r = Reference(s, m.at, m.target.confidence, Cardinality(ResolveMatch(sym, m.target).found) > 1)
    BY <2>0
  <2>2. s \in Others(sym)
    BY <2>1, ResolvedAreOthers
  <2>3. m.at \in (Nat \ {0}) \X (Nat \ {0}) /\ m.target.confidence \in 0..100
    BY CallsArePlaced
  <2>4. r.at = m.at
    BY <2>1 DEF Reference
  <2>5. (Cardinality(ResolveMatch(sym, m.target).found) > 1) \in BOOLEAN
    OBVIOUS
  <2>6. Fit(r, sym)
    BY <2>1, <2>2, <2>3, <2>5, ReferenceFits
  <2> QED
    BY <2>3, <2>4, <2>6
<1>3. ASSUME NEW a \in called, NEW b \in called, a.id = b.id, a.at = b.at
      PROVE  a = b
  <2>a. PICK m \in AstMatches(sym) : LET found == ResolveMatch(sym, m.target).found IN
          \E s \in found : a = Reference(s, m.at, m.target.confidence, Cardinality(found) > 1)
    BY <1>1
  <2>1. PICK s \in ResolveMatch(sym, m.target).found :
          a = Reference(s, m.at, m.target.confidence, Cardinality(ResolveMatch(sym, m.target).found) > 1)
    BY <2>a
  <2>b. PICK n \in AstMatches(sym) : LET found == ResolveMatch(sym, n.target).found IN
          \E t \in found : b = Reference(t, n.at, n.target.confidence, Cardinality(found) > 1)
    BY <1>1
  <2>2. PICK t \in ResolveMatch(sym, n.target).found :
          b = Reference(t, n.at, n.target.confidence, Cardinality(ResolveMatch(sym, n.target).found) > 1)
    BY <2>b
  <2>3. a.at = m.at /\ b.at = n.at /\ a.id = s.id /\ b.id = t.id
    BY <2>1, <2>2 DEF Reference
  <2>4. m = n
    BY <1>3, <2>3, OneMatchAPlace
  <2>5. s \in project.symbols /\ t \in project.symbols
    BY <2>1, <2>2, ResolvedAreOthers DEF Others
  <2>6. s = t
    BY <1>3, <2>3, <2>5 DEF ProjectOK
  <2> QED
    BY <2>1, <2>2, <2>4, <2>6
<1> QED
  BY <1>2, <1>3

\* What identifiers refer to is fit, one for each symbol.
LEMMA GenericFit ==
  ASSUME ProjectOK, NEW sym \in project.symbols
  PROVE  /\ \A r \in GenericReferences(sym) : Fit(r, sym) /\ r.at[2] = 0
         /\ \A a, b \in GenericReferences(sym) : a.id = b.id => a = b
<1> DEFINE clean == StripCommentsAndStrings(project.text[sym.id])
           named == UNION {Lookup(name, sym) : name \in ExtractIdentifiers(clean)}
           ambiguous(s) == Cardinality(Lookup(s.name, sym)) > 1
           line(s) == EvidenceLine(clean, s.name)
           shown(s) == EvidenceConfidence(ToSet(clean[line(s)]), s)
           worth(s) == IF CallShapedUnambiguous(clean, s, ambiguous(s)) THEN 98
                       ELSE Capped(shown(s), GenericCap(sym))
           reference(s) == Reference(s, <<line(s), 0>>, worth(s), ambiguous(s))
<1>1. GenericReferences(sym) = {reference(s) : s \in named}
  BY DEF GenericReferences
<1>2. named \subseteq Others(sym)
  BY LookedUpAreOthers
<1>3. ASSUME NEW s \in named
      PROVE  Fit(reference(s), sym) /\ reference(s).at[2] = 0 /\ reference(s).id = s.id
  <2>1. shown(s) \in 0..100 /\ GenericCap(sym) \in 0..100
    BY DEF EvidenceConfidence, GenericCap
  <2>2. worth(s) \in 0..100
    <3> HIDE DEF shown
    <3> QED BY <2>1 DEF Capped
  <2>3. ambiguous(s) \in BOOLEAN /\ s \in Others(sym)
    BY <1>2
  <2> HIDE DEF worth, ambiguous, line
  <2>4. Fit(reference(s), sym)
    BY <2>2, <2>3, ReferenceFits
  <2>5. reference(s).at = <<line(s), 0>> /\ reference(s).id = s.id
    BY DEF Reference
  <2> QED
    BY <2>4, <2>5
<1>4. \A s, t \in named : s.id = t.id => s = t
  BY <1>2 DEF Others, ProjectOK
<1> HIDE DEF reference, named
<1> QED
  BY <1>1, <1>3, <1>4

\* What a reading of a symbol tells: references to other symbols, each as
\* it is, no two of one target, resolution and confidence.
ScanGood(refs, sym) ==
  /\ \A r \in refs :
       /\ Fit(r, sym)
       /\ r = [id |-> r.id, line |-> r.line, confidence |-> r.confidence, resolution |-> r.resolution]
  /\ \A a, b \in refs : SameKey(a, b) => a = b

\* A reading of a symbol is good.
LEMMA ScanIsGood ==
  ASSUME ProjectOK, NEW sym \in project.symbols
  PROVE  ScanGood(ScanDirectReferences(sym).references, sym)
<1> DEFINE scans == Scans(sym, AstMatches(sym))
           called == UNION {RefsFromMatch(m, m.found) : m \in scans}
           ofTree == IF sym.language = "rust" THEN SortDirectReferences(called) ELSE called
           told == IF sym.language = "rust" THEN {} ELSE {m.target.name : m \in scans}
           generic == {r \in GenericReferences(sym) : r.name \notin told}
           all == ofTree \cup generic
           sorted == SortDirectReferences(all)
           tell(r) == [id |-> r.id, line |-> <<sym.id, r.at[1]>>, confidence |-> r.confidence,
                       resolution |-> r.resolution]
<1>1. ScanDirectReferences(sym).references = {tell(r) : r \in sorted}
  BY DEF ScanDirectReferences, ReferencesOf
<1>2. /\ \A r \in called : Fit(r, sym) /\ r.at \in (Nat \ {0}) \X (Nat \ {0})
      /\ \A a, b \in called : a.id = b.id /\ a.at = b.at => a = b
  BY CalledFit
<1>3. /\ \A r \in generic : Fit(r, sym) /\ r.at[2] = 0
      /\ \A a, b \in generic : a.id = b.id => a = b
  BY GenericFit
<1>4. ofTree \subseteq called
  BY DEF SortDirectReferences
<1>5. \A r \in called : r.at[2] # 0
  BY <1>2
<1> HIDE DEF called, generic, ofTree
<1>6. \A r \in all : Fit(r, sym) /\ FoundAt(r)
  BY <1>2, <1>3, <1>4 DEF FoundAt
<1>7. OneAPlace(all)
  BY <1>2, <1>3, <1>4, <1>5 DEF OneAPlace
<1>8. \A a, b \in sorted : SameKey(a, b) => a = b
  BY <1>6, <1>7, SortedOnce
<1>9. sorted \subseteq all
  BY DEF SortDirectReferences
<1> HIDE DEF sorted, all
<1>10. \A r \in sorted : Fit(tell(r), sym)
  BY <1>6, <1>9 DEF Fit
<1>11. \A a, b \in sorted : SameKey(tell(a), tell(b)) => SameKey(a, b)
  BY DEF SameKey
<1>12. \A r \in sorted : tell(r) = [id |-> tell(r).id, line |-> tell(r).line,
                                   confidence |-> tell(r).confidence, resolution |-> tell(r).resolution]
  OBVIOUS
<1> HIDE DEF tell
<1> QED
  BY <1>1, <1>8, <1>10, <1>11, <1>12 DEF ScanGood

-----------------------------------------------------------------------------
(* The graph.  A bucket keeps of each target what comes first; a call is   *)
(* never ambiguous, so it keeps the calls of greatest confidence, of which *)
(* there is one, and that is the one a fresh reading tells.  What an edge  *)
(* joins it joins both ways, for a bucket loses no target: one that comes  *)
(* first is the greatest in a weight of calls, resolution and confidence.  *)

\* What the graph is built of.
Refs(s) == IF Readable(s) THEN ScanDirectReferences(s).references ELSE {}
\* And what a fresh reading finds.
FreshRefs(s) == IF Opened(s) THEN ScanDirectReferences(s).references ELSE {}

\* And so is what the graph is built of, which of a file that is UTF-8 is
\* what a fresh reading finds and of any other nothing.
LEMMA FoundIsGood ==
  ASSUME ProjectOK, NEW sym \in project.symbols
  PROVE  /\ ScanGood(FreshRefs(sym), sym)
         /\ Refs(sym) = IF Readable(sym) THEN FreshRefs(sym) ELSE {}
<1>1. CASE Opened(sym)
  BY <1>1, ScanIsGood DEF Refs, FreshRefs, Readable
<1>2. CASE ~Opened(sym)
  BY <1>2 DEF Refs, FreshRefs, Readable, ScanGood
<1> QED
  BY <1>1, <1>2
LEMMA RefsAreGood ==
  ASSUME ProjectOK, NEW sym \in project.symbols
  PROVE  ScanGood(Refs(sym), sym)
BY FoundIsGood DEF ScanGood

\* A symbol is found by its id.
LEMMA SymbolFound ==
  ASSUME ProjectOK, NEW s \in project.symbols
  PROVE  SymbolOf(s.id) = s
<1>1. SymbolOf(s.id) \in project.symbols /\ SymbolOf(s.id).id = s.id
  BY DEF SymbolOf
<1> QED
  BY <1>1 DEF ProjectOK

\* The buckets of the graph, before they are put in order.
Outwards(s) == {Edge(r.id, r) : r \in Refs(s)}
Inwards(s) == UNION {{Edge(from.id, r) : r \in {x \in Refs(from) : x.id = s.id}} : from \in project.symbols}

\* The edges of the graph, out of a symbol and into it.
LEMMA BucketsAre ==
  ASSUME ProjectOK, graph = BuildNavigationGraph, NEW s \in project.symbols
  PROVE  /\ graph.outgoing[s.id] = NormaliseEdgeBucket(Outwards(s))
         /\ graph.incoming[s.id] = NormaliseEdgeBucket(Inwards(s))
<1> DEFINE ids == {t.id : t \in project.symbols}
           scanned == Scanned
           out(id) == {Edge(r.id, r) : r \in scanned[id].references}
           in(id) == UNION {{Edge(from, r) : r \in {x \in scanned[from].references : x.id = id}} : from \in ids}
<1>1. DOMAIN scanned = ids
  BY DEF Scanned
<1>2. \A t \in project.symbols : scanned[t.id].references = Refs(t)
  BY SymbolFound DEF Scanned, Refs
<1>3. graph = GraphOf(scanned)
  BY DEF BuildNavigationGraph
<1> HIDE DEF scanned
<1>4. graph.outgoing[s.id] = NormaliseEdgeBucket(out(s.id)) /\ graph.incoming[s.id] = NormaliseEdgeBucket(in(s.id))
  <2>1. s.id \in ids
    OBVIOUS
  <2>2. GraphOf(scanned).outgoing = [id \in DOMAIN scanned |->
          NormaliseEdgeBucket({Edge(r.id, r) : r \in scanned[id].references})]
    BY DEF GraphOf
  <2>3. GraphOf(scanned).incoming = [id \in DOMAIN scanned |-> NormaliseEdgeBucket(
          UNION {{Edge(from, r) : r \in {x \in scanned[from].references : x.id = id}} : from \in DOMAIN scanned})]
    BY DEF GraphOf
  <2> QED
    BY <1>1, <1>3, <2>1, <2>2, <2>3
<1>5. out(s.id) = Outwards(s)
  BY <1>2 DEF Outwards
<1>6. in(s.id) = Inwards(s)
  BY <1>2 DEF Inwards
<1> QED
  BY <1>4, <1>5, <1>6

\* A set of numbers below a bound has a greatest.
LEMMA Greatest ==
  ASSUME NEW D \in SUBSET (0..2000), D # {}
  PROVE  \E k \in D : \A j \in D : j <= k
<1>1. D \in SUBSET Nat /\ \A k \in D : k <= 2000
  OBVIOUS
<1>2. IsFiniteSet(D)
  BY <1>1, 2000 \in Nat, FS_BoundedSetOfNaturals
<1> QED
  BY <1>1, <1>2, GreatestExists

\* Edges as a scan makes them: a call is never ambiguous.
Edgy(e) ==
  /\ e.confidence \in 0..100
  /\ e.resolution \in {Resolved, Ambiguous}
  /\ e.relation \in {"calls", "references"}
  /\ e.relation = "calls" => e.resolution = Resolved

\* An edge of a fit reference is one.
LEMMA EdgeIsEdgy ==
  ASSUME ProjectOK, NEW sym, NEW to, NEW r, Fit(r, sym)
  PROVE  /\ Edgy(Edge(to, r)) /\ Edge(to, r).to = to
         /\ Edge(to, r).relation = ClassifyRelation(SymbolOf(r.id), r.confidence)
         /\ Told(to, Edge(to, r)) =
              [id |-> to, line |-> r.line, confidence |-> r.confidence, resolution |-> r.resolution]
<1>1. ClassifyRelation(SymbolOf(r.id), r.confidence) \in {"calls", "references"}
  BY DEF ClassifyRelation
<1>2. ClassifyRelation(SymbolOf(r.id), r.confidence) = "calls" => r.confidence >= 86
  BY DEF ClassifyRelation, Fit
<1> DEFINE relation == ClassifyRelation(SymbolOf(r.id), r.confidence)
<1>3. Edge(to, r) = [to |-> to, relation |-> relation, confidence |-> r.confidence,
                     resolution |-> r.resolution, line |-> r.line]
  BY DEF Edge
<1> HIDE DEF relation
<1>4. relation \in {"calls", "references"} /\ (relation = "calls" => r.confidence >= 86)
  BY <1>1, <1>2 DEF relation
<1>5. Edgy(Edge(to, r))
  BY <1>3, <1>4 DEF Edgy, Fit
<1>6. Told(to, Edge(to, r)) = [id |-> to, line |-> r.line, confidence |-> r.confidence, resolution |-> r.resolution]
  BY <1>3 DEF Told
<1> QED
  BY <1>3, <1>5, <1>6 DEF relation

\* Of the calls to a target the bucket keeps the ones of most confidence.
LEMMA CallsKept ==
  ASSUME NEW bucket, \A e \in bucket : Edgy(e), NEW e
  PROVE  e \in CallEdges(NormaliseEdgeBucket(bucket)) <=>
           /\ e \in bucket /\ e.relation = "calls"
           /\ \A other \in bucket : other.to = e.to /\ other.relation = "calls" => other.confidence <= e.confidence
<1>1. ASSUME NEW f \in bucket, NEW g \in bucket, g.relation = "calls"
      PROVE  Before(f, g) <=> f.relation = "calls" /\ f.confidence > g.confidence
  <2>1. Edgy(f) /\ Edgy(g)
    OBVIOUS
  <2>2. Resolved # Ambiguous
    BY DEF Resolved, Ambiguous
  <2> QED
    BY <1>1, <2>1, <2>2 DEF Edgy, Before
<1>2. e \in CallEdges(NormaliseEdgeBucket(bucket)) <=>
        /\ e \in bucket /\ e.relation = "calls"
        /\ ~\E other \in bucket : other.to = e.to /\ Before(other, e)
  BY DEF CallEdges, NormaliseEdgeBucket
<1>3. \A f \in bucket : f.confidence \in Int
  BY DEF Edgy
<1> QED
  BY <1>1, <1>2, <1>3

\* What comes first of some calls that no two have one confidence.
LEMMA FirstCallIs ==
  ASSUME NEW id, NEW calls, \A r \in calls : r.confidence \in 0..100,
         \A a, b \in calls : a.confidence = b.confidence => a = b
  PROVE  FirstCall(id, calls) =
           {Told(id, r) : r \in {x \in calls : \A other \in calls : other.confidence <= x.confidence}}
<1>1. CASE calls = {}
  BY <1>1 DEF FirstCall
<1>2. CASE calls # {}
  <2> DEFINE D == {r.confidence : r \in calls}
             Top(r) == \A other \in calls : other.confidence <= r.confidence
             first == CHOOSE r \in calls : Top(r)
  <2>1. D \in SUBSET (0..2000) /\ D # {}
    BY <1>2
  <2>2. \E k \in D : \A j \in D : j <= k
    <3> HIDE DEF D
    <3> QED
      BY ONLY <2>1, Greatest, SMTT(60)
  <2>3. \E r \in calls : Top(r)
    BY <2>2
  <2>4. first \in calls /\ Top(first)
    BY <2>3
  <2>5. \A r \in calls : Top(r) => r = first
    <3> SUFFICES ASSUME NEW r \in calls, Top(r) PROVE r = first
      OBVIOUS
    <3>1. r.confidence \in Int /\ first.confidence \in Int
      BY <2>4
    <3>2. r.confidence = first.confidence
      BY <2>4, <3>1
    <3> QED
      BY <2>4, <3>2
  <2>6. FirstCall(id, calls) = {Told(id, first)}
    BY <1>2 DEF FirstCall
  <2> HIDE DEF first
  <2>7. {x \in calls : \A other \in calls : other.confidence <= x.confidence} = {first}
    BY <2>4, <2>5
  <2> QED
    BY <2>6, <2>7
<1> QED
  BY <1>1, <1>2

\* The callees read off the text, and those an edge of the graph tells.
Calls(s, r) == r \in FreshRefs(s) /\ ClassifyRelation(SymbolOf(r.id), r.confidence) = "calls"

\* The callees a fresh reading tells are the calls.
LEMMA CalleesRead ==
  ASSUME ProjectOK, NEW s \in project.symbols
  PROVE  ScannedCallees(s) = {r \in FreshRefs(s) : Calls(s, r)}
BY DEF ScannedCallees, FreshRefs, Calls

\* A call is told with certainty, once for each confidence.
LEMMA CallIsGood ==
  ASSUME ProjectOK, NEW s \in project.symbols, NEW r, Calls(s, r)
  PROVE  /\ r \in FreshRefs(s) /\ Fit(r, s)
         /\ r.resolution = Resolved /\ r.confidence \in 0..100
         /\ r = [id |-> r.id, line |-> r.line, confidence |-> r.confidence, resolution |-> r.resolution]
         /\ \A x : Calls(s, x) /\ x.id = r.id /\ x.confidence = r.confidence => x = r
<1>1. ScanGood(FreshRefs(s), s)
  BY FoundIsGood
<1>2. ASSUME NEW x, Calls(s, x) PROVE x \in FreshRefs(s) /\ x.resolution = Resolved
  <2>1. x \in FreshRefs(s) /\ Fit(x, s)
    BY <1>1, <1>2 DEF Calls, ScanGood
  <2>2. x.confidence >= 86
    BY <1>2, <2>1 DEF Calls, ClassifyRelation, Fit
  <2> QED
    BY <2>1, <2>2 DEF Fit
<1>3. r \in FreshRefs(s) /\ Fit(r, s) /\ r.confidence \in 0..100
  BY <1>1, <1>2 DEF ScanGood, Fit
<1>4. r = [id |-> r.id, line |-> r.line, confidence |-> r.confidence, resolution |-> r.resolution]
  BY <1>1, <1>3 DEF ScanGood
<1>5. ASSUME NEW x, Calls(s, x), x.id = r.id, x.confidence = r.confidence PROVE x = r
  <2>1. x \in FreshRefs(s) /\ SameKey(x, r)
    BY <1>2, <1>5 DEF SameKey
  <2> QED
    BY <1>1, <1>3, <2>1 DEF ScanGood
<1> QED
  BY <1>2, <1>3, <1>4, <1>5

\* The callees of the graph are the first of those read.
LEMMA ReadableCalleesAgree ==
  ASSUME ProjectOK, graph = BuildNavigationGraph, NEW s \in project.symbols, Readable(s)
  PROVE  GraphCallees(s) = FirstOf({r \in ScannedCallees(s) : Telling(SymbolOf(r.id))})
<1> DEFINE bucket == Outwards(s)
           told == {r \in ScannedCallees(s) : Telling(SymbolOf(r.id))}
<1>0. FreshRefs(s) = Refs(s)
  BY FoundIsGood
<1>1. \A r \in Refs(s) : Fit(r, s)
  BY RefsAreGood DEF ScanGood
<1>2. \A e \in bucket : Edgy(e)
  BY <1>1, EdgeIsEdgy DEF Outwards
<1>3. ASSUME NEW r, Calls(s, r)
      PROVE  Edge(r.id, r) \in CallEdges(NormaliseEdgeBucket(bucket)) <=>
               \A x : Calls(s, x) /\ x.id = r.id => x.confidence <= r.confidence
  <2>1. r \in Refs(s) /\ Fit(r, s)
    BY <1>0, <1>3, CallIsGood
  <2>2. Edge(r.id, r) \in bucket /\ Edge(r.id, r).relation = "calls" /\ Edge(r.id, r).to = r.id
        /\ Edge(r.id, r).confidence = r.confidence
    BY <1>3, <2>1, EdgeIsEdgy DEF Outwards, Calls, Edge
  <2>3. (\A other \in bucket : other.to = r.id /\ other.relation = "calls" => other.confidence <= r.confidence)
        <=> \A x : Calls(s, x) /\ x.id = r.id => x.confidence <= r.confidence
    <3>1. \A x \in Refs(s) : /\ Edge(x.id, x).to = x.id /\ Edge(x.id, x).confidence = x.confidence
                             /\ Edge(x.id, x).relation = "calls" <=> Calls(s, x)
      BY <1>0, <1>1, EdgeIsEdgy DEF Edge, Calls
    <3> QED
      BY <1>0, <3>1 DEF Outwards, Calls
  <2> QED
    BY <1>2, <2>2, <2>3, CallsKept
<1>4. ASSUME NEW e \in CallEdges(NormaliseEdgeBucket(bucket))
      PROVE  \E r : Calls(s, r) /\ e = Edge(r.id, r)
  <2>1. e \in bucket /\ e.relation = "calls"
    BY <1>2, <1>4, CallsKept
  <2>2. PICK r \in Refs(s) : e = Edge(r.id, r)
    BY <2>1 DEF Outwards
  <2> QED
    BY <1>0, <1>1, <2>1, <2>2, EdgeIsEdgy DEF Calls
<1>5. graph.outgoing[s.id] = NormaliseEdgeBucket(bucket)
  BY BucketsAre
<1>6. \A r : Calls(s, r) => Told(r.id, Edge(r.id, r)) = r /\ Edge(r.id, r).to = r.id /\ Indexed(r.id)
  <2> SUFFICES ASSUME NEW r, Calls(s, r)
               PROVE  Told(r.id, Edge(r.id, r)) = r /\ Edge(r.id, r).to = r.id /\ Indexed(r.id)
    OBVIOUS
  <2>1. Fit(r, s) /\ r = [id |-> r.id, line |-> r.line, confidence |-> r.confidence, resolution |-> r.resolution]
    BY CallIsGood
  <2> QED
    BY <2>1, EdgeIsEdgy DEF Fit, Others, Indexed
<1> HIDE DEF bucket
<1>7. ASSUME NEW r
      PROVE  r \in ResolveEdges(CallEdges(NormaliseEdgeBucket(bucket))) <=>
               Calls(s, r) /\ \A x : Calls(s, x) /\ x.id = r.id => x.confidence <= r.confidence
  <2>1. r \in ResolveEdges(CallEdges(NormaliseEdgeBucket(bucket))) <=>
          \E e \in CallEdges(NormaliseEdgeBucket(bucket)) : Indexed(e.to) /\ r = Told(e.to, e)
    BY DEF ResolveEdges
  <2> QED
    BY <1>3, <1>4, <1>6, <2>1
<1>8. \A x, y : Calls(s, x) /\ Calls(s, y) => (~(x.confidence > y.confidence) <=> x.confidence <= y.confidence)
  <2>1. \A x : Calls(s, x) => x.confidence \in Int
    BY CallIsGood
  <2> QED
    BY <2>1
<1>9. ASSUME NEW r PROVE r \in FirstOf(told) <=>
        /\ Calls(s, r) /\ Telling(SymbolOf(r.id))
        /\ \A x : Calls(s, x) /\ x.id = r.id => x.confidence <= r.confidence
  <2>1. \A x : x \in told <=> Calls(s, x) /\ Telling(SymbolOf(x.id))
    BY CalleesRead DEF Calls
  <2>2. r \in FirstOf(told) <=> r \in told /\ ~\E x \in told : x.id = r.id /\ x.confidence > r.confidence
    BY DEF FirstOf
  <2> HIDE DEF told
  <2> QED
    BY <1>8, <2>1, <2>2
<1>10. \A r : r \in GraphCallees(s) <=>
                r \in ResolveEdges(CallEdges(NormaliseEdgeBucket(bucket))) /\ Telling(SymbolOf(r.id))
  BY <1>5 DEF GraphCallees
<1> QED
  BY <1>7, <1>9, <1>10

LEMMA CalleesAgree ==
  ASSUME ProjectOK, graph = BuildNavigationGraph, NEW s \in project.symbols
  PROVE  GraphCallees(s) = {r \in FirstOf({x \in ScannedCallees(s) : Telling(SymbolOf(x.id))}) : Readable(s)}
<1>1. CASE Readable(s)
  BY <1>1, ReadableCalleesAgree
<1>2. CASE ~Readable(s)
  <2>1. Refs(s) = {}
    BY <1>2, FoundIsGood
  <2>2. Outwards(s) = {}
    BY <2>1 DEF Outwards
  <2>3. graph.outgoing[s.id] = {}
    BY <2>2, BucketsAre DEF NormaliseEdgeBucket
  <2> QED
    BY <1>2, <2>3 DEF GraphCallees, ResolveEdges, CallEdges
<1> QED
  BY <1>1, <1>2

\* The callers of the graph are those read.
LEMMA CallersAgree ==
  ASSUME ProjectOK, graph = BuildNavigationGraph, NEW s \in project.symbols
  PROVE  GraphCallers(s) = {r \in ScannedCallers(s) : Readable(SymbolOf(r.id))}
<1> DEFINE bucket == Inwards(s)
           CallsIt(c, r) == Calls(c, r) /\ r.id = s.id
           Top(c, r) == CallsIt(c, r) /\ \A x : CallsIt(c, x) => x.confidence <= r.confidence
<1>0. \A c \in project.symbols : Refs(c) = IF Readable(c) THEN FreshRefs(c) ELSE {}
  BY FoundIsGood
<1>1. \A c \in project.symbols : \A r \in FreshRefs(c) : Fit(r, c)
  BY FoundIsGood DEF ScanGood
<1>2. \A c \in project.symbols : \A r \in FreshRefs(c) :
        /\ Edgy(Edge(c.id, r)) /\ Edge(c.id, r).to = c.id /\ Edge(c.id, r).confidence = r.confidence
        /\ Edge(c.id, r).relation = "calls" <=> Calls(c, r)
        /\ Told(c.id, Edge(c.id, r)) = Told(c.id, r)
  BY <1>1, EdgeIsEdgy DEF Calls, Edge, Told
<1>3. \A e : e \in bucket <=> \E c \in project.symbols : \E r \in Refs(c) : r.id = s.id /\ e = Edge(c.id, r)
  BY DEF Inwards
<1>4. \A e \in bucket : Edgy(e)
  BY <1>0, <1>2, <1>3
<1> HIDE DEF bucket
<1>5. \A c, d \in project.symbols : c.id = d.id => c = d
  BY DEF ProjectOK
<1>6. ASSUME NEW c \in project.symbols, Readable(c), NEW r, CallsIt(c, r)
      PROVE  Edge(c.id, r) \in CallEdges(NormaliseEdgeBucket(bucket)) <=> Top(c, r)
  <2>0. Refs(c) = FreshRefs(c)
    BY <1>0, <1>6
  <2>1. r \in FreshRefs(c)
    BY <1>6 DEF Calls
  <2>2. Edge(c.id, r) \in bucket /\ Edge(c.id, r).relation = "calls"
    BY <1>2, <1>3, <1>6, <2>0, <2>1
  <2>3. ASSUME NEW x, CallsIt(c, x)
        PROVE  Edge(c.id, x) \in bucket /\ Edge(c.id, x).relation = "calls" /\ Edge(c.id, x).to = c.id
               /\ Edge(c.id, x).confidence = x.confidence
    <3>1. x \in FreshRefs(c)
      BY <2>3 DEF Calls
    <3> QED
      BY <1>2, <1>3, <2>0, <2>3, <3>1
  <2>4. ASSUME NEW other \in bucket, other.to = c.id, other.relation = "calls"
        PROVE  \E x : CallsIt(c, x) /\ other.confidence = x.confidence
    <3>1. PICK d \in project.symbols : \E x \in Refs(d) : x.id = s.id /\ other = Edge(d.id, x)
      BY <1>3
    <3>2. PICK x \in Refs(d) : x.id = s.id /\ other = Edge(d.id, x)
      BY <3>1
    <3>3. x \in FreshRefs(d)
      BY <1>0, <3>2
    <3>4. d = c
      BY <1>2, <1>5, <2>4, <3>2, <3>3
    <3> QED
      BY <1>2, <2>4, <3>2, <3>3, <3>4
  <2>5. (\A other \in bucket : other.to = c.id /\ other.relation = "calls" => other.confidence <= r.confidence)
        <=> \A x : CallsIt(c, x) => x.confidence <= r.confidence
    BY <2>3, <2>4
  <2>6. Edge(c.id, r).to = c.id /\ Edge(c.id, r).confidence = r.confidence
    BY <1>2, <2>1
  <2> QED
    BY <1>4, <1>6, <2>2, <2>5, <2>6, CallsKept
<1>7. ASSUME NEW x
      PROVE  x \in GraphCallers(s) <=>
               \E c \in project.symbols : Readable(c) /\ Telling(c) /\ \E r : Top(c, r) /\ x = Told(c.id, r)
  <2>1. x \in GraphCallers(s) <=>
          \E e \in CallEdges(NormaliseEdgeBucket(bucket)) :
            Indexed(e.to) /\ x = Told(e.to, e) /\ Telling(SymbolOf(x.id))
    <3>1. graph.incoming[s.id] = NormaliseEdgeBucket(bucket)
      BY BucketsAre DEF bucket
    <3> QED
      BY <3>1 DEF GraphCallers, ResolveEdges
  <2>2. ASSUME NEW e \in CallEdges(NormaliseEdgeBucket(bucket))
        PROVE  \E c \in project.symbols : Readable(c) /\ \E r : Top(c, r) /\ e = Edge(c.id, r)
    <3>1. e \in bucket /\ e.relation = "calls"
      BY <1>4, <2>2, CallsKept
    <3>2. PICK c \in project.symbols : \E r \in Refs(c) : r.id = s.id /\ e = Edge(c.id, r)
      BY <1>3, <3>1
    <3>3. PICK r \in Refs(c) : r.id = s.id /\ e = Edge(c.id, r)
      BY <3>2
    <3>4. Readable(c) /\ r \in FreshRefs(c)
      BY <1>0, <3>3
    <3>5. CallsIt(c, r)
      BY <1>2, <3>1, <3>3, <3>4
    <3>6. Top(c, r)
      BY <1>6, <2>2, <3>3, <3>4, <3>5
    <3> QED
      BY <3>3, <3>4, <3>6
  <2>3. ASSUME NEW c \in project.symbols, Readable(c), NEW r, Top(c, r)
        PROVE  /\ Edge(c.id, r) \in CallEdges(NormaliseEdgeBucket(bucket))
               /\ Edge(c.id, r).to = c.id /\ Indexed(c.id) /\ SymbolOf(c.id) = c
               /\ Told(c.id, Edge(c.id, r)) = Told(c.id, r) /\ Told(c.id, r).id = c.id
    <3>1. r \in FreshRefs(c) /\ CallsIt(c, r)
      BY <2>3 DEF Calls
    <3>2. Edge(c.id, r) \in CallEdges(NormaliseEdgeBucket(bucket))
      BY <1>6, <2>3, <3>1
    <3>3. Edge(c.id, r).to = c.id /\ Told(c.id, Edge(c.id, r)) = Told(c.id, r)
      BY <1>2, <3>1
    <3>4. Indexed(c.id) /\ SymbolOf(c.id) = c /\ Told(c.id, r).id = c.id
      BY SymbolFound DEF Indexed, Told
    <3> QED
      BY <3>2, <3>3, <3>4
  <2> HIDE DEF Top
  <2> QED
    BY <2>1, <2>2, <2>3
<1>8. ASSUME NEW c \in project.symbols
      PROVE  FirstCall(c.id, {r \in ScannedCallees(c) : r.id = s.id}) =
               {Told(c.id, r) : r \in {x \in FreshRefs(c) : Top(c, x)}}
  <2> DEFINE calls == {r \in ScannedCallees(c) : r.id = s.id}
  <2>1. \A r : r \in calls <=> CallsIt(c, r)
    BY CalleesRead DEF Calls
  <2>2. \A r \in calls : r.confidence \in 0..100
    BY <2>1, CallIsGood
  <2>3. \A a, b \in calls : a.confidence = b.confidence => a = b
    <3> SUFFICES ASSUME NEW a \in calls, NEW b \in calls, a.confidence = b.confidence PROVE a = b
      OBVIOUS
    <3>1. Calls(c, a) /\ Calls(c, b) /\ a.id = b.id
      BY <2>1
    <3> QED
      BY <3>1, CallIsGood
  <2> HIDE DEF calls
  <2>4. FirstCall(c.id, calls) =
          {Told(c.id, r) : r \in {x \in calls : \A other \in calls : other.confidence <= x.confidence}}
    BY <2>2, <2>3, FirstCallIs
  <2>5. \A r : CallsIt(c, r) => r \in FreshRefs(c)
    BY DEF Calls
  <2>6. {x \in calls : \A other \in calls : other.confidence <= x.confidence} = {x \in FreshRefs(c) : Top(c, x)}
    BY <2>1, <2>5
  <2> QED
    BY <2>4, <2>6 DEF calls
<1>9. \A c \in project.symbols : \A r : Top(c, r) => c.id # s.id /\ r \in FreshRefs(c)
  <2> SUFFICES ASSUME NEW c \in project.symbols, NEW r, Top(c, r) PROVE c.id # s.id /\ r \in FreshRefs(c)
    OBVIOUS
  <2>1. r \in FreshRefs(c) /\ r.id = s.id
    BY DEF Calls
  <2> QED
    BY <1>1, <2>1 DEF Fit, Others
<1>10. ASSUME NEW x
       PROVE  x \in ScannedCallers(s) <=>
                \E c \in project.symbols : Telling(c) /\ \E r : Top(c, r) /\ x = Told(c.id, r)
  <2>1. x \in ScannedCallers(s) <=>
          \E c \in project.symbols : c.id # s.id /\ Telling(c)
                                     /\ x \in FirstCall(c.id, {r \in ScannedCallees(c) : r.id = s.id})
    BY DEF ScannedCallers
  <2> HIDE DEF Top
  <2>2. ASSUME NEW c \in project.symbols
        PROVE  x \in FirstCall(c.id, {r \in ScannedCallees(c) : r.id = s.id})
                 <=> \E r \in FreshRefs(c) : Top(c, r) /\ x = Told(c.id, r)
    <3>1. FirstCall(c.id, {r \in ScannedCallees(c) : r.id = s.id}) = {Told(c.id, r) : r \in {y \in FreshRefs(c) : Top(c, y)}}
      BY <1>8
    <3> QED
      BY ONLY <3>1
  <2>3. ASSUME NEW c \in project.symbols
        PROVE  /\ c.id # s.id /\ x \in FirstCall(c.id, {r \in ScannedCallees(c) : r.id = s.id})
               <=> \E r : Top(c, r) /\ x = Told(c.id, r)
    BY ONLY <1>9, <2>2, c \in project.symbols
  <2> QED
    BY ONLY <2>1, <2>3
<1> HIDE DEF Top
<1>11. ASSUME NEW x, x \in GraphCallers(s) PROVE x \in ScannedCallers(s) /\ Readable(SymbolOf(x.id))
  <2>1. PICK c \in project.symbols : Readable(c) /\ Telling(c) /\ \E r : Top(c, r) /\ x = Told(c.id, r)
    BY <1>7, <1>11
  <2>2. x.id = c.id
    BY <2>1 DEF Told
  <2>3. SymbolOf(x.id) = c
    BY <2>2, SymbolFound
  <2> QED
    BY <1>10, <2>1, <2>3
<1>12. ASSUME NEW x \in ScannedCallers(s), Readable(SymbolOf(x.id)) PROVE x \in GraphCallers(s)
  <2>1. PICK c \in project.symbols : Telling(c) /\ \E r : Top(c, r) /\ x = Told(c.id, r)
    BY <1>10, <1>12
  <2>2. x.id = c.id
    BY <2>1 DEF Told
  <2>3. SymbolOf(x.id) = c
    BY <2>2, SymbolFound
  <2> QED
    BY <1>7, <1>12, <2>1, <2>3
<1> QED
  BY <1>11, <1>12

\* So a graph built of its index agrees with it.
LEMMA Agreed ==
  ASSUME ProjectOK, graph # Unbuilt => graph = BuildNavigationGraph
  PROVE  GraphAgrees
BY CallersAgree, CalleesAgree DEF GraphAgrees

\* Of two sums that share a part.
LEMMA OutweighsBy ==
  ASSUME NEW k \in Int, NEW a \in 0..100, NEW b \in 0..100, a > b
  PROVE  k + a > k + b
OBVIOUS

\* Putting a bucket in order loses no target.
LEMMA TargetsKept ==
  ASSUME NEW bucket, \A e \in bucket : Edgy(e), NEW e \in bucket
  PROVE  \E f \in NormaliseEdgeBucket(bucket) : f.to = e.to
<1> DEFINE Weight(f) == (IF f.relation = "calls" THEN 1000 ELSE 0) + (IF f.resolution = Resolved THEN 500 ELSE 0)
                        + f.confidence
           same == {f \in bucket : f.to = e.to}
           D == {Weight(f) : f \in same}
<1>1. \A f \in bucket : Weight(f) \in 0..2000
  <2> TAKE f \in bucket
  <2> DEFINE calling == IF f.relation = "calls" THEN 1000 ELSE 0
             resolved == IF f.resolution = Resolved THEN 500 ELSE 0
  <2>1. calling \in {0, 1000} /\ resolved \in {0, 500} /\ Weight(f) = calling + resolved + f.confidence
    OBVIOUS
  <2>2. f.confidence \in 0..100
    BY DEF Edgy
  <2> HIDE DEF calling, resolved, Weight
  <2> QED
    BY ONLY <2>1, <2>2
<1>2. \A f, g \in bucket : Before(f, g) => Weight(f) > Weight(g)
  <2> SUFFICES ASSUME NEW f \in bucket, NEW g \in bucket, Before(f, g) PROVE Weight(f) > Weight(g)
    OBVIOUS
  <2>1. Edgy(f) /\ Edgy(g) /\ Resolved # Ambiguous
    BY DEF Resolved, Ambiguous
  <2>2. f.confidence \in 0..100 /\ g.confidence \in 0..100
    BY <2>1 DEF Edgy
  <2>3. CASE f.relation = "calls" /\ g.relation = "references"
    <3>1. Weight(f) >= 1000 /\ Weight(f) \in Int /\ Weight(g) \in 0..600
      BY <2>2, <2>3
    <3> HIDE DEF Weight
    <3> QED
      BY <3>1
  <2>4. CASE f.relation = g.relation /\ f.resolution = Resolved /\ g.resolution = Ambiguous
    <3>1. CASE f.relation = "calls"
      <4>1. Weight(f) \in 1500..1600 /\ Weight(g) \in 1000..1100
        BY <2>1, <2>2, <2>4, <3>1
      <4> HIDE DEF Weight
      <4> QED
        BY <4>1
    <3>2. CASE f.relation # "calls"
      <4>1. Weight(f) \in 500..600 /\ Weight(g) \in 0..100
        BY <2>1, <2>2, <2>4, <3>2
      <4> HIDE DEF Weight
      <4> QED
        BY <4>1
    <3> QED
      BY <3>1, <3>2
  <2>5. CASE f.relation = g.relation /\ f.resolution = g.resolution /\ f.confidence > g.confidence
    <3> DEFINE base == (IF f.relation = "calls" THEN 1000 ELSE 0) + (IF f.resolution = Resolved THEN 500 ELSE 0)
    <3>1. base \in Int
      OBVIOUS
    <3>2. Weight(f) = base + f.confidence /\ Weight(g) = base + g.confidence
      BY <2>5
    <3> HIDE DEF Weight, base
    <3>3. base + f.confidence > base + g.confidence
      BY <2>2, <2>5, <3>1, OutweighsBy
    <3> QED
      BY <3>2, <3>3
  <2> QED
    BY <2>3, <2>4, <2>5 DEF Before
<1> HIDE DEF Weight
<1>3. D \in SUBSET (0..2000) /\ D # {}
  BY <1>1
<1>4. \E k \in D : \A j \in D : j <= k
  <2> HIDE DEF D
  <2> QED
    BY <1>3, Greatest, SMTT(60)
<1>5. PICK f \in same : \A g \in same : Weight(g) <= Weight(f)
  BY <1>4
<1>6. \A g \in same : ~Before(g, f)
  <2> SUFFICES ASSUME NEW g \in same, Before(g, f) PROVE FALSE
    OBVIOUS
  <2>1. Weight(g) > Weight(f) /\ Weight(g) <= Weight(f) /\ Weight(g) \in 0..2000 /\ Weight(f) \in 0..2000
    BY <1>1, <1>2, <1>5
  <2> DEFINE wf == Weight(f)
             wg == Weight(g)
  <2>2. wg > wf /\ wg <= wf /\ wg \in 0..2000 /\ wf \in 0..2000
    BY <2>1
  <2> HIDE DEF wf, wg
  <2> QED
    BY <2>2
<1> QED
  BY <1>5, <1>6 DEF NormaliseEdgeBucket

\* An edge out of one symbol is an edge into the other.
LEMMA BothWays ==
  ASSUME ProjectOK, graph = BuildNavigationGraph, NEW s \in project.symbols, NEW t \in project.symbols
  PROVE  (\E e \in graph.outgoing[s.id] : e.to = t.id) <=> (\E e \in graph.incoming[t.id] : e.to = s.id)
<1>1. \A c \in project.symbols : \A r \in Refs(c) : Fit(r, c)
  BY RefsAreGood DEF ScanGood
<1>2. \A c \in project.symbols : \A r \in Refs(c) : \A to : Edgy(Edge(to, r)) /\ Edge(to, r).to = to
  BY <1>1, EdgeIsEdgy
<1>3. (\E e \in NormaliseEdgeBucket(Outwards(s)) : e.to = t.id) <=> \E r \in Refs(s) : r.id = t.id
  <2>1. \A e \in Outwards(s) : Edgy(e)
    BY <1>2 DEF Outwards
  <2>2. (\E e \in Outwards(s) : e.to = t.id) <=> \E r \in Refs(s) : r.id = t.id
    BY <1>2 DEF Outwards
  <2> QED
    BY <2>1, <2>2, TargetsKept DEF NormaliseEdgeBucket
<1>4. (\E e \in NormaliseEdgeBucket(Inwards(t)) : e.to = s.id) <=> \E r \in Refs(s) : r.id = t.id
  <2>1. \A e \in Inwards(t) : Edgy(e)
    BY <1>2 DEF Inwards
  <2>2. \A c \in project.symbols : c.id = s.id => c = s
    BY DEF ProjectOK
  <2>3. (\E e \in Inwards(t) : e.to = s.id) <=> \E r \in Refs(s) : r.id = t.id
    <3>1. ASSUME NEW e \in Inwards(t), e.to = s.id
          PROVE  \E r \in Refs(s) : r.id = t.id
      <4>1. PICK c \in project.symbols : \E r \in Refs(c) : r.id = t.id /\ e = Edge(c.id, r)
        BY <3>1 DEF Inwards
      <4>2. PICK r \in Refs(c) : r.id = t.id /\ e = Edge(c.id, r)
        BY <4>1
      <4>3. e.to = c.id
        BY <1>2, <4>2
      <4>4. c = s
        BY <2>2, <3>1, <4>3
      <4> QED
        BY <4>2, <4>4
    <3>2. ASSUME NEW r \in Refs(s), r.id = t.id
          PROVE  \E e \in Inwards(t) : e.to = s.id
      <4>1. Edge(s.id, r) \in Inwards(t)
        BY <3>2 DEF Inwards
      <4>2. Edge(s.id, r).to = s.id
        BY <1>2
      <4> QED
        BY <4>1, <4>2
    <3> QED
      BY <3>1, <3>2
  <2> QED
    BY <2>1, <2>3, TargetsKept DEF NormaliseEdgeBucket
<1> QED
  BY <1>3, <1>4, BucketsAre

\* Edges lead to symbols of the index.
LEMMA EdgesJoinSymbols ==
  ASSUME ProjectOK, graph = BuildNavigationGraph, NEW s \in project.symbols
  PROVE  \A e \in graph.outgoing[s.id] \cup graph.incoming[s.id] : Indexed(e.to)
<1>1. \A c \in project.symbols : \A r \in Refs(c) : Indexed(r.id) /\ Indexed(c.id)
  BY RefsAreGood DEF ScanGood, Fit, Others, Indexed
<1>2. \A to, r : Edge(to, r).to = to
  BY DEF Edge
<1>3. \A e \in Outwards(s) \cup Inwards(s) : Indexed(e.to)
  BY <1>1, <1>2 DEF Outwards, Inwards
<1> QED
  BY <1>3, BucketsAre DEF NormaliseEdgeBucket

-----------------------------------------------------------------------------
(* A graph of an index that has not changed is built the same: operator by *)
(* operator, down to the texts that are read.                              *)

\* Names, imports and bindings.
LEMMA SameLookup ==
  ASSUME UNCHANGED project
  PROVE  /\ \A sym : AstMatches(sym)' = AstMatches(sym)
         /\ \A name, sym : Lookup(name, sym)' = Lookup(name, sym)
         /\ \A sym, local : /\ NamedImports(sym, local)' = NamedImports(sym, local)
                            /\ Namespaces(sym, local)' = Namespaces(sym, local)
         /\ \A sym, receiver : ReceiverType(sym, receiver)' = ReceiverType(sym, receiver)
         /\ \A sym : Shadowed(sym)' = Shadowed(sym)
<1>1. \A sym : AstMatches(sym)' = AstMatches(sym)
  BY DEF AstMatches
<1>2. \A name, sym : Lookup(name, sym)' = Lookup(name, sym)
  BY DEF Lookup
<1>3. \A sym : ImportsOf(sym)' = ImportsOf(sym)
  <2>1. \A sym : StatementsFor(sym)' = StatementsFor(sym)
    BY DEF StatementsFor
  <2> QED
    BY <2>1 DEF ImportsOf
<1>4. \A sym, local : /\ NamedImports(sym, local)' = NamedImports(sym, local)
                      /\ Namespaces(sym, local)' = Namespaces(sym, local)
  BY <1>3 DEF NamedImports, Namespaces
<1>5. \A sym : CollectLocalBindings(sym)' = CollectLocalBindings(sym)
  BY DEF CollectLocalBindings
<1>6. \A sym, receiver : ReceiverType(sym, receiver)' = ReceiverType(sym, receiver)
  BY <1>5 DEF ReceiverType
<1>7. \A sym : Shadowed(sym)' = Shadowed(sym)
  BY <1>5 DEF Shadowed
<1> QED
  BY <1>1, <1>2, <1>4, <1>6, <1>7

\* What a receiver stands for.
LEMMA SameOwner ==
  ASSUME UNCHANGED project
  PROVE  \A caller, receiver : ReceiverOwner(caller, receiver)' = ReceiverOwner(caller, receiver)
<1>1. \A caller, binding : ImportedOwner(caller, binding)' = ImportedOwner(caller, binding)
  BY DEF ImportedOwner
<1>2. \A caller, name : VisibleClass(caller, name)' = VisibleClass(caller, name)
  BY SameLookup DEF VisibleClass
<1> QED
  BY <1>1, <1>2, SameLookup DEF ReceiverOwner

\* What a call resolves to.
LEMMA SameResolution ==
  ASSUME UNCHANGED project
  PROVE  \A caller, target : ResolveMatch(caller, target)' = ResolveMatch(caller, target)
<1>1. \A caller, binding : BindingCandidates(caller, binding)' = BindingCandidates(caller, binding)
  BY SameLookup DEF BindingCandidates
<1>2. ASSUME NEW caller, NEW name, NEW receiver
      PROVE  ResolveMember(caller, name, receiver)' = ResolveMember(caller, name, receiver)
  <2> DEFINE methods(o) == {s \in Lookup(name, caller) : s.qualified = Append(o.qualified, s.name)}
             one(o) == IF o.module = << >> THEN methods(o) ELSE InModule(methods(o), caller, o.module[1])
             owners == ReceiverOwner(caller, receiver)
             found == UNION {one(o) : o \in owners}
  <2>1. \A o : methods(o)' = methods(o)
    BY SameLookup
  <2> HIDE DEF methods
  <2>2. \A o : one(o)' = one(o)
    BY <2>1
  <2>3. owners' = owners
    BY SameOwner
  <2> HIDE DEF one, owners
  <2>4. found' = found
    BY <2>2, <2>3
  <2> HIDE DEF found
  <2>5. ResolveMember(caller, name, receiver) =
          IF Namespaces(caller, receiver) # << >>
          THEN Visible(InModule(Lookup(name, caller), caller, Head(Namespaces(caller, receiver)).module))
          ELSE IF owners = {} THEN Unresolved("dynamic_receiver") ELSE Visible(found)
    BY DEF ResolveMember, found, one, owners, methods
  <2>6. ResolveMember(caller, name, receiver)' =
          IF Namespaces(caller, receiver)' # << >>
          THEN Visible(InModule(Lookup(name, caller)', caller, Head(Namespaces(caller, receiver)').module))
          ELSE IF owners' = {} THEN Unresolved("dynamic_receiver") ELSE Visible(found')
    BY DEF ResolveMember, found, one, owners, methods
  <2> QED
    BY <2>3, <2>4, <2>5, <2>6, SameLookup
<1>3. ASSUME NEW caller, NEW name PROVE ResolveName(caller, name)' = ResolveName(caller, name)
  <2> DEFINE near == {s \in Lookup(name, caller) : s.file = caller.file}
  <2>1. near' = near
    BY SameLookup
  <2> QED
    BY <1>1, <2>1, SameLookup DEF ResolveName
<1> QED
  BY <1>2, <1>3, SameLookup DEF ResolveMatch

\* What a symbol refers to.
LEMMA SameScan ==
  ASSUME UNCHANGED project
  PROVE  \A sym : ScanDirectReferences(sym)' = ScanDirectReferences(sym)
<1>1. ASSUME NEW sym PROVE GenericReferences(sym)' = GenericReferences(sym)
  <2> DEFINE clean == StripCommentsAndStrings(project.text[sym.id])
             named == UNION {Lookup(name, sym) : name \in ExtractIdentifiers(clean)}
             many(s) == Cardinality(Lookup(s.name, sym)) > 1
  <2>1. clean' = clean
    OBVIOUS
  <2> HIDE DEF clean
  <2>2. named' = named
    BY <2>1, SameLookup
  <2>3. \A s : many(s)' = many(s)
    BY SameLookup
  <2> QED
    BY <2>1, <2>2, <2>3 DEF GenericReferences, clean
<1>2. \A sym, matches : Scans(sym, matches)' = Scans(sym, matches)
  BY SameResolution DEF Scans
<1>3. \A sym, scans : ReferencesOf(sym, scans)' = ReferencesOf(sym, scans)
  BY <1>1 DEF ReferencesOf
<1> QED
  BY <1>2, <1>3, SameLookup DEF ScanDirectReferences

\* And the graph.
LEMMA SameGraph ==
  ASSUME UNCHANGED project
  PROVE  BuildNavigationGraph' = BuildNavigationGraph
<1>1. \A id : SymbolOf(id)' = SymbolOf(id)
  BY DEF SymbolOf
<1>2. \A s : Readable(s)' = Readable(s)
  BY DEF Readable, Opened
<1>3. Scanned' = Scanned
  BY <1>1, <1>2, SameScan DEF Scanned
<1>4. \A to, ref : Edge(to, ref)' = Edge(to, ref)
  BY <1>1 DEF Edge
<1>5. ASSUME NEW scanned PROVE GraphOf(scanned)' = GraphOf(scanned)
  <2> DEFINE ids == DOMAIN scanned
             out(id) == {Edge(r.id, r) : r \in scanned[id].references}
             into(id) == UNION {{Edge(from, r) : r \in {x \in scanned[from].references : x.id = id}} : from \in ids}
  <2>1. \A id : out(id)' = out(id)
    BY <1>4
  <2>2. \A id : into(id)' = into(id)
    BY <1>4
  <2> HIDE DEF out, into
  <2>3. GraphOf(scanned) = [outgoing |-> [id \in ids |-> NormaliseEdgeBucket(out(id))],
                            incoming |-> [id \in ids |-> NormaliseEdgeBucket(into(id))],
                            unresolved |-> [id \in ids |-> scanned[id].unresolved]]
    BY DEF GraphOf, out, into
  <2>4. GraphOf(scanned)' = [outgoing |-> [id \in ids |-> NormaliseEdgeBucket(out(id)')],
                            incoming |-> [id \in ids |-> NormaliseEdgeBucket(into(id)')],
                            unresolved |-> [id \in ids |-> scanned[id].unresolved]]
    BY DEF GraphOf, out, into
  <2> QED
    BY <2>1, <2>2, <2>3, <2>4
<1> QED
  BY <1>3, <1>5 DEF BuildNavigationGraph
==============================================================================
