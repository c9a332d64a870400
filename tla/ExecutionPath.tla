---------------------------- MODULE ExecutionPath ----------------------------
(***************************************************************************)
(* trace_execution_path.rs: from the symbols a search found, the callers   *)
(* of each and its callees, cheapest first, to a depth; then the symbols   *)
(* that matter, and the cheapest chain of calls between two of them.       *)
(***************************************************************************)
EXTENDS NavigationGraph, FiniteSetsExt

CONSTANTS Projects,         (* what there is to index                      *)
          Requests,         (* what is asked, with what the searches found *)
          RoleBonus(_, _)   (* RoleBonus(file, text): what the role of a   *)
                            (* file is worth to a text                     *)
ASSUME RequestsAssumption == \A r \in Requests : r.maxDepth \in Nat
(* A symbol has an id of its own, a text is lines and their calls.         *)
ASSUME ProjectsAssumption ==
  \A p \in Projects :
    /\ IsFiniteSet(p.symbols) /\ \A s, t \in p.symbols : s.id = t.id => s = t
    /\ \A s \in p.symbols : \A i \in DOMAIN p.text[s.id] :
         i \in Nat \ {0} /\ \A j \in DOMAIN p.text[s.id][i].calls : j \in Nat \ {0}

VARIABLES request, phase, pending, frontier, best, parent, nodes, edges, answer
vars == <<project, graph, request, phase, pending, frontier, best, parent, nodes, edges, answer>>

(* Each query seeds from its semantic results, else those of BM25, else    *)
(* those of the first term of it that has any.                             *)
SeedsOf(search) ==
  LET terms == SelectSeq(search.terms, LAMBDA found : found # {})
  IN CASE search.semantic # {} -> search.semantic
       [] search.bm25 # {} -> search.bm25
       [] terms # << >> -> Head(terms)
       [] OTHER -> {}
DiscoverSeedIds == UNION {SeedsOf(request.searches[i]) : i \in DOMAIN request.searches}
Depth == IF request.maxDepth < 3 THEN request.maxDepth ELSE 3
MaxSymbols == IF request.maxSymbols < 1 THEN 1 ELSE request.maxSymbols

-----------------------------------------------------------------------------
Worth(held, value) == IF held THEN value ELSE 0
InFile(s, fragment) == Holds(s.file, fragment)
InName(s, fragment) == Holds(s.name, fragment)
Qualified(s, fragment) == \E i \in DOMAIN s.qualified : Holds(s.qualified[i], fragment)
AnyFile(s, fragments) == \E f \in fragments : InFile(s, f)
AnyName(s, fragments) == \E f \in fragments : InName(s, f)
IsEntrySymbol(s) == InFile(s, "/main.") \/ s.name \in {"main", "run", "search", "search_parallel"}
IsNoiseSymbol(s) ==
  AnyFile(s, {"/tests/", "_test.rs", "tests.rs", "/examples/", "/benches/", "flags/defs", "/docs/", "generated"})
Skipped(s) == IsNoiseSymbol(s) /\ ~IsEntrySymbol(s)
ClassifySymbol(s) ==
  CASE IsEntrySymbol(s) -> "entry"
    [] \/ AnyFile(s, {"/ignore/", "haystack"}) \/ AnyName(s, {"walk", "haystack", "scan"})
       \/ Qualified(s, "walk") -> "scanning"
    [] \/ AnyFile(s, {"/printer/", "sink"}) \/ AnyName(s, {"print", "json", "summary", "sink"})
       \/ Qualified(s, "printer") -> "output"
    [] \/ AnyFile(s, {"/regex/", "/matcher/", "/searcher/"})
       \/ AnyName(s, {"regex", "match", "searcher"}) -> "matching"
    [] OTHER -> "orchestration"
AdjustedScore(s, base, text) ==
  base - Worth(IsNoiseSymbol(s), 40)
       + Worth(AnyFile(s, {"/main.", "/search.", "/searcher/", "/printer/", "/regex/", "/matcher/",
                           "/ignore/", "haystack"}), 8)
       + RoleBonus(s.file, text)

(* What is known of a symbol: its best score, least distance and cost, and *)
(* how often it was seen, each sighting an edge that led to it.            *)
TraceNode(score, distance, hits, cost, priority) ==
  [score |-> score, distance |-> distance, hits |-> hits, cost |-> cost, priority |-> priority]
Sighting(score, distance, confidence, cost, priority) ==
  [score |-> score, distance |-> distance, cost |-> cost, priority |-> priority,
   full |-> score + confidence \div 10 + priority \div 5 - cost \div 12]
SeenFirst(seen) == TraceNode(seen.full, seen.distance, 1, seen.cost, seen.priority)
SeenAgain(node, seen) ==
  TraceNode(Max({node.score, seen.score, seen.full}), Min({node.distance, seen.distance}),
            node.hits + 1, Min({node.cost, seen.cost}), Max({node.priority, seen.priority}))

Listed(set) == FoldSet(LAMBDA x, seq : Append(seq, x), << >>, set)
InOrder(refs) == SortSeq(Listed(refs), LAMBDA a, b : a.confidence > b.confidence)
NodeAfter(known, id, sightings) ==
  LET told == InOrder({r \in DOMAIN sightings : r.id = id})
      old == id \in DOMAIN known
  IN FoldLeft(LAMBDA node, ref : SeenAgain(node, sightings[ref]),
              IF old THEN known[id] ELSE SeenFirst(sightings[Head(told)]),
              IF old THEN told ELSE Tail(told))
UpsertNodes(known, sightings) ==
  [id \in DOMAIN known \cup {r.id : r \in DOMAIN sightings} |-> NodeAfter(known, id, sightings)]

TraceEdge(from, to, ref) ==
  [from |-> from, to |-> to, cost |-> EdgeCost(ref), priority |-> EdgePriority(ref)]
PushEdges(known, new) ==
  known \cup {e \in new : ~\E old \in known : old.from = e.from /\ old.to = e.to}

-----------------------------------------------------------------------------
(* A state of a search is what the cheapest way to a symbol costs, its     *)
(* hops and its priority.  Of the ways one step leads to, those count that *)
(* better what is known; a way that another of them to the same symbol     *)
(* supersedes would be dropped when its turn came.                         *)
Way(id, cost, hops, priority) == [id |-> id, cost |-> cost, hops |-> hops, priority |-> priority]
Further(way, to, cost, priority) == Way(to, way.cost + cost, way.hops + 1, way.priority + priority)
BetterPath(a, b) ==
  \/ a.cost < b.cost
  \/ a.cost = b.cost /\ a.hops < b.hops
  \/ a.cost = b.cost /\ a.hops = b.hops /\ a.priority > b.priority
Nearest(ways) == {w \in ways : ~\E other \in ways : BetterPath(other, w)}
FaultImproves(known, way) == way.id \notin DOMAIN known
Improves(known, way) == way.id \notin DOMAIN known \/ BetterPath(way, known[way.id])
Improving(known, ways) ==
  {w \in ways : Improves(known, w) /\ ~\E other \in ways : other.id = w.id /\ BetterPath(other, w)}
Learn(known, ways) ==
  [id \in DOMAIN known \cup {w.id : w \in ways} |->
     IF \E w \in ways : w.id = id THEN CHOOSE w \in ways : w.id = id ELSE known[id]]

(* trace_callers: the direct callers of a seed, and their calls to it.     *)
Followed(refs) == {r \in refs : ~Skipped(SymbolOf(r.id))}
CallersOf(seed) == Followed(IncomingCallableReferences(seed))
CallersSeen(seed) ==
  [r \in CallersOf(seed) |->
     Sighting(AdjustedScore(SymbolOf(r.id), 90 + r.confidence \div 10 + EdgePriority(r) \div 4
                                            - EdgeCost(r) \div 12, seed.qualified),
              1, r.confidence, EdgeCost(r), EdgePriority(r))]
CallsTo(seed) == {TraceEdge(r.id, seed.id, r) : r \in FirstOf(CallersOf(seed))}

(* trace_callees: the callees of the symbol a way leads to.                *)
CalleesOf(id) == Followed(DirectCallableReferences(SymbolOf(id)))
Onward(way, ref) == Further(way, ref.id, EdgeCost(ref), EdgePriority(ref))
CalleesSeen(way) ==
  [r \in CalleesOf(way.id) |->
     LET on == Onward(way, r)
     IN Sighting(AdjustedScore(SymbolOf(r.id), 80 - way.hops * 10 + r.confidence \div 10
                                               + on.priority \div 4 - on.cost \div 10,
                               SymbolOf(way.id).qualified),
                 on.hops, r.confidence, on.cost, on.priority)]
CallsFrom(way) == {TraceEdge(way.id, r.id, r) : r \in FirstOf(CalleesOf(way.id))}
WaysFrom(way) == {Onward(way, r) : r \in CalleesOf(way.id)}

-----------------------------------------------------------------------------
(* select_important_symbols: the best of each category, in the order of    *)
(* the categories, then the best of the rest.  Scores that tie are told in *)
(* some order, the same each time.                                         *)
Categories == <<"entry", "orchestration", "scanning", "matching", "output">>
ItemScore(node) == node.score - node.distance * 4 + node.priority \div 6 - node.cost \div 14
Items(known) ==
  {[id |-> id, score |-> ItemScore(known[id]), category |-> ClassifySymbol(SymbolOf(id))] :
     id \in DOMAIN known}
Heads(ranked) ==
  FlattenSeq([i \in DOMAIN Categories |->
    LET of == SelectSeq(ranked, LAMBDA item : item.category = Categories[i])
    IN IF of = << >> THEN << >> ELSE <<Head(of)>>])
HeadsFirst(heads, ranked) ==
  LET rest == SelectSeq(ranked, LAMBDA item : item \notin ToSet(heads))
  IN [i \in 1..Min({MaxSymbols, Len(ranked)}) |-> [item |-> (heads \o rest)[i], hot |-> i <= Len(heads)]]
SelectImportantSymbols(known) ==
  LET ranked == SortSeq(Listed(Items(known)), LAMBDA a, b : a.score > b.score)
  IN HeadsFirst(Heads(ranked), ranked)

(* The last of the best, as max_by has it; nothing scores at most zero.    *)
BestOf(items, worth) ==
  LET better(i, j) == \/ worth[i] > worth[j]
                      \/ worth[i] = worth[j] /\ items[i].item.score > items[j].item.score
                      \/ worth[i] = worth[j] /\ items[i].item.score = items[j].item.score /\ i > j
      scored == {i \in DOMAIN items : worth[i] > 0}
  IN {items[i] : i \in {x \in scored : ~\E y \in scored : better(y, x)}}

HintScore(s, hint) ==
  CASE hint.names \in {<<s.name>>, s.qualified} -> 400
    [] IsSuffix(hint.names, s.qualified) -> 360
    [] InName(s, hint.text) -> 260
    [] Qualified(s, hint.text) -> 220
    [] InFile(s, hint.text) -> 140
    [] OTHER -> 0
AnyQualified(s, fragments) == \E f \in fragments : Qualified(s, f)
ConfigScore(s) ==
  Worth(AnyFile(s, {"config", "settings", "env"}), 30) + Worth(AnyFile(s, {"bootstrap", "init"}), 22)
  + Worth(AnyName(s, {"config", "setting", "env"}), 18)
  + Worth(AnyQualified(s, {"config", "setting", "env"}), 14)
EffectScore(s) ==
  Worth(ClassifySymbol(s) = "output", 30) + Worth(AnyFile(s, {"handler", "route", "http"}), 18)
  + Worth(AnyName(s, {"handle", "route", "serve"}), 14)
  + Worth(AnyQualified(s, {"handler", "route", "serve"}), 10)

Chosen(items, i) == SymbolOf(items[i].item.id)
Hinted(items, hint) ==
  IF hint.text = None THEN {}
  ELSE BestOf(items, [i \in DOMAIN items |-> HintScore(Chosen(items, i), hint)])
Biased(items, hint, worth) == IF hint.text = None /\ request.config THEN BestOf(items, worth) ELSE {}
Configs(items) == [i \in DOMAIN items |-> ConfigScore(Chosen(items, i))]
Effects(items) == [i \in DOMAIN items |-> EffectScore(Chosen(items, i))]
HotOf(items, category) == SelectSeq(items, LAMBDA x : x.hot /\ x.item.category = category)
FirstNonEmpty(sets) == LET some == SelectSeq(sets, LAMBDA s : s # {})
                       IN IF some = << >> THEN {} ELSE Head(some)
HeadSet(items) == IF items = << >> THEN {} ELSE {Head(items)}
Start(items) ==
  FirstNonEmpty(<<Biased(items, request.source, Configs(items)), Hinted(items, request.source),
                  HeadSet(HotOf(items, "entry")), HeadSet(items)>>)
Goal(items) ==
  FirstNonEmpty(<<Hinted(Reverse(items), request.sink),
                  Biased(items, request.sink, Effects(items)),
                  HeadSet(Reverse(HotOf(items, "output"))), HeadSet(Reverse(items))>>)

-----------------------------------------------------------------------------
Ids(items) == {x.item.id : x \in items}
OneOf(ids) == IF ids = {} THEN None ELSE CHOOSE id \in ids : TRUE
PathOver(calls, start, goal) == [calls |-> calls, start |-> start, goal |-> goal, path |-> << >>]
AnswerOver(items) ==
  PathOver({e \in edges : {e.from, e.to} \subseteq Ids(ToSet(items))},
           OneOf(Ids(Start(items))), OneOf(Ids(Goal(items))))
BuildAnswer == AnswerOver(SelectImportantSymbols(nodes))

(* build_shortest_path: Dijkstra over the calls among the chosen symbols;  *)
(* the way back from the goal is by the call each was last reached by.     *)
Along(way, e) == Further(way, e.to, e.cost, e.priority)
Outgoing(id) == {e \in answer.calls : e.from = id}
Retraced == IF answer.path = << >> THEN answer.goal ELSE Head(answer.path).from

-----------------------------------------------------------------------------
Init ==
  /\ project \in Projects /\ request \in Requests
  /\ graph = Unbuilt /\ phase = "asked"
  /\ pending = {} /\ frontier = {} /\ best = << >> /\ parent = << >>
  /\ nodes = << >> /\ edges = {} /\ answer = None

(* The index in memory has its graph built, or not (load_project_index).   *)
Load(built) ==
  /\ phase = "asked" /\ phase' = "tracing"
  /\ graph' = IF built THEN BuildNavigationGraph ELSE Unbuilt
  /\ pending' = {id \in DiscoverSeedIds : Indexed(id)}
  /\ UNCHANGED <<project, request, frontier, best, parent, nodes, edges, answer>>

Begin(id) == best' = [seed \in {id} |-> Way(id, 0, 0, 0)] /\ frontier' = {Way(id, 0, 0, 0)}
Step(way, ways) == best' = Learn(best, ways) /\ frontier' = (frontier \ {way}) \cup ways

TakeSeed(id) ==
  LET seed == SymbolOf(id)
      found == [r \in {[id |-> id, confidence |-> 100]} |->
                  Sighting(AdjustedScore(seed, 100, request.query), 0, 100, 0, 0)]
  IN /\ phase = "tracing" /\ frontier = {}
     /\ pending' = pending \ {id}
     /\ Begin(id)
     /\ nodes' = UpsertNodes(UpsertNodes(nodes, found), CallersSeen(seed))
     /\ edges' = PushEdges(edges, CallsTo(seed))
     /\ UNCHANGED <<project, graph, request, phase, parent, answer>>

Drop(way) ==
  /\ \/ phase \in {"tracing", "connecting"} /\ best[way.id] # way
     \/ phase = "tracing" /\ way.hops >= Depth
  /\ frontier' = frontier \ {way}
  /\ UNCHANGED <<project, graph, request, phase, pending, best, parent, nodes, edges, answer>>
Expand(way) ==
  /\ phase = "tracing" /\ best[way.id] = way /\ way.hops < Depth
  /\ Step(way, Improving(best, WaysFrom(way)))
  /\ nodes' = UpsertNodes(nodes, CalleesSeen(way))
  /\ edges' = PushEdges(edges, CallsFrom(way))
  /\ UNCHANGED <<project, graph, request, phase, pending, parent, answer>>

Choose ==
  /\ phase = "tracing" /\ pending = {} /\ frontier = {}
  /\ answer' = BuildAnswer
  /\ IF answer'.start = answer'.goal
     THEN phase' = "answered" /\ UNCHANGED <<frontier, best>>
     ELSE phase' = "connecting" /\ Begin(answer'.start)
  /\ UNCHANGED <<project, graph, request, pending, parent, nodes, edges>>
Relax(way) ==
  /\ phase = "connecting" /\ best[way.id] = way /\ way.id # answer.goal
  /\ LET ways == Improving(best, {Along(way, e) : e \in Outgoing(way.id)})
     IN /\ Step(way, ways)
        /\ parent' = [id \in DOMAIN parent \cup {w.id : w \in ways} |->
                        IF \E w \in ways : w.id = id
                        THEN CHOOSE e \in Outgoing(way.id) : Along(way, e) = Learn(best, ways)[id]
                        ELSE parent[id]]
  /\ UNCHANGED <<project, graph, request, phase, pending, nodes, edges, answer>>
Arrive ==
  /\ phase = "connecting"
  /\ \/ frontier = {}
     \/ \E way \in Nearest(frontier) : best[way.id] = way /\ way.id = answer.goal
  /\ phase' = IF answer.goal \in DOMAIN best THEN "retracing" ELSE "answered"
  /\ UNCHANGED <<project, graph, request, pending, frontier, best, parent, nodes, edges, answer>>
Retrace ==
  /\ phase = "retracing"
  /\ IF Retraced = answer.start \/ Retraced \notin DOMAIN parent
     THEN phase' = "answered" /\ UNCHANGED answer
     ELSE answer' = [answer EXCEPT !.path = <<parent[Retraced]>> \o @] /\ UNCHANGED phase
  /\ UNCHANGED <<project, graph, request, pending, frontier, best, parent, nodes, edges>>

Next ==
  \/ \E built \in BOOLEAN : Load(built)
  \/ \E id \in pending : TakeSeed(id)
  \/ \E way \in Nearest(frontier) : Drop(way)
  \/ \E way \in Nearest(frontier) : Expand(way)
  \/ \E way \in Nearest(frontier) : Relax(way)
  \/ Choose \/ Arrive \/ Retrace
Spec == Init /\ [][Next]_vars /\ WF_vars(Next)

-----------------------------------------------------------------------------
(* Every call out of a seed, and of what a seed calls when the depth       *)
(* allows, is traced, though the search keeps only the cheapest way to a   *)
(* symbol and cuts it at the depth: one call never costs more than two     *)
(* (trace_callees over the costs of navigation_edge_metrics).              *)
Called(id) == {r.id : r \in CalleesOf(id)}
Traced(id) ==
  \A to \in Called(id) : to \in DOMAIN nodes /\ \E e \in edges : e.from = id /\ e.to = to
Neighbourhood(id) == Depth > 0 => Traced(id) /\ (Depth > 1 => \A to \in Called(id) : Traced(to))
NeighbourhoodTraced ==
  phase = "answered" => \A id \in DiscoverSeedIds : Indexed(id) => Neighbourhood(id)

(* The path shown is a chain of calls among the symbols shown, from its    *)
(* start to its goal, and no chain of them is cheaper; there is none only  *)
(* when there is no chain (build_shortest_path).                           *)
Linked(chain) ==
  /\ chain[1].from = answer.start /\ chain[Len(chain)].to = answer.goal
  /\ \A i \in 1..(Len(chain) - 1) : chain[i].to = chain[i + 1].from
Cost(chain) ==
  LET upTo[i \in 0..Len(chain)] == IF i = 0 THEN 0 ELSE upTo[i - 1] + chain[i].cost
  IN upTo[Len(chain)]
Ends == {e.from : e \in answer.calls} \cup {e.to : e \in answer.calls}
Chains == {chain \in UNION {[1..n -> answer.calls] : n \in 1..(Cardinality(Ends) - 1)} : Linked(chain)}
CheapestPath ==
  phase = "answered" =>
    LET path == answer.path
    IN IF answer.start = answer.goal THEN path = << >>
       ELSE /\ path # << >> => ToSet(path) \subseteq answer.calls /\ Linked(path)
            /\ \A chain \in Chains : path # << >> /\ Cost(path) <= Cost(chain)
=============================================================================
