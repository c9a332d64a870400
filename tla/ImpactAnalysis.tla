--------------------------- MODULE ImpactAnalysis ----------------------------
(***************************************************************************)
(* What a change may touch (impact_from_seeds in tools/orchestrator.rs):   *)
(* from its seeds along the edges of the navigation graph, both ways, the  *)
(* weightiest first, to a depth.  The weight of a way grows with each edge *)
(* of it, so a symbol is followed from the weightiest way to it, which is  *)
(* seldom the shortest.                                                    *)
(***************************************************************************)
EXTENDS NavigationGraph, FiniteSetsExt

CONSTANT Everywhere   (* the scope of a question that names none               *)

VARIABLES
  question,    (* what is asked: depth, limit, scope and words             *)
  profile,     (* the roles of the files of the index                      *)
  seeds,       (* the symbols the walk starts from                         *)
  frontier,    (* the ways to follow                                       *)
  best,        (* the weightiest way to each symbol                        *)
  impacted     (* what the walk met, with the edges that led to it         *)
walk == <<seeds, frontier, best, impacted>>

Roles == INSTANCE RepoProfile

MaxSupportEdges == 2
Clamp(n, low, high) == IF n < low THEN low ELSE IF n > high THEN high ELSE n
DepthLimit == Clamp(question.depth, 1, 3)
Limit == Clamp(question.limit, 1, 12)

-----------------------------------------------------------------------------
(* The worth of a symbol, and of an edge at a distance from the seeds.     *)
ImpactScore(distance, s) ==
  100 - distance * 20
  + (IF \E place \in {"/tests/", "_test.rs", "test.ts"} : Holds(s.file, place) THEN 10 ELSE 0)
  - (IF s.name \in {"main", "run", "build"} THEN 10 ELSE 0)
  + Roles!RoleBoostForPath(profile, s.file, question.words)
Priority(e) == EdgePriority(e) - (IF e.relation = "calls" THEN 0 ELSE 45)
Bonus(direction) == IF direction = "incoming" THEN 12 ELSE 4
EdgeScore(distance, n) ==
  ImpactScore(distance, SymbolOf(n.to)) + Priority(n.edge) + Bonus(n.direction)
  + Share(EvidenceQuality(n.edge.line), 10)

MatchesScope(s) == question.scope = Everywhere \/ s.file \in question.scope
Incoming(id) == IF graph = Unbuilt THEN {} ELSE graph.incoming[id]
Outgoing(id) == IF graph = Unbuilt THEN {} ELSE graph.outgoing[id]
Neighbour(direction, e) == [to |-> e.to, direction |-> direction, edge |-> e]
Neighbours(id) ==
  {n \in {Neighbour("incoming", e) : e \in Incoming(id)} \cup {Neighbour("outgoing", e) : e \in Outgoing(id)} :
     MatchesScope(SymbolOf(n.to))}

-----------------------------------------------------------------------------
Way(id, depth, score, priority) == [id |-> id, depth |-> depth, score |-> score, priority |-> priority]
BetterImpactPath(a, b) ==
  \/ a.score > b.score
  \/ a.score = b.score /\ a.depth < b.depth
  \/ a.score = b.score /\ a.depth = b.depth /\ a.priority > b.priority
Foremost == {w \in frontier : ~\E other \in frontier : BetterImpactPath(other, w)}

(* A symbol keeps its best score and least distance, and of each edge that *)
(* led to it the best score: the same edge, from the same symbol and in    *)
(* the same direction, is one piece of evidence however often it is met.   *)
(* What one way leads to comes out the same in whatever order it is met.   *)
Evidence(via, n, score) ==
  [via |-> via, direction |-> n.direction, relation |-> n.edge.relation, score |-> score]
SameEdge(a, b) == a.via = b.via /\ a.direction = b.direction /\ a.relation = b.relation
BestOfEdge(evidence) ==
  {e \in evidence : ~\E other \in evidence : SameEdge(e, other) /\ other.score > e.score}
ScoreAfter(way, n) == EdgeScore(way.depth + 1, n)
Observed(way, met) ==
  [score |-> Max({ScoreAfter(way, n) : n \in met}), distance |-> way.depth + 1,
   evidence |-> BestOfEdge({Evidence(way.id, n, ScoreAfter(way, n)) : n \in met})]
Joined(old, new) ==
  [score |-> IF old.score < new.score THEN new.score ELSE old.score,
   distance |-> IF old.distance < new.distance THEN old.distance ELSE new.distance,
   evidence |-> BestOfEdge(old.evidence \cup new.evidence)]
Observe(way, ns) ==
  [id \in DOMAIN impacted \cup {n.to : n \in ns} |->
     LET met == {n \in ns : n.to = id}
     IN IF met = {} THEN impacted[id]
        ELSE IF id \in DOMAIN impacted THEN Joined(impacted[id], Observed(way, met))
        ELSE Observed(way, met)]

(* The ways on that are better than what is known; a way that another of   *)
(* them to the same symbol supersedes would be dropped when its turn came. *)
Onward(way, n) ==
  Way(n.to, way.depth + 1, way.score + ScoreAfter(way, n) - (way.depth + 1) * 8,
      way.priority + Priority(n.edge))
Improving(way, ns) ==
  LET on == {Onward(way, n) : n \in ns}
  IN {w \in on : /\ w.id \in DOMAIN best => BetterImpactPath(w, best[w.id])
                 /\ ~\E other \in on : other.id = w.id /\ BetterImpactPath(other, w)}
Learn(ways) ==
  [id \in DOMAIN best \cup {w.id : w \in ways} |->
     IF \E w \in ways : w.id = id THEN CHOOSE w \in ways : w.id = id ELSE best[id]]

-----------------------------------------------------------------------------
Begin(from) ==
  LET start(id) == Way(id, 0, 120, 0)
  IN /\ seeds' = from
     /\ frontier' = {start(id) : id \in from}
     /\ best' = [id \in from |-> start(id)]
     /\ impacted' = << >>

(* The foremost way is stale, or at the limit.                             *)
FaultSpent(way) == best[way.id] # way \/ way.depth > DepthLimit
Spent(way) == best[way.id] # way \/ way.depth >= DepthLimit
Drop(way) ==
  /\ Spent(way)
  /\ frontier' = frontier \ {way}
  /\ UNCHANGED <<seeds, best, impacted>>
Expand(way) ==
  /\ ~Spent(way)
  /\ LET ns == IF Indexed(way.id) THEN Neighbours(way.id) ELSE {}
         ways == Improving(way, ns)
     IN frontier' = (frontier \ {way}) \cup ways /\ best' = Learn(ways) /\ impacted' = Observe(way, ns)
  /\ UNCHANGED seeds

-----------------------------------------------------------------------------
(* The answer: the best symbols and files to the limit, the evidence       *)
(* counted over all of them.  Symbols that tie are told in some order.     *)
Listed(set) == FoldSet(LAMBDA x, seq : Append(seq, x), << >>, set)
SumOver(f, set) == FoldSet(LAMBDA x, sum : sum + f[x], 0, set)
Ahead(a, b) ==
  \/ impacted[a].score > impacted[b].score
  \/ impacted[a].score = impacted[b].score /\ impacted[a].distance < impacted[b].distance
Cut(seq) == SubSeq(seq, 1, Min({Limit, Len(seq)}))
FileOf(id) == SymbolOf(id).file
FilesTold == {FileOf(id) : id \in DOMAIN impacted} \cup {FileOf(id) : id \in {s \in seeds : Indexed(s)}}
FileScore(f) ==
  Max({impacted[id].score : id \in {x \in DOMAIN impacted : FileOf(x) = f}}
      \cup {100 : id \in {s \in seeds : Indexed(s) /\ FileOf(s) = f}})
Ranked ==
  LET shown == Cut(SortSeq(Listed(DOMAIN impacted), Ahead))
      evidence == [id \in DOMAIN impacted |-> Cardinality(impacted[id].evidence)]
      total == SumOver(evidence, DOMAIN impacted)
      serialized == SumOver([id \in DOMAIN impacted |-> Min({evidence[id], MaxSupportEdges})],
                            ToSet(shown))
  IN [symbols |-> shown, total |-> Cardinality(DOMAIN impacted), evidence |-> total,
      omittedEvidence |-> total - serialized, met |-> impacted,
      files |-> Cut(SortSeq(Listed(FilesTold), LAMBDA f, g : FileScore(f) > FileScore(g))),
      totalFiles |-> Cardinality(FilesTold)]

-----------------------------------------------------------------------------
(* What is told of a symbol is so: it lies in the scope, at the end of a   *)
(* walk of as many edges as its distance, no more than the depth allows,   *)
(* and its evidence are edges between it and symbols the walk was at.  Of  *)
(* a lone seed nothing is missed that one edge joins to it                 *)
(* (impact_from_seeds, collect_impact_neighbors).                          *)
Joint(ids) == UNION {{n.to : n \in Neighbours(id)} : id \in ids}
Reach(d) ==
  LET start == {s \in seeds : Indexed(s)}
  IN CASE d = 0 -> start
       [] d = 1 -> Joint(start)
       [] d = 2 -> Joint(Joint(start))
       [] d = 3 -> Joint(Joint(Joint(start)))
ImpactGrounded ==
  graph # Unbuilt /\ frontier = {} =>
    /\ \A id \in DOMAIN impacted :
         /\ impacted[id].distance \in 1..DepthLimit
         /\ id \in Reach(impacted[id].distance)
         /\ MatchesScope(SymbolOf(id))
         /\ \A e \in impacted[id].evidence :
              /\ \E d \in 0..(DepthLimit - 1) : e.via \in Reach(d)
              /\ IF e.direction = "incoming" THEN \E x \in Outgoing(id) : x.to = e.via
                 ELSE \E x \in Incoming(id) : x.to = e.via
    /\ (\E seed \in seeds : seeds = {seed}) =>
         \A id \in Reach(1) : id \in DOMAIN impacted /\ impacted[id].distance = 1
=============================================================================
