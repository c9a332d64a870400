--------------------------- MODULE NavigationGraph ---------------------------
(***************************************************************************)
(* The navigation graph of an index (graph.rs): built once from the text   *)
(* of every symbol, or left unbuilt, when the same questions are answered  *)
(* by reading the text anew.                                               *)
(***************************************************************************)
EXTENDS CallScan, Integers

CONSTANTS LowSignal,   (* names too common to tell anything                *)
          Unbuilt

VARIABLE graph

SymbolOf(id) == CHOOSE s \in project.symbols : s.id = id
Indexed(id) == \E s \in project.symbols : s.id = id

(* The text of a symbol is read lossily (read_symbol_source), that of its  *)
(* file only if it is UTF-8 (read_file_source).                            *)
Opened(sym) == sym.file \notin project.unreadable
Readable(sym) == Opened(sym) /\ sym.file \notin project.mangled

ClassifyRelation(target, confidence) ==
  IF /\ IsCallable(target)
     /\ \/ confidence >= 97
        \/ target.name \notin LowSignal /\ confidence >= 86
  THEN "calls" ELSE "references"

-----------------------------------------------------------------------------
(* Buckets of edges, of each target the first: calls before references,    *)
(* resolved before ambiguous, then by confidence.                          *)
Edge(to, ref) ==
  [to |-> to, relation |-> ClassifyRelation(SymbolOf(ref.id), ref.confidence),
   confidence |-> ref.confidence, resolution |-> ref.resolution, line |-> ref.line]
Before(a, b) ==
  \/ a.relation = "calls" /\ b.relation = "references"
  \/ /\ a.relation = b.relation
     /\ \/ a.resolution = Resolved /\ b.resolution = Ambiguous
        \/ a.resolution = b.resolution /\ a.confidence > b.confidence
FaultNormaliseEdgeBucket(bucket) ==
  {e \in bucket : ~\E other \in bucket :
     other.to = e.to /\ other.confidence = e.confidence /\ Before(other, e)}
NormaliseEdgeBucket(bucket) ==
  {e \in bucket : ~\E other \in bucket : other.to = e.to /\ Before(other, e)}

Scanned ==
  [id \in {s.id : s \in project.symbols} |->
     IF Readable(SymbolOf(id)) THEN ScanDirectReferences(SymbolOf(id))
     ELSE [references |-> {}, unresolved |-> {}]]
GraphOf(scanned) ==
  LET ids == DOMAIN scanned
  IN [outgoing |-> [id \in ids |->
        NormaliseEdgeBucket({Edge(r.id, r) : r \in scanned[id].references})],
      incoming |-> [id \in ids |-> NormaliseEdgeBucket(
        UNION {{Edge(from, r) : r \in {x \in scanned[from].references : x.id = id}} : from \in ids})],
      unresolved |-> [id \in ids |-> scanned[id].unresolved]]
BuildNavigationGraph == GraphOf(Scanned)

-----------------------------------------------------------------------------
(* The answers.                                                            *)
Told(id, from) ==
  [id |-> id, line |-> from.line, confidence |-> from.confidence, resolution |-> from.resolution]
ResolveEdges(edges) == {Told(e.to, e) : e \in {x \in edges : Indexed(x.to)}}
CallEdges(edges) == {e \in edges : e.relation = "calls"}
Telling(sym) == IsCallable(sym) /\ sym.name \notin LowSignal

GraphCallees(sym) ==
  {r \in ResolveEdges(CallEdges(graph.outgoing[sym.id])) : Telling(SymbolOf(r.id))}
ScannedCallees(sym) ==
  IF ~Opened(sym) THEN {}
  ELSE {r \in ScanDirectReferences(sym).references :
          ClassifyRelation(SymbolOf(r.id), r.confidence) = "calls"}
DirectCallableReferences(sym) == IF graph # Unbuilt THEN GraphCallees(sym) ELSE ScannedCallees(sym)

GraphCallers(sym) ==
  {r \in ResolveEdges(CallEdges(graph.incoming[sym.id])) : Telling(SymbolOf(r.id))}
FirstCall(id, calls) ==
  IF calls = {} THEN {}
  ELSE {Told(id, CHOOSE r \in calls : \A other \in calls : other.confidence <= r.confidence)}
ScannedCallers(sym) ==
  UNION {FirstCall(s.id, {r \in ScannedCallees(s) : r.id = sym.id}) :
           s \in {c \in project.symbols : c.id # sym.id /\ Telling(c)}}
IncomingCallableReferences(sym) ==
  IF graph # Unbuilt THEN GraphCallers(sym) ELSE ScannedCallers(sym)

-----------------------------------------------------------------------------
(* What an edge is worth: hundredths of evidence quality, priority, cost.  *)
(* A quality of 85, the sum of five fractions, falls short of it.          *)
AtLeast(a, b) == IF a < b THEN b ELSE a
EvidenceQuality(line) ==
  LET shown == project.text[line[1]][line[2]]
      tokens == ToSet(shown.tokens)
      worth(marks, value) == IF marks \cap tokens # {} THEN value ELSE 0
  IN AtLeast(35 + worth({"("}, 22) + worth({"::"}, 12) + worth({"."}, 8)
             + (IF shown.sized THEN 8 ELSE 0)
             - (IF Head(shown.tokens) = "//" THEN 20 ELSE 0), 10)
Share(hundredths, of) == (hundredths * of + 50) \div 100
QualityShare(quality, of) == IF quality = 85 /\ of = 30 THEN 25 ELSE Share(quality, of)
EdgePriority(ref) == 90 + Share(ref.confidence, 25) + QualityShare(EvidenceQuality(ref.line), 20)
FaultEdgeCost(ref) ==
  AtLeast(95 - Share(ref.confidence, 40) - QualityShare(EvidenceQuality(ref.line), 60), 10)
EdgeCost(ref) ==
  AtLeast(95 - Share(ref.confidence, 40) - QualityShare(EvidenceQuality(ref.line), 30), 10)

(* Of the calls of one symbol the surest stands for all of them.           *)
FirstOf(refs) == {r \in refs : ~\E other \in refs : other.id = r.id /\ other.confidence > r.confidence}

-----------------------------------------------------------------------------
(* Over a built graph the callers of a symbol are those a fresh reading of *)
(* the text tells, and its callees are too, but for the low-signal names   *)
(* the graph keeps to itself and the calls of files that are not UTF-8,    *)
(* which it never holds; each with the same evidence                       *)
(* (collect_direct_callable_references and                                 *)
(* collect_incoming_callable_references, both branches).                   *)
GraphAgrees ==
  graph # Unbuilt => \A s \in project.symbols :
    /\ GraphCallers(s) = {r \in ScannedCallers(s) : Readable(SymbolOf(r.id))}
    /\ GraphCallees(s) = {r \in FirstOf({x \in ScannedCallees(s) : Telling(SymbolOf(x.id))}) : Readable(s)}
=============================================================================
