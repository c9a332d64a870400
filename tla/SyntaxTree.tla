----------------------------- MODULE SyntaxTree ------------------------------
(***************************************************************************)
(* Syntax trees as tree-sitter gives them, and what the extractors of      *)
(* src/indexer/ have in common: how they visit a tree, name a symbol after *)
(* its container, take the comments above it for its documentation and cut *)
(* a class down to its header.                                             *)
(*                                                                         *)
(* A node has its kind, the field it fills in its parent, the name the     *)
(* grammar gives it ("none" without), a second name (of: receiver, scope,  *)
(* table), a tag that tells its variant, its children and the lines it     *)
(* spans.  Text is left out but for the marker a comment opens with, which *)
(* is the tag of a comment.                                                *)
(***************************************************************************)
EXTENDS Naturals, Sequences, SequencesExt, FiniteSetsExt

None == "none"
NoNode == [kind |-> None, field |-> None, name |-> None, of |-> None, tag |-> None,
           kids |-> << >>, at |-> 0, to |-> 0]

Named(n) == n.name # None
First(nodes) == IF nodes = << >> THEN NoNode ELSE Head(nodes)
Child(n, kinds) == First(SelectSeq(n.kids, LAMBDA k : k.kind \in kinds))
FieldOf(n, field) == First(SelectSeq(n.kids, LAMBDA k : k.field = field))
Body(n) == FieldOf(n, "body")
HasBody(n) == Body(n) # NoNode

-----------------------------------------------------------------------------
(* A visit: a node, the container it is read in, the siblings before it.   *)
(* A step of an extractor answers with the symbols of the node and the     *)
(* visits that follow.                                                     *)
KidsOf(n, ctx) == [i \in DOMAIN n.kids |-> [node |-> n.kids[i], ctx |-> ctx,
                                            before |-> SubSeq(n.kids, 1, i - 1)]]
BodyKids(n, ctx) == KidsOf(Body(n), ctx)
Only(visits, kinds) == SelectSeq(visits, LAMBDA v : v.node.kind \in kinds)
Except(visits, kinds) == SelectSeq(visits, LAMBDA v : v.node.kind \notin kinds)

Step(emit, visits) == [emit |-> emit, visits |-> visits]
Nothing == Step(<< >>, << >>)
Through(visits) == Step(<< >>, visits)

(* qualified keeps the container, the separator and the name apart.        *)
Qualified(ctx, sep, name) == IF ctx = None THEN <<name>> ELSE <<ctx, sep, name>>
Symbol(v, name, qualified, kind, to, doc) ==
  [name |-> name, qualified |-> qualified, kind |-> kind,
   at |-> v.node.at, to |-> to, doc |-> doc]

-----------------------------------------------------------------------------
(* Documentation: the lines of the comments taken from the siblings before. *)
IsComment(n) == n.kind \in {"comment", "line_comment", "block_comment"}
Lines(nodes) == [i \in DOMAIN nodes |-> nodes[i].at]

(* The longest run of siblings, up to the symbol, that all are comments    *)
(* with one of the markers.                                                *)
Counts(n, markers) == IsComment(n) /\ n.tag \in markers
FaultRunOn(before, markers) == SelectSeq(before, LAMBDA n : Counts(n, markers))
LastRun(before, markers) ==
  SubSeq(before, SelectLastInSeq(before, LAMBDA n : ~Counts(n, markers)) + 1, Len(before))

RunDoc(v, markers) == Lines(LastRun(v.before, markers))
Anything == {"//", "///", "//!", "/*", "/**", "#"}

(* Only the nearest sibling, when it opens with one of the markers.        *)
NearestDoc(v, markers) ==
  LET n == Len(v.before)
  IN IF n > 0 /\ Counts(v.before[n], markers)
     THEN <<v.before[n].at>> ELSE << >>

(* Back over line comments; a doc block met on the way wins alone.         *)
BlockOrRunDoc(v, markers) ==
  LET run == LastRun(v.before, markers)
      k == Len(v.before) - Len(run)
  IN IF k > 0 /\ Counts(v.before[k], {"/**"})
     THEN <<v.before[k].at>> ELSE Lines(run)

-----------------------------------------------------------------------------
(* A class whose body holds methods ends with the line of its brace, when  *)
(* there is a line after it.                                               *)
HeaderEnd(n, body, methods) == IF methods # << >> /\ body.at < n.to THEN body.at ELSE n.to
OfKinds(body, kinds) == SelectSeq(body.kids, LAMBDA k : k.kind \in kinds)

-----------------------------------------------------------------------------
(* Most extractors are a match on the kind of the node.  A rule names the  *)
(* symbol kind within a container and outside ("none": no symbol), the     *)
(* separator, and whether the node is a container itself, whose body is    *)
(* then read under its name.                                               *)
Type(kind) == [in |-> kind, out |-> kind, sep |-> None, opens |-> TRUE]
Alone(kind) == [in |-> kind, out |-> kind, sep |-> None, opens |-> FALSE]
Member(in, out, sep) == [in |-> in, out |-> out, sep |-> sep, opens |-> FALSE]

RuleSymbol(v, rule, to, doc) ==
  Symbol(v, v.node.name,
         IF rule.sep = None THEN <<v.node.name>> ELSE Qualified(v.ctx, rule.sep, v.node.name),
         IF v.ctx = None THEN rule.out ELSE rule.in, to, doc)

FaultDeclare(v, rule, to, doc) ==
  IF ~Named(v.node) THEN Nothing
  ELSE Step(<<RuleSymbol(v, rule, to, doc)>>, IF rule.opens THEN BodyKids(v.node, v.ctx) ELSE << >>)
Declare(v, rule, to, doc) ==
  IF ~Named(v.node) THEN Nothing
  ELSE Step(<<RuleSymbol(v, rule, to, doc)>>,
            IF rule.opens THEN BodyKids(v.node, v.node.name) ELSE << >>)

(* Any other node is looked through: everywhere, or outside containers.    *)
TableStep(v, rules, opaque, everywhere, to, doc) ==
  IF v.node.kind \in DOMAIN rules THEN Declare(v, rules[v.node.kind], to, doc)
  ELSE IF v.node.kind \in opaque \/ (v.ctx # None /\ ~everywhere) THEN Nothing
  ELSE Through(KidsOf(v.node, v.ctx))
=============================================================================
