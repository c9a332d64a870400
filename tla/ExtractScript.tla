---------------------------- MODULE ExtractScript ----------------------------
(***************************************************************************)
(* Extractors of python.rs, ruby.rs, lua.rs, bash.rs, javascript.rs,       *)
(* typescript.rs and svelte.rs.                                            *)
(***************************************************************************)
EXTENDS SyntaxTree

-----------------------------------------------------------------------------
(* python.rs: documentation is a string that comes first in the body.  A   *)
(* class with methods ends with it, or with the line before its body.      *)
Docstring(n) ==
  LET first == IF Body(n).kids = << >> THEN NoNode ELSE Body(n).kids[1]
  IN IF first.kind = "expression_statement"
     THEN Child(first, {"string"}) ELSE NoNode
PythonDoc(v) == LET s == Docstring(v.node) IN IF s = NoNode THEN << >> ELSE <<s.at>>
Def == {"function_definition"}
Decorated(n) == n.kind = "decorated_definition"
PythonEnd(n) ==
  LET body == Body(n)
      hasMethods == \E i \in DOMAIN body.kids :
                      \/ body.kids[i].kind \in Def
                      \/ Decorated(body.kids[i]) /\ Child(body.kids[i], Def) # NoNode
  IN IF n.kind # "class_definition" \/ ~hasMethods THEN n.to
     ELSE IF Docstring(n) # NoNode THEN Docstring(n).to
     ELSE IF body.at = n.at THEN n.to ELSE body.at - 1
PythonMethods(n) ==
  FlattenSeq([i \in DOMAIN Body(n).kids |->
    LET k == Body(n).kids[i]
    IN IF Decorated(k) THEN Only(KidsOf(k, n.name), Def)
       ELSE Only(<<BodyKids(n, n.name)[i]>>, Def)])
PythonStep(v) ==
  CASE v.node.kind \in Def ->
         Declare(v, Member("Method", "Function", "::"), PythonEnd(v.node), PythonDoc(v))
    [] v.node.kind = "class_definition" /\ Named(v.node) ->
         Step(Declare(v, Alone("Class"), PythonEnd(v.node), PythonDoc(v)).emit,
              PythonMethods(v.node))
    [] v.node.kind = "class_definition" -> Nothing
    [] OTHER -> Through(Except(KidsOf(v.node, v.ctx), {"block"}))

-----------------------------------------------------------------------------
(* ruby.rs: the body begins with its first statement, and the header is    *)
(* taken to end on the line before it.                                     *)
RubyDoc(v) == RunDoc(v, Anything)
RubyEnd(n) ==
  IF n.kind \in {"class", "module"}
     /\ \E i \in DOMAIN Body(n).kids : Body(n).kids[i].kind \in {"method", "singleton_method"}
  THEN Body(n).at - 1 ELSE n.to
RubyRules ==
  [class |-> Type("Class"), module |-> Type("Mod"),
   method |-> Member("Method", "Method", "#"),
   singleton_method |-> Member("Method", "Method", ".")]
RubyStep(v) == TableStep(v, RubyRules, {"body_statement"}, FALSE, RubyEnd(v.node), RubyDoc(v))

-----------------------------------------------------------------------------
(* lua.rs: a name is an identifier, or a table (of) with a field or method, *)
(* as the tag says.  Targets without a name are dropped before targets and *)
(* values are paired.                                                      *)
LuaDoc(v) == RunDoc(v, Anything)
LuaNamed(v, of, tag) == [v EXCEPT !.node.name = of.name, !.ctx = of.of, !.node.tag = tag]
LuaSeps == [identifier |-> ".", dot_index_expression |-> ".", method_index_expression |-> ":"]
LuaFunction(owner, name) ==
  Declare(LuaNamed(owner, name, None), Member("Method", "Function", LuaSeps[name.tag]),
          owner.node.to, LuaDoc(owner)).emit
LuaAssigned(owner, assignment) ==
  LET list(kind) == Child(assignment, {kind}).kids
      targets == SelectSeq(list("variable_list"),
                           LAMBDA k : Named(k) /\ k.tag \in {"identifier", "dot_index_expression"})
      values == SelectSeq(list("expression_list"), LAMBDA k : k.kind # ",")
      pairs == SetToSortSeq({i \in DOMAIN targets \cap DOMAIN values :
                               values[i].kind = "function_definition"}, LAMBDA i, j : i < j)
  IN FlattenSeq([i \in DOMAIN pairs |-> LuaFunction(owner, targets[pairs[i]])])
LuaStep(v) ==
  CASE v.node.kind = "function_declaration" ->
         IF Named(v.node) THEN Step(LuaFunction(v, v.node), << >>) ELSE Nothing
    [] v.node.kind = "type_definition" -> Declare(v, Alone("TypeAlias"), v.node.to, LuaDoc(v))
    [] v.node.kind = "variable_declaration" ->
         LET parts == SelectSeq(v.node.kids, LAMBDA k : k.kind = "assignment_statement")
         IN Step(FlattenSeq([i \in DOMAIN parts |-> LuaAssigned(v, parts[i])]), << >>)
    [] v.node.kind = "assignment_statement" -> Step(LuaAssigned(v, v.node), << >>)
    [] v.node.kind = "block" -> Nothing
    [] OTHER -> Through(KidsOf(v.node, None))

-----------------------------------------------------------------------------
(* bash.rs: the functions among the children of the root.                  *)
BashDoc(v) == RunDoc(v, Anything)
BashStep(v) ==
  CASE v.node.kind = "program" -> Through(KidsOf(v.node, None))
    [] v.node.kind = "function_definition" -> Declare(v, Alone("Function"), v.node.to, BashDoc(v))
    [] OTHER -> Nothing

-----------------------------------------------------------------------------
(* javascript.rs and typescript.rs: a class tells its methods itself, and  *)
(* a declaration the functions its variables are given; the declaration,   *)
(* not the variable, is what such a symbol spans.                          *)
ScriptDoc(v) == NearestDoc(v, {"/**"})
JsEnd(n) ==
  IF n.kind \in {"class_declaration", "abstract_class_declaration"}
  THEN HeaderEnd(n, Body(n), OfKinds(Body(n), {"method_definition"})) ELSE n.to
TsEnd(n) ==
  IF n.kind \in {"class_declaration", "abstract_class_declaration"}
  THEN HeaderEnd(n, Body(n), OfKinds(Body(n), {"method_definition", "abstract_method_signature"}))
  ELSE n.to
IsFunction(n) == n.kind \in {"arrow_function", "function_expression"}
ScriptFunctions(v) ==
  LET vars == SelectSeq(v.node.kids, LAMBDA k : /\ k.kind = "variable_declarator" /\ Named(k)
                                                /\ IsFunction(FieldOf(k, "value")))
  IN [i \in DOMAIN vars |->
        Symbol(v, vars[i].name, <<vars[i].name>>, "Function", v.node.to, ScriptDoc(v))]
ScriptMethods(n) ==
  LET methods == SelectSeq(Only(BodyKids(n, n.name), {"method_definition"}),
                           LAMBDA m : Named(m.node))
  IN [i \in DOMAIN methods |->
        RuleSymbol(methods[i], Member("Method", "Method", "."), methods[i].node.to,
                   ScriptDoc(methods[i]))]
ScriptStep(v, classes, leaves, to) ==
  CASE v.node.kind \in {"function_declaration", "generator_function_declaration"} ->
         Declare(v, Alone("Function"), to, ScriptDoc(v))
    [] v.node.kind \in classes /\ Named(v.node) ->
         Step(Declare(v, Alone("Class"), to, ScriptDoc(v)).emit \o ScriptMethods(v.node), << >>)
    [] v.node.kind \in classes /\ ~Named(v.node) -> Nothing
    [] v.node.kind \in DOMAIN leaves -> Declare(v, leaves[v.node.kind], to, ScriptDoc(v))
    [] v.node.kind \in {"lexical_declaration", "variable_declaration"} ->
         Step(ScriptFunctions(v), << >>)
    [] OTHER -> Through(Except(KidsOf(v.node, None), {"statement_block", "class_body"}))
JsStep(v) == ScriptStep(v, {"class_declaration"}, << >>, JsEnd(v.node))
TsLeaves == [interface_declaration |-> Alone("Interface"),
             type_alias_declaration |-> Alone("TypeAlias"), enum_declaration |-> Alone("Enum")]
TsStep(v) ==
  ScriptStep(v, {"class_declaration", "abstract_class_declaration"}, TsLeaves,
             TsEnd(v.node))

-----------------------------------------------------------------------------
(* svelte.rs: every script element holds a program of its own in its first *)
(* raw_text, in the language of its start tag; its lines are then shifted. *)
(* The parse of the block is the child of raw_text, its lines counted from *)
(* the block's first.                                                      *)
ScriptLanguage(element) ==
  IF Child(element, {"start_tag"}).tag = "ts" THEN "typescript" ELSE "javascript"
Shifted(symbol, by) ==
  [symbol EXCEPT !.at = @ + by, !.to = @ + by, !.doc = [i \in DOMAIN @ |-> @[i] + by]]
SvelteBlock(element) == Child(element, {"raw_text"})
Program(block) == [node |-> block.kids[1], ctx |-> None, before |-> << >>]
=============================================================================
