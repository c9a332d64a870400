------------------------------ MODULE Indexing -------------------------------
(***************************************************************************)
(* The index of a project over what the parsers find in its files and what *)
(* the exclusion policy lets in: SymbolIndex, Extraction and ScanPolicy    *)
(* together, and what the symbols told of a syntax tree must satisfy.      *)
(***************************************************************************)
EXTENDS SymbolIndex, Extraction, ScanPolicy

CONSTANT TreeOf(_)    (* the syntax tree of a content that is parsed       *)

(* Every node of a tree, with those above it from the root on.             *)
RECURSIVE Spots(_, _)
Spots(n, above) ==
  {[node |-> n, above |-> above]}
    \cup UNION {Spots(n.kids[i], Append(above, n)) : i \in DOMAIN n.kids}

Containers == {"class_declaration", "record_declaration", "interface_declaration",
  "enum_declaration", "struct_declaration", "object_declaration", "protocol_declaration",
  "trait_declaration", "contract_declaration", "library_declaration", "impl_item",
  "class_specifier", "struct_specifier", "class_interface", "class_implementation",
  "class_definition", "class", "module", "variable_declaration", "abstract_class_declaration"}
Callables == {"function_item", "function_definition", "function_declaration", "method_declaration",
  "method_definition", "constructor_declaration", "constructor_definition", "init_declaration",
  "method", "singleton_method", "arrow_function"}
Nameless == {"constructor_definition", "fallback_receive_definition", "secondary_constructor",
  "lexical_declaration", "variable_declaration", "assignment_statement", "test_declaration"}

DeclaredAt(s, p) == p.node.at = s.at /\ (p.node.name = Last(s.id.qualified) \/ p.node.kind \in Nameless)
OwnersOf(p) == SelectSeq(p.above, LAMBDA n : n.kind \in Containers /\ Named(n))
InCallable(p) == \E i \in DOMAIN p.above : p.above[i].kind \in Callables

(* A symbol with a container is declared in that container, the innermost  *)
(* there is, or carries it as receiver, scope or table; a function or      *)
(* method without one stands in none, but for a test of zig; and what is   *)
(* local to a function is no symbol.                                       *)
OwnerEncloses(s, p) ==
  LET owners == OwnersOf(p)
  IN /\ ~InCallable(p)
     /\ IF Len(s.id.qualified) = 3
        THEN IF owners = << >> THEN s.id.qualified[1] = p.node.of
             ELSE s.id.qualified[1] = Last(owners).name
        ELSE \/ s.id.kind \notin {"Function", "Method"} \/ owners = << >>
             \/ p.node.kind = "test_declaration"
OwnersEncloseIn(symbols, tree) ==
  LET spots == Spots(tree, << >>)
  IN \A i \in DOMAIN symbols : symbols[i].id.kind # "Impl" =>
       \E p \in spots : DeclaredAt(symbols[i], p) /\ OwnerEncloses(symbols[i], p)

(* No symbol takes a comment for its documentation that another symbol     *)
(* separates it from, and only the symbols of one declaration share one    *)
(* (the types of a Go group are one declaration).                          *)
Begins(s, spots) ==
  LET p == CHOOSE x \in spots : DeclaredAt(s, x)
  IN IF p.above # << >> /\ Last(p.above).kind = "type_declaration" THEN Last(p.above).at ELSE s.at
DocsAboveIn(symbols, tree) ==
  LET spots == Spots(tree, << >>)
      begins == [i \in DOMAIN symbols |-> Begins(symbols[i], spots)]
  IN \A i, j \in DOMAIN symbols : \A d \in Range(symbols[i].doc) :
       /\ ~(d < begins[j] /\ begins[j] < begins[i])
       /\ d \in Range(symbols[j].doc) => begins[j] = begins[i]

-----------------------------------------------------------------------------
(* The symbols of an indexed file whose content stands still carry the     *)
(* container they are declared in (extract_from_node of every parser).     *)
Standing == {f \in Files \ dirty : SymbolsOf(index, f) # {}}
OwnersEnclose ==
  \A f \in Standing : OwnersEncloseIn(Parse(f, disk[f]), TreeOf(disk[f]))

(* And the documentation of their own, of nobody else (get_doc_comment of  *)
(* every parser).                                                          *)
DocsAbove ==
  \A f \in Standing : DocsAboveIn(Parse(f, disk[f]), TreeOf(disk[f]))
=============================================================================
