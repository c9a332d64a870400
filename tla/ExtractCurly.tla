---------------------------- MODULE ExtractCurly -----------------------------
(***************************************************************************)
(* Extractors of the languages whose types hold their members in a body:   *)
(* java.rs, csharp.rs, kotlin.rs, swift.rs, php.rs and solidity.rs.  Each  *)
(* has its documentation, the end of a type, and one step of the walk.     *)
(***************************************************************************)
EXTENDS SyntaxTree

(* Trimming looks for members of these kinds that have a body of their own. *)
Defined(body, kinds) == SelectSeq(OfKinds(body, kinds), HasBody)
Renamed(v, name) == [v EXCEPT !.node.name = name]

-----------------------------------------------------------------------------
(* java.rs *)
JavaDoc(v) == BlockOrRunDoc(v, {"//", "///", "//!"})
JavaEnd(n) ==
  IF n.kind \in {"class_declaration", "record_declaration"}
  THEN HeaderEnd(n, Body(n),
                 Defined(Body(n), {"method_declaration", "constructor_declaration"}))
  ELSE n.to
JavaRules ==
  [class_declaration |-> Type("Class"), record_declaration |-> Type("Class"),
   interface_declaration |-> Type("Interface"), enum_declaration |-> Type("Enum"),
   annotation_type_declaration |-> Alone("Interface"),
   method_declaration |-> Member("Method", "Method", "::"),
   constructor_declaration |-> Member("Method", "Method", "::")]
JavaStep(v) ==
  TableStep(v, JavaRules, {"block", "constructor_body"}, FALSE, JavaEnd(v.node), JavaDoc(v))

-----------------------------------------------------------------------------
(* csharp.rs: a namespace is looked through, whatever holds it.            *)
CSharpDoc(v) == RunDoc(v, Anything)
CSharpEnd(n) ==
  IF n.kind \in {"class_declaration", "struct_declaration", "record_declaration"}
  THEN HeaderEnd(n, Body(n),
                 Defined(Body(n), {"method_declaration", "constructor_declaration"}))
  ELSE n.to
CSharpRules ==
  [class_declaration |-> Type("Class"), record_declaration |-> Type("Class"),
   interface_declaration |-> Type("Interface"), struct_declaration |-> Type("Struct"),
   enum_declaration |-> Alone("Enum"), delegate_declaration |-> Alone("TypeAlias"),
   method_declaration |-> Member("Method", "Method", "::"),
   constructor_declaration |-> Member("Method", "Method", "::")]
CSharpStep(v) ==
  CASE v.node.kind = "namespace_declaration" -> Through(BodyKids(v.node, None))
    [] v.node.kind = "file_scoped_namespace_declaration" ->
         Through(Except(KidsOf(v.node, None), {"identifier", "qualified_name", ";"}))
    [] OTHER -> TableStep(v, CSharpRules, {"block"}, FALSE, CSharpEnd(v.node), CSharpDoc(v))

-----------------------------------------------------------------------------
(* kotlin.rs: the tag of a class tells interface, enum class and class.  A  *)
(* body counts only as class_body; that of an enum class is another kind.  *)
KotlinDoc(v) == BlockOrRunDoc(v, {"//", "///", "//!"})
ClassBody(n) == Child(n, {"class_body"})
KotlinEnd(n) ==
  IF n.kind = "class_declaration" /\ n.tag = "class"
  THEN HeaderEnd(n, ClassBody(n), OfKinds(ClassBody(n), {"function_declaration"}))
  ELSE n.to
KotlinRules ==
  [type_alias |-> Alone("TypeAlias"),
   function_declaration |-> Member("Method", "Function", "::")]
KotlinType(v, kind) ==
  IF ~Named(v.node) THEN Nothing
  ELSE Step(Declare(v, Alone(kind), KotlinEnd(v.node), KotlinDoc(v)).emit,
            KidsOf(ClassBody(v.node), v.node.name))
KotlinStep(v) ==
  CASE v.node.kind = "class_declaration" ->
         KotlinType(v, [interface |-> "Interface", enum |-> "Enum", class |-> "Class"][v.node.tag])
    [] v.node.kind = "object_declaration" -> KotlinType(v, "Class")
    [] v.node.kind = "companion_object" -> Through(KidsOf(ClassBody(v.node), v.ctx))
    [] v.node.kind = "secondary_constructor" ->
         IF v.ctx = None THEN Nothing
         ELSE Declare(Renamed(v, v.ctx), Member("Method", "Method", "::"),
                      KotlinEnd(v.node), KotlinDoc(v))
    [] OTHER -> TableStep(v, KotlinRules, {"function_body", "block"}, FALSE,
                          KotlinEnd(v.node), KotlinDoc(v))

-----------------------------------------------------------------------------
(* swift.rs: class_declaration serves five keywords, the tag of the node.  *)
(* An extension only lends its name.                                       *)
SwiftDoc(v) == RunDoc(v, Anything)
SwiftEnd(n) ==
  IF n.kind = "class_declaration" /\ n.tag \in {"class", "struct", "actor"}
  THEN HeaderEnd(n, Body(n), OfKinds(Body(n), {"function_declaration", "init_declaration"}))
  ELSE n.to
SwiftRules ==
  [protocol_declaration |-> Type("Interface"), typealias_declaration |-> Alone("TypeAlias"),
   function_declaration |-> Member("Method", "Function", "::"),
   protocol_function_declaration |-> Member("Method", "Method", "::"),
   init_declaration |-> Member("Method", "Method", "::")]
SwiftTypes == [class |-> "Class", actor |-> "Class", struct |-> "Struct", enum |-> "Enum"]
SwiftStep(v) ==
  CASE v.node.kind = "class_declaration" /\ v.node.tag \in DOMAIN SwiftTypes ->
         Declare(v, Type(SwiftTypes[v.node.tag]), SwiftEnd(v.node), SwiftDoc(v))
    [] v.node.kind = "class_declaration" /\ v.node.tag = "extension" ->
         Through(BodyKids(v.node, v.node.name))
    [] v.node.kind = "class_declaration" -> Nothing
    [] OTHER -> TableStep(v, SwiftRules, {"function_body"}, FALSE, SwiftEnd(v.node), SwiftDoc(v))

-----------------------------------------------------------------------------
(* php.rs: a function is a Function wherever it stands.                    *)
PhpDoc(v) == BlockOrRunDoc(v, {"//", "///", "//!", "#"})
PhpEnd(n) ==
  IF n.kind = "class_declaration"
  THEN HeaderEnd(n, Body(n), Defined(Body(n), {"method_declaration"}))
  ELSE n.to
PhpRules ==
  [class_declaration |-> Type("Class"), interface_declaration |-> Type("Interface"),
   trait_declaration |-> Type("Trait"), enum_declaration |-> Alone("Enum"),
   function_definition |-> Alone("Function"),
   method_declaration |-> Member("Method", "Method", "::")]
PhpStep(v) == TableStep(v, PhpRules, {"compound_statement"}, FALSE, PhpEnd(v.node), PhpDoc(v))

-----------------------------------------------------------------------------
(* solidity.rs: a constructor has no name of its own, fallback and receive *)
(* are named by their keyword (the tag).                                   *)
SolidityDoc(v) == BlockOrRunDoc(v, {"//", "///", "//!"})
SolidityEnd(n) ==
  IF n.kind \in {"contract_declaration", "interface_declaration", "library_declaration"}
  THEN HeaderEnd(n, Body(n),
                 Defined(Body(n), {"function_definition", "constructor_definition",
                                   "modifier_definition", "fallback_receive_definition"}))
  ELSE n.to
SolidityRules ==
  LET function == Member("Method", "Function", "::")
  IN [contract_declaration |-> Type("Class"), library_declaration |-> Type("Class"),
      interface_declaration |-> Type("Interface"),
      struct_declaration |-> Member("Struct", "Struct", "::"),
      enum_declaration |-> Member("Enum", "Enum", "::"),
      function_definition |-> function, constructor_definition |-> function,
      modifier_definition |-> function, fallback_receive_definition |-> function,
      event_definition |-> Member("Function", "Function", "::"),
      error_declaration |-> Member("Function", "Function", "::")]
SolidityNamed(v) ==
  CASE v.node.kind = "constructor_definition" -> Renamed(v, "constructor")
    [] v.node.kind = "fallback_receive_definition" -> Renamed(v, v.node.tag)
    [] OTHER -> v
SolidityStep(v) ==
  TableStep(SolidityNamed(v), SolidityRules, {"function_body"}, FALSE,
            SolidityEnd(v.node), SolidityDoc(v))
=============================================================================
