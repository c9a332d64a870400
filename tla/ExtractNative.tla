---------------------------- MODULE ExtractNative ----------------------------
(***************************************************************************)
(* Extractors of rust.rs, go.rs, c.rs, cpp.rs, objc.rs and zig.rs.         *)
(***************************************************************************)
EXTENDS SyntaxTree

-----------------------------------------------------------------------------
(* rust.rs: only the functions of an impl are read under its type.  An impl *)
(* is named by that type and qualified with its trait (of).  Bodies of mod *)
(* and trait are not read.                                                 *)
RustDoc(v) == RunDoc(v, {"///", "/**"})
RustRules ==
  [function_item |-> Member("Method", "Function", "::"), struct_item |-> Alone("Struct"),
   enum_item |-> Alone("Enum"), trait_item |-> Alone("Trait"), mod_item |-> Alone("Mod"),
   macro_rules |-> Alone("Macro"), const_item |-> Alone("Const"), type_item |-> Alone("TypeAlias")]
ImplName(n) == IF Named(n) THEN n.name ELSE "impl"
RustImpl(v) ==
  LET impl == v.node
      list == Child(impl, {"declaration_list"})
  IN Step(<<Symbol(v, ImplName(impl), <<"impl", impl.of, impl.name>>, "Impl", impl.to,
                   RustDoc(v))>>,
          Only(KidsOf(list, IF Named(impl) THEN impl.name ELSE "Unknown"), {"function_item"}))
RustStep(v) ==
  CASE v.node.kind = "impl_item" -> RustImpl(v)
    [] v.node.kind \in DOMAIN RustRules -> Declare(v, RustRules[v.node.kind], v.node.to, RustDoc(v))
    [] OTHER -> Through(Except(KidsOf(v.node, v.ctx), {"block"}))

-----------------------------------------------------------------------------
(* go.rs: the children of the root only.  A method is named after the type *)
(* of its receiver (of); the types of a group share its documentation.     *)
GoDoc(v) == RunDoc(v, Anything)
GoTypes == [struct_type |-> "Struct", interface_type |-> "Interface", other |-> "TypeAlias"]
GoTypeSpecs(v) ==
  LET specs == SelectSeq(v.node.kids, LAMBDA k : k.kind = "type_spec" /\ Named(k) /\ k.tag # None)
  IN [i \in DOMAIN specs |->
        Symbol([v EXCEPT !.node = specs[i]], specs[i].name, <<specs[i].name>>,
               GoTypes[specs[i].tag], specs[i].to, GoDoc(v))]
GoStep(v) ==
  CASE v.node.kind = "source_file" -> Through(KidsOf(v.node, None))
    [] v.node.kind = "function_declaration" -> Declare(v, Alone("Function"), v.node.to, GoDoc(v))
    [] v.node.kind = "method_declaration" ->
         Declare([v EXCEPT !.ctx = v.node.of], Member("Method", "Method", "::"), v.node.to,
                 GoDoc(v))
    [] v.node.kind = "type_declaration" -> Step(GoTypeSpecs(v), << >>)
    [] OTHER -> Nothing

-----------------------------------------------------------------------------
(* c.rs: struct and enum count with a body only, so a use is no symbol.    *)
NoDoc == << >>
COpaque == {"compound_statement", "field_declaration_list", "enumerator_list"}
CLeaves == [type_definition |-> Alone("TypeAlias"), preproc_def |-> Alone("Macro"),
            preproc_function_def |-> Alone("Macro")]
CTagged == [struct_specifier |-> "Struct", enum_specifier |-> "Enum"]
CStep(v) ==
  CASE v.node.kind = "function_definition" -> Declare(v, Alone("Function"), v.node.to, NoDoc)
    [] v.node.kind \in DOMAIN CTagged ->
         IF HasBody(v.node) THEN Declare(v, Alone(CTagged[v.node.kind]), v.node.to, NoDoc)
         ELSE Nothing
    [] OTHER -> TableStep(v, CLeaves, COpaque, TRUE, v.node.to, NoDoc)

-----------------------------------------------------------------------------
(* cpp.rs: `X::f` outside a class is a method of X (the scope, of).  A      *)
(* named class is a symbol even without body, an anonymous one is looked   *)
(* through, as are namespaces; their container stays the present one.  Only *)
(* classes are given the comment above them: push_symbol stores none.      *)
CppDoc(v) == NearestDoc(v, {"/**", "///"})
CppEnd(n) == HeaderEnd(n, Body(n), OfKinds(Body(n), {"function_definition"}))
CppClasses == [class_specifier |-> "Class", struct_specifier |-> "Struct"]
CppFunction(v) ==
  Declare([v EXCEPT !.ctx = IF v.ctx # None THEN v.ctx ELSE v.node.of],
          Member("Method", "Function", "::"), v.node.to, NoDoc)
CppStep(v) ==
  CASE v.node.kind = "function_definition" -> CppFunction(v)
    [] v.node.kind \in DOMAIN CppClasses ->
         IF Named(v.node) THEN Declare(v, Type(CppClasses[v.node.kind]), CppEnd(v.node), CppDoc(v))
         ELSE Through(BodyKids(v.node, v.ctx))
    [] v.node.kind = "enum_specifier" ->
         IF HasBody(v.node) THEN Declare(v, Alone("Enum"), v.node.to, NoDoc) ELSE Nothing
    [] v.node.kind = "namespace_definition" -> Through(BodyKids(v.node, v.ctx))
    [] OTHER -> TableStep(v, CLeaves, COpaque, TRUE, v.node.to, NoDoc)

-----------------------------------------------------------------------------
(* objc.rs: an @interface is the class, unless a category (tag); the class *)
(* is not told again by its @implementation, but the methods are.  The     *)
(* name of a method is its selector; a typedef that did not parse has none. *)
ObjCDoc(v) == RunDoc(v, Anything)
Methods(v, kind) == Only(v, {kind})
ObjCType(v, kind) ==
  IF ~Named(v.node) THEN Nothing
  ELSE Step(IF v.node.tag = "category" THEN << >>
            ELSE Declare(v, Alone(kind), v.node.to, ObjCDoc(v)).emit,
            Methods(KidsOf(v.node, v.node.name), "method_declaration"))
ObjCImplementation(v) ==
  LET parts == SelectSeq(v.node.kids, LAMBDA k : k.kind = "implementation_definition")
  IN Through(FlattenSeq([i \in DOMAIN parts |->
               Methods(KidsOf(parts[i], v.node.name), "method_definition")]))
ObjCRules ==
  [method_declaration |-> Member("Method", "Method", "::"),
   method_definition |-> Member("Method", "Method", "::"),
   function_definition |-> Alone("Function"), type_definition |-> Alone("TypeAlias")]
ObjCStep(v) ==
  CASE v.node.kind = "class_interface" -> ObjCType(v, "Class")
    [] v.node.kind = "protocol_declaration" -> ObjCType(v, "Interface")
    [] v.node.kind = "class_implementation" -> ObjCImplementation(v)
    [] OTHER -> TableStep(v, ObjCRules, {"compound_statement"}, FALSE, v.node.to, ObjCDoc(v))

-----------------------------------------------------------------------------
(* zig.rs: a variable whose value is a container names a type; containers  *)
(* within containers are told, but not read.                               *)
ZigDoc(v) == RunDoc(v, {"///", "//!"})
ZigContainers ==
  [struct_declaration |-> "Struct", enum_declaration |-> "Enum", union_declaration |-> "Struct",
   error_set_declaration |-> "Enum", opaque_declaration |-> "Struct"]
ZigRules ==
  [function_declaration |-> Member("Method", "Function", "."),
   function_signature |-> Member("Method", "Function", "."),
   test_declaration |-> Alone("Function")]
ZigVariable(v) ==
  LET container == Child(v.node, DOMAIN ZigContainers)
      isType == container # NoNode
      declared(kind) == Declare(v, Alone(kind), v.node.to, ZigDoc(v)).emit
  IN IF ~Named(v.node) \/ (v.ctx # None /\ ~isType) THEN Nothing
     ELSE Step(declared(IF isType THEN ZigContainers[container.kind] ELSE "Const"),
               IF v.ctx = None THEN KidsOf(container, v.node.name) ELSE << >>)
TestNamed(v) ==
  IF v.node.kind = "test_declaration" /\ ~Named(v.node) THEN [v EXCEPT !.node.name = "_"] ELSE v
ZigStep(v) ==
  IF v.node.kind = "variable_declaration" THEN ZigVariable(v)
  ELSE TableStep(TestNamed(v), ZigRules, {"comptime_declaration", "block"}, FALSE, v.node.to,
                 ZigDoc(v))
=============================================================================
