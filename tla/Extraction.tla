----------------------------- MODULE Extraction ------------------------------
(***************************************************************************)
(* LanguageParser::extract_symbols of the nineteen parsers: the symbols of *)
(* a syntax tree, in the order the parser tells them, and the ids the      *)
(* indexer files them under.                                               *)
(***************************************************************************)
EXTENDS ExtractCurly, ExtractNative, ExtractScript

Languages == {"rust", "python", "javascript", "typescript", "svelte", "c", "cpp", "go", "java",
              "csharp", "bash", "ruby", "swift", "objc", "php", "zig", "kotlin", "lua", "solidity"}

(* registry.rs: the parser of a language.                                  *)
StepOf(lang, v) ==
  CASE lang = "rust" -> RustStep(v)
    [] lang = "go" -> GoStep(v)
    [] lang = "c" -> CStep(v)
    [] lang = "cpp" -> CppStep(v)
    [] lang = "objc" -> ObjCStep(v)
    [] lang = "zig" -> ZigStep(v)
    [] lang = "java" -> JavaStep(v)
    [] lang = "csharp" -> CSharpStep(v)
    [] lang = "kotlin" -> KotlinStep(v)
    [] lang = "swift" -> SwiftStep(v)
    [] lang = "php" -> PhpStep(v)
    [] lang = "solidity" -> SolidityStep(v)
    [] lang = "python" -> PythonStep(v)
    [] lang = "ruby" -> RubyStep(v)
    [] lang = "lua" -> LuaStep(v)
    [] lang = "bash" -> BashStep(v)
    [] lang = "javascript" -> JsStep(v)
    [] lang = "typescript" -> TsStep(v)

RECURSIVE Walk(_, _), WalkAll(_, _)
Emitted(lang, step) == step.emit \o WalkAll(lang, step.visits)
Walk(lang, v) == Emitted(lang, StepOf(lang, v))
WalkAll(lang, visits) ==
  IF visits = << >> THEN << >> ELSE Walk(lang, Head(visits)) \o WalkAll(lang, Tail(visits))

(* svelte.rs, collect_script_blocks                                        *)
RECURSIVE ScriptElements(_)
ScriptElements(n) ==
  (IF n.kind = "script_element" /\ SvelteBlock(n) # NoNode THEN <<n>> ELSE << >>)
  \o FlattenSeq([i \in DOMAIN n.kids |-> ScriptElements(n.kids[i])])

SvelteSymbols(root) ==
  LET elements == ScriptElements(root)
      told(element) ==
        LET block == SvelteBlock(element)
            symbols == Walk(ScriptLanguage(element), Program(block))
        IN [i \in DOMAIN symbols |-> Shifted(symbols[i], block.at - 1)]
  IN FlattenSeq([i \in DOMAIN elements |-> told(elements[i])])

Extract(lang, root) ==
  IF lang = "svelte" THEN SvelteSymbols(root)
  ELSE Walk(lang, [node |-> root, ctx |-> None, before |-> << >>])

(* indexer/language.rs, make_symbol_id: file, qualified name and kind; the *)
(* language goes with the file.                                            *)
SymbolId(file, lang, symbol) ==
  [file |-> file, qualified |-> symbol.qualified, kind |-> symbol.kind, language |-> lang]
=============================================================================
