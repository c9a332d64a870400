------------------------------ MODULE UsagePages ------------------------------
(***************************************************************************)
(* find_usages.rs, find_callers.rs, find_callees.rs, search_content.rs,    *)
(* search_files.rs: a client takes an answer page by page, each page a     *)
(* call of its own that collects from the beginning and stops when it has  *)
(* enough, while the files may change under it, and the session that ranks *)
(* files does.  A usage is an identifier of the syntax tree, and files     *)
(* that are not indexed are searched too.                                  *)
(*                                                                         *)
(* A file is whether it is a regular one, whether its extension is         *)
(* supported, its lines, and its blocks: one for a source file, one for    *)
(* each script of a Svelte component, with where it begins, the names its  *)
(* bytes hold and the leaves of its tree, each with its place in the block *)
(* and, to compare with, in the file; and whether its bytes are UTF-8.     *)
(***************************************************************************)
EXTENDS ExecutionPath, SearchPages

CONSTANTS ByPath,       (* the files by their path from the root           *)
          ByWalk,       (* and as a walk sorted by file name meets them    *)
          Trees,        (* the files there are, and those of the index     *)
          Asked(_),     (* what is asked of a project and a tree           *)
          Searches,     (* what is searched for                            *)
          Sessions,     (* and what was asked before                       *)
          Rewrites(_),  (* what an edit makes of a file                    *)
          MaxEdits

VARIABLES tree, listed, cursor, edits, session
pageVars == <<tree, listed, cursor, edits, session>>

NoTree == << >>
NoCursor == [pc |-> "idle"]

-----------------------------------------------------------------------------
(* search_file_ast, search_svelte_file_ast: lines and columns from one, the *)
(* first line of a script counted from where the script begins.            *)
Identifiers == {"identifier", "type_identifier", "field_identifier"}
Place(block, leaf) ==
  <<block.row + leaf.row + 1, leaf.col + 1 + (IF leaf.row = 0 THEN block.col ELSE 0)>>
(* What is not UTF-8 is an empty text to the search, and holds no name.    *)
SaidIn(file, block) == IF file.utf8 THEN block.says ELSE {}
PlacesIn(file, name) ==
  UNION {{Place(b, leaf) : leaf \in {x \in b.leaves : x.kind \in Identifiers /\ x.name = name}} :
           b \in {x \in ToSet(file.blocks) : name \in SaidIn(file, x)}}
(* Bytes as their leaves have them: the names are in them, in their places. *)
WellFormed(file) ==
  /\ file.lines \in Seq(ToSet(file.lines)) /\ file.blocks \in Seq(ToSet(file.blocks))
  /\ \A b \in ToSet(file.blocks) :
       /\ IsFiniteSet(b.leaves) /\ b.row \in Nat /\ b.col \in Nat
       /\ \A x \in b.leaves : x.row \in Nat /\ x.col \in Nat /\ x.name \in b.says /\ x.at = Place(b, x)
(* The walks and the orders know the files, which are of a tree or not.    *)
ASSUME TreesAssumption ==
  /\ \A list \in {ByPath, ByWalk, ByName} :
       list \in Seq(ToSet(ByWalk)) /\ IsInjective(list) /\ ToSet(list) = ToSet(ByWalk)
  /\ \A t \in Trees :
       /\ DOMAIN t.tree = ToSet(ByWalk) /\ t.listed \subseteq DOMAIN t.tree
       /\ \A f \in DOMAIN t.tree : WellFormed(t.tree[f])
  /\ \A f \in ToSet(ByWalk) : \A file \in Rewrites(f) : WellFormed(file)
Earlier(a, b) == a[1] < b[1] \/ (a[1] = b[1] /\ a[2] < b[2])
SearchFile(f, name) ==
  IF tree[f].is # "regular" THEN << >>
  ELSE LET places == Ordered(PlacesIn(tree[f], name), Earlier)
       IN [i \in DOMAIN places |-> [file |-> f, place |-> places[i]]]

ShouldSearch(f, scope) ==
  tree[f].is \in {"regular", "oversized"} /\ tree[f].supported /\ f \in scope

-----------------------------------------------------------------------------
(* A page: skip the offset, take the limit.                                *)
Page(list, c) == SubSeq(list, c.offset + 1, Min({c.offset + c.limit, Len(list)}))
Turn(c, page, truncated) ==
  [c EXCEPT !.pc = IF truncated THEN "more" ELSE "done", !.told = Append(@, page),
            !.offset = IF truncated THEN @ + c.limit ELSE @, !.usages = << >>, !.todo = << >>, !.searched = {}]

(* find_usages: the files of the index by their path, the one that defines *)
(* the symbol at the head.                                                 *)
IndexedFiles(c) ==
  Ordered({f \in listed : ShouldSearch(f, c.scope)},
          LAMBDA a, b : \/ a = c.file /\ b # c.file
                        \/ b # c.file /\ PositionIn(ByPath, a) < PositionIn(ByPath, b))
Enough(c) == Len(c.usages) >= c.offset + c.limit
AskUsages ==
  /\ cursor.pc \in {"asked", "more"} /\ cursor.tool = "usages"
  /\ cursor' = [cursor EXCEPT !.pc = "indexed", !.todo = IndexedFiles(cursor)]
  /\ UNCHANGED <<vars, tree, listed, edits, session>>
FaultReadIndexed ==
  /\ cursor.pc = "indexed" /\ cursor.todo # << >> /\ ~Enough(cursor)
  /\ cursor' = [cursor EXCEPT !.todo = Tail(@),
                  !.usages = @ \o SearchFile(Head(cursor.todo), cursor.name)]
  /\ UNCHANGED <<vars, tree, listed, edits, session>>
ReadIndexed ==
  /\ cursor.pc = "indexed" /\ cursor.todo # << >> /\ ~Enough(cursor)
  /\ cursor' = [cursor EXCEPT !.todo = Tail(@), !.searched = @ \cup {Head(cursor.todo)},
                  !.usages = @ \o SearchFile(Head(cursor.todo), cursor.name)]
  /\ UNCHANGED <<vars, tree, listed, edits, session>>
(* Then whatever a walk meets that was not searched yet.                   *)
StartWalk ==
  /\ cursor.pc = "indexed" /\ cursor.todo = << >> /\ ~Enough(cursor)
  /\ cursor' = [cursor EXCEPT !.pc = "walk", !.todo = ByWalk]
  /\ UNCHANGED <<vars, tree, listed, edits, session>>
ReadWalked ==
  /\ cursor.pc = "walk" /\ cursor.todo # << >> /\ ~Enough(cursor)
  /\ LET f == Head(cursor.todo)
         found == IF ShouldSearch(f, cursor.scope) /\ f \notin cursor.searched
                  THEN SearchFile(f, cursor.name) ELSE << >>
     IN cursor' = [cursor EXCEPT !.todo = Tail(@), !.usages = @ \o found]
  /\ UNCHANGED <<vars, tree, listed, edits, session>>
TellUsages ==
  /\ cursor.pc \in {"indexed", "walk"}
  /\ Enough(cursor) \/ (cursor.pc = "walk" /\ cursor.todo = << >>)
  /\ cursor' = Turn(cursor, Page(cursor.usages, cursor), Enough(cursor))
  /\ UNCHANGED <<vars, tree, listed, edits, session>>

(* find_callers keeps the scope, find_callees has none; both by falling     *)
(* confidence, and in some order, the same each time, where that ties.     *)
Falling(refs) ==
  CHOOSE s \in [1..Cardinality(refs) -> refs] :
    \A i, j \in DOMAIN s : i < j => s[i] # s[j] /\ s[i].confidence >= s[j].confidence
References(c) ==
  Falling(IF c.tool = "callers"
          THEN {r \in IncomingCallableReferences(SymbolOf(c.id)) : SymbolOf(r.id).file \in c.scope}
          ELSE DirectCallableReferences(SymbolOf(c.id)))
TellPage(list) ==
  cursor' = Turn(cursor, Page(list, cursor), Len(list) > cursor.offset + cursor.limit)
TellReferences ==
  /\ cursor.pc \in {"asked", "more"} /\ cursor.tool \in {"callers", "callees"}
  /\ TellPage(References(cursor))
  /\ UNCHANGED <<vars, tree, listed, edits, session>>

(* search_content: the walk, then file by file in the order of their       *)
(* paths, until a line is found that the page has no room for.  A file     *)
(* that is gone by then fails the call.                                    *)
SearchedFiles(q) == InTurn(ByWalk, {f \in DOMAIN tree : Searchable(f, tree[f], q, DOMAIN tree)})
AskContent ==
  /\ cursor.pc \in {"asked", "more"} /\ cursor.tool = "content"
  /\ cursor' = IF Mode(cursor.query) = "refused" THEN [cursor EXCEPT !.pc = "failed"]
               ELSE [cursor EXCEPT !.pc = "content", !.skipped = 0, !.todo = SearchedFiles(cursor.query)]
  /\ UNCHANGED <<vars, tree, listed, edits, session>>
Found(c) == MatchesIn(Head(c.todo), tree[Head(c.todo)].lines, c.query)
ReadContent ==
  /\ cursor.pc = "content" /\ cursor.todo # << >>
  /\ LET skip == Min({Len(Found(cursor)), cursor.offset - cursor.skipped})
         fresh == SubSeq(Found(cursor), skip + 1, Len(Found(cursor)))
         room == cursor.limit - Len(cursor.usages)
     IN cursor' =
          IF tree[Head(cursor.todo)].is \notin {"regular", "oversized"} THEN [cursor EXCEPT !.pc = "failed"]
          ELSE IF Len(fresh) > room
          THEN Turn(cursor, cursor.usages \o SubSeq(fresh, 1, room), TRUE)
          ELSE [cursor EXCEPT !.todo = Tail(@), !.skipped = @ + skip, !.usages = @ \o fresh]
  /\ UNCHANGED <<vars, tree, listed, edits, session>>
TellContent ==
  /\ cursor.pc = "content" /\ cursor.todo = << >>
  /\ cursor' = Turn(cursor, cursor.usages, FALSE)
  /\ UNCHANGED <<vars, tree, listed, edits, session>>

(* search_files: the walk and the ranking; the session then remembers the  *)
(* question and what was told, and the next page is ranked anew.           *)
TellFiles ==
  /\ cursor.pc \in {"asked", "more"} /\ cursor.tool = "files"
  /\ LET q == cursor.query
         found == CollectFiles(tree, q)
         page == Page(RankedFiles(session, q, found), cursor)
     IN IF ~Accepted(q) THEN cursor' = [cursor EXCEPT !.pc = "failed"] /\ UNCHANGED session
        ELSE /\ cursor' = Turn(cursor, page, cursor.offset + Len(page) < Cardinality(found))
             /\ session' = RecordFiles(RecordQuery(Looked(session, 2 * Cardinality(found)), q.tokens), page)
  /\ UNCHANGED <<vars, tree, listed, edits>>

Rewrite(f) ==
  /\ cursor.pc \notin {"done", "failed"} /\ edits < MaxEdits
  /\ \E file \in Rewrites(f) : file # tree[f] /\ tree' = [tree EXCEPT ![f] = file]
  /\ cursor' = [cursor EXCEPT !.edited = TRUE]
  /\ edits' = edits + 1
  /\ UNCHANGED <<vars, listed, session>>

-----------------------------------------------------------------------------
(* The navigation tools over one project: a trace, or an answer by pages.   *)
ASSUME AskedAssumption ==
  /\ \A p \in Projects : \A q \in Asked(p) :
       q.tool \in {"usages", "callers", "callees"} /\ q.limit \in Nat /\ \E s \in p.symbols : s.id = q.id
  /\ \A q \in Searches : q.tool \in {"content", "files"} /\ q.limit \in Nat
(* Sizes are numbers, names have their tokens, and a path from the root    *)
(* begins otherwise than the path of the root.                             *)
ASSUME SearchAssumption ==
  /\ MaxQueries \in Nat \ {0} /\ Root \in Seq(ToSet(Root)) /\ Root # << >>
  /\ \A f \in ToSet(ByWalk) :
       LET file == FileOf(f)
       IN /\ file.path \in Seq(ToSet(file.path)) /\ file.path # << >> /\ file.path[1] # Root[1]
          /\ \A name \in ToSet(Root) \cup ToSet(file.path) : TokensOf(name) \in Seq(ToSet(TokensOf(name)))
          /\ file.nameWidth \in Nat /\ file.pathWidth \in Nat
          /\ IsFiniteSet(file.nameGrams) /\ IsFiniteSet(file.pathGrams)
  /\ \A f \in DOMAIN Profile.roles : Profile.roles[f] \in DOMAIN Roles!RoleWorth
  /\ \A s \in Sessions : Remembers(s)
  /\ \A q \in {x \in Searches : x.tool = "files"} :
       /\ q.tokens \in Seq(ToSet(q.tokens)) /\ IsFiniteSet(q.grams)
       /\ \A f \in ToSet(ByWalk) : q.at[f].name \subseteq Nat /\ q.at[f].path \subseteq Nat
Paging ==
  /\ project \in {p \in Projects : Asked(p) # {}}
  /\ request = None /\ phase = "paging" /\ edits = 0
  /\ pending = {} /\ frontier = {} /\ best = << >> /\ parent = << >>
  /\ nodes = << >> /\ edges = {} /\ answer = None
PagesInit ==
  /\ Paging /\ session = ForgetfulSession
  /\ graph \in {Unbuilt, BuildNavigationGraph}
  /\ \E t \in Trees : tree = t.tree /\ listed = t.listed
  /\ cursor \in {[pc |-> "asked", tool |-> q.tool, id |-> q.id, name |-> q.name, file |-> q.file,
                  scope |-> q.scope, limit |-> q.limit, offset |-> 0, todo |-> << >>, searched |-> {},
                  usages |-> << >>, told |-> << >>, edited |-> FALSE] : q \in Asked(project)}
  /\ cursor.tool = "usages" => graph = Unbuilt
(* A search asks nothing of the index or its graph, one for contents       *)
(* nothing of the session.  It is steady when the session has nothing to   *)
(* tell of its files but what the question itself will add.                *)
Steady(q) ==
  \A f \in DOMAIN tree :
    LET path == Root \o FileOf(f).path
        tokens == PathTokens(path)
    IN /\ RecencyBoost(session, path) = 0
       /\ QueryOverlapBoost(session.queries, tokens) = QueryOverlapBoost(<<[tokens |-> q.tokens]>>, tokens)
SearchInit ==
  /\ Paging /\ session \in Sessions
  /\ tree \in {t.tree : t \in Trees} /\ listed = {} /\ graph = Unbuilt
  /\ cursor \in {[pc |-> "asked", tool |-> q.tool, query |-> q, limit |-> q.limit, offset |-> 0,
                  todo |-> << >>, searched |-> {}, skipped |-> 0, usages |-> << >>, told |-> << >>,
                  edited |-> FALSE, steady |-> q.tool = "files" /\ Steady(q)] :
                   q \in {x \in Searches : x.tool = "files" \/ session = ForgetfulSession}}
TraceInit ==
  Init /\ tree = NoTree /\ listed = {} /\ cursor = NoCursor /\ edits = 0 /\ session = ForgetfulSession

NavigationInit == TraceInit \/ PagesInit \/ SearchInit
NavigationNext ==
  \/ Next /\ UNCHANGED pageVars
  \/ AskUsages \/ ReadIndexed \/ StartWalk \/ ReadWalked \/ TellUsages \/ TellReferences
  \/ AskContent \/ ReadContent \/ TellContent \/ TellFiles
  \/ \E f \in DOMAIN tree : Rewrite(f)
NavigationSpec == NavigationInit /\ [][NavigationNext]_<<vars, pageVars>>

-----------------------------------------------------------------------------
(* Once the last page is told, the pages together are the whole answer,    *)
(* each part of it once:                                                   *)
(*   every identifier of the name in a searchable UTF-8 file of the scope, *)
(*   indexed or not, those of the defining file first when it is indexed,  *)
(*   and none of a file that is not UTF-8;                                 *)
(*   every caller or callee by falling confidence;                         *)
(*   every line of a searchable file that holds what is looked for, by     *)
(*   file and line;                                                        *)
(*   every file whose name answers, best first, when the search is steady. *)
(* And while files change, no page tells a place twice                     *)
(* (find_usages, find_callers, find_callees, search_content,               *)
(* search_files).                                                          *)
Told1(c) == FlattenSeq(c.told)
LeavesOf(f) == UNION {b.leaves : b \in ToSet(tree[f].blocks)}
Usages(c) ==
  UNION {{[file |-> f, place |-> leaf.at] :
            leaf \in {x \in LeavesOf(f) : x.kind \in Identifiers /\ x.name = c.name}} :
           f \in {x \in DOMAIN tree : /\ tree[x].is = "regular" /\ tree[x].utf8
                                      /\ ShouldSearch(x, c.scope)}}
UsagesTold(c, told) ==
  /\ ToSet(told) = Usages(c)
  /\ c.file \in listed => \A i, j \in DOMAIN told :
       told[j].file = c.file /\ i < j => told[i].file = c.file
ReferencesTold(c, told) ==
  /\ told = References(c)
  /\ \A i, j \in DOMAIN told : i < j => told[i].confidence >= told[j].confidence
LinesHeld(q) ==
  UNION {{<<f, i>> : i \in {x \in DOMAIN tree[f].lines : Columns(q, tree[f].lines[x]) # {}}} :
           f \in {x \in DOMAIN tree : Searchable(x, tree[x], q, DOMAIN tree)}}
ContentTold(c, told) ==
  LET walked(f) == CHOOSE i \in DOMAIN ByWalk : ByWalk[i] = f
  IN /\ {<<m.file, m.line>> : m \in ToSet(told)} = LinesHeld(c.query)
     /\ \A i, j \in DOMAIN told : i < j =>
          \/ walked(told[i].file) < walked(told[j].file)
          \/ told[i].file = told[j].file /\ told[i].line < told[j].line
FilesTold(c, told) ==
  c.steady =>
    /\ ToSet(told) = {f \in DOMAIN tree : Locatable(f, tree[f], c.query) /\ NameScores(f, c.query) # {}}
    /\ \A i, j \in DOMAIN told : i < j =>
         FileScore(session, c.query, told[i]) >= FileScore(session, c.query, told[j])
PagesTellAll ==
  cursor # NoCursor =>
    /\ \A i \in DOMAIN cursor.told : IsInjective(cursor.told[i])
    /\ cursor.pc = "done" /\ ~cursor.edited =>
         LET told == Told1(cursor)
         IN /\ cursor.tool # "files" \/ cursor.steady => IsInjective(told)
            /\ CASE cursor.tool = "usages" -> UsagesTold(cursor, told)
                 [] cursor.tool = "content" -> ContentTold(cursor, told)
                 [] cursor.tool = "files" -> FilesTold(cursor, told)
                 [] OTHER -> ReferencesTold(cursor, told)
=============================================================================
