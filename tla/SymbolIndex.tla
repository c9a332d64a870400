----------------------------- MODULE SymbolIndex -----------------------------
(***************************************************************************)
(* The symbol index of a project (index/mod.rs), as the indexer fills it   *)
(* (indexer/mod.rs), the watcher keeps it (reindex_batch) and the tools    *)
(* load it (load_project_index).                                           *)
(*                                                                         *)
(* index is [symbols, lists, graph]: the symbols, one of an id; the lists  *)
(* by file, kind and language, which may hold an id more than once, as     *)
(* [key, id, copy]; and the navigation graph, with the ids it was built of. *)
(***************************************************************************)
EXTENDS Naturals, Sequences, FiniteSets

CONSTANTS
  Files,
  Contents,         (* what a file can hold                                *)
  Absent, Symlink, Oversized,   (* the contents that are not read          *)
  Parse(_, _),      (* the symbols the parser of a file finds in a content *)
  WalkSkips,        (* the files the walk of a full index leaves out       *)
  WatchSkips,       (* the files path_is_excluded refuses to the watcher   *)
  Starts,           (* first disks, each with the number of edits to come  *)
  Writes,           (* the contents an edit may leave, a bound             *)
  MaxFiles          (* the limit of index_project                          *)

Irregular == {Absent, Symlink}
Unread == Irregular \cup {Oversized}

(* The id of a symbol tells its file, kind and language.                   *)
ASSUME ParseAssumption ==
  \A f \in Files, c \in Contents :
    /\ Len(Parse(f, c)) \in Nat /\ DOMAIN Parse(f, c) = 1..Len(Parse(f, c))
    /\ \A i \in DOMAIN Parse(f, c) : Parse(f, c)[i].id.file = f
    /\ c \in Unread => DOMAIN Parse(f, c) = {}
ASSUME StartsAssumption ==
  /\ WalkSkips \subseteq Files /\ WatchSkips \subseteq Files
  /\ \A s \in Starts : s.disk \in [Files -> Contents] /\ s.edits \in Nat
ASSUME WritesAssumption == Writes \subseteq Contents

VARIABLES
  disk,             (* what every file holds                               *)
  dirty,            (* files changed since they were last indexed          *)
  index,            (* the index in memory                                 *)
  saved,            (* index.bin                                           *)
  edits             (* edits left, a bound                                 *)
vars == <<disk, dirty, index, saved, edits>>

-----------------------------------------------------------------------------
NoGraph == [built |-> FALSE, of |-> {}]
Ids(symbols) == {s.id : s \in symbols}
Keys(id) == {<<"file", id.file>>, <<"kind", id.kind>>, <<"language", id.language>>}
NewIndex == [symbols |-> {}, lists |-> {}, graph |-> NoGraph]

(* insert, for the symbols of some files, in the order of each parse: the  *)
(* last of an id is kept and replaces what was there, every one is listed. *)
(* Ids of two files are apart, so the order of the files is no matter.     *)
Kept(parse) ==
  {parse[i] : i \in {k \in DOMAIN parse :
                       \A j \in DOMAIN parse : parse[j].id = parse[k].id => j <= k}}
Listings(parse) ==
  UNION {{[key |-> key, id |-> parse[i].id, copy |-> i] : key \in Keys(parse[i].id)} :
           i \in DOMAIN parse}
Inserted(ix, new, listed) ==
  [symbols |-> {s \in ix.symbols : s.id \notin Ids(new)} \cup new, lists |-> ix.lists \cup listed,
   graph |-> NoGraph]
InsertFiles(ix, fs) ==
  Inserted(ix, UNION {Kept(Parse(f, disk[f])) : f \in fs}, UNION {Listings(Parse(f, disk[f])) : f \in fs})

(* remove_file, for some files: the ids listed under them go wherever they *)
(* are listed, however often.                                              *)
ListedUnder(ix, fs) == {e.id : e \in {x \in ix.lists : \E f \in fs : x.key = <<"file", f>>}}
FaultRemoveOnce(ix, fs) ==
  [symbols |-> {s \in ix.symbols : s.id \notin ListedUnder(ix, fs)},
   lists |-> {e \in ix.lists : e.id \in ListedUnder(ix, fs) => (e.key[1] # "file" /\ e.copy > 1)},
   graph |-> NoGraph]
RemoveFiles(ix, fs) ==
  [symbols |-> {s \in ix.symbols : s.id \notin ListedUnder(ix, fs)},
   lists |-> {e \in ix.lists : e.id \notin ListedUnder(ix, fs)},
   graph |-> NoGraph]

(* rebuild_secondary_indexes lists every symbol once.                      *)
Relist(symbols) ==
  UNION {{[key |-> key, id |-> s.id, copy |-> 1] : key \in Keys(s.id)} : s \in symbols}
Rebuilt(ix) == [ix EXCEPT !.graph = [built |-> TRUE, of |-> Ids(ix.symbols)]]

(* load_project_index: symbols whose file is no regular file any more are  *)
(* dropped, and then the lists are made again and the graph is lost.       *)
Regular(f) == disk[f] \notin Irregular
Loaded(ix) ==
  LET kept == {s \in ix.symbols : Regular(s.id.file)}
  IN [symbols |-> kept, lists |-> Relist(kept),
      graph |-> IF kept = ix.symbols THEN ix.graph ELSE NoGraph]

-----------------------------------------------------------------------------
Init ==
  /\ \E s \in Starts : disk = s.disk /\ edits = s.edits
  /\ dirty = Files
  /\ index = NewIndex
  /\ saved = NewIndex

(* A file is written, deleted, made a symbolic link, grown too large.      *)
Edit(f, c) ==
  /\ edits > 0 /\ c # disk[f]
  /\ disk' = [disk EXCEPT ![f] = c]
  /\ dirty' = dirty \cup {f}
  /\ edits' = edits - 1
  /\ UNCHANGED <<index, saved>>

(* index_project_with_progress: beyond MaxFiles it is an error.            *)
Eligible == {f \in Files \ WalkSkips : disk[f] \notin Unread}
FullIndex ==
  /\ Cardinality(Eligible) <= MaxFiles
  /\ index' = Rebuilt(InsertFiles(NewIndex, Eligible))
  /\ saved' = index'
  /\ dirty' = {}
  /\ UNCHANGED <<disk, edits>>

(* reindex_batch: a path that is excluded is dropped, any other is dropped *)
(* and read again; then the graph is rebuilt, once, and the index saved.   *)
FaultSkipsGone(batch) ==
  LET there == {f \in batch : Regular(f)}
  IN Rebuilt(InsertFiles(RemoveFiles(index, there), there \ WatchSkips))
Reindexed(batch) == Rebuilt(InsertFiles(RemoveFiles(index, batch), batch \ WatchSkips))
Flush ==
  /\ saved # NewIndex
  /\ \E batch \in (SUBSET dirty) \ {{}} : /\ index' = Reindexed(batch)
                                        /\ dirty' = dirty \ batch
  /\ saved' = index'
  /\ UNCHANGED <<disk, edits>>

(* A server starts, or its cache was invalidated.                          *)
Load ==
  /\ saved # NewIndex
  /\ index' = Loaded(saved)
  /\ UNCHANGED <<disk, dirty, saved, edits>>

Next ==
  \/ \E f \in Files, c \in Writes : Edit(f, c)
  \/ FullIndex
  \/ Flush
  \/ Load
Spec == Init /\ [][Next]_vars

-----------------------------------------------------------------------------
(* The lists tell of the symbols there are and of no other, each under the *)
(* three keys of its id, whatever was inserted twice or removed since      *)
(* (insert, remove_file, rebuild_secondary_indexes); and a graph that      *)
(* counts as built is that of these symbols.                               *)
Consistent(ix) ==
  /\ \A s, t \in ix.symbols : s.id = t.id => s = t
  /\ {<<e.key, e.id>> : e \in ix.lists} =
       UNION {{<<key, id>> : key \in Keys(id)} : id \in Ids(ix.symbols)}
  /\ ix.graph.built => ix.graph.of = Ids(ix.symbols)
IndexConsistent == Consistent(index) /\ Consistent(saved)

(* What is indexed of a file that did not change since is what its parser  *)
(* finds in it now, and nothing when the policy leaves it out: a full      *)
(* index, any series of flushes and a reload come to the same.  Files the  *)
(* walk and the watcher judge differently are another matter.              *)
SymbolsOf(ix, f) == {s \in ix.symbols : s.id.file = f}
IndexMatchesDisk ==
  \A f \in Files \ dirty :
    (f \in WalkSkips <=> f \in WatchSkips) =>
      SymbolsOf(index, f) = IF f \in WalkSkips THEN {} ELSE Kept(Parse(f, disk[f]))
=============================================================================
