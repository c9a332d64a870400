--------------------------- MODULE SymbolIndex_proof ---------------------------
(***************************************************************************)
(* Proofs about the symbols: about SymbolIndex, that its lists tell of its *)
(* symbols and that what is indexed of a file is what its parser finds in  *)
(* it, for every set of files, every parser and every exclusion policy;    *)
(* and about what is told over an index, that the navigation graph answers *)
(* as a reading of the text does, that the impact of a change is founded   *)
(* on its edges and that no edit goes unseen (ChangeImpact), for all       *)
(* revisions and questions.                                                *)
(*                                                                         *)
(* The index is shown element by element: what insert, remove_file and     *)
(* rebuild_secondary_indexes do to the symbols and to the lists of one     *)
(* file.  That the last symbol of an id is always kept is a fact about     *)
(* finite sets of positions.  How impact and edits are shown is said where *)
(* each begins.                                                            *)
(***************************************************************************)
EXTENDS SymbolIndex, ChangeImpact, CallGraph_proof, SequenceTheorems, FiniteSetTheorems, WellFoundedInduction, TLAPS

Unique(symbols) == \A s, t \in symbols : s.id = t.id => s = t
InFiles(symbols) == \A s \in symbols : s.id.file \in Files
ListsTell(symbols, lists) ==
  \A e \in lists : \E s \in symbols : e.id = s.id /\ e.key \in Keys(s.id)
SymbolsListed(symbols, lists) ==
  \A s \in symbols : \A key \in Keys(s.id) : \E e \in lists : e.key = key /\ e.id = s.id
Good(symbols, lists) ==
  Unique(symbols) /\ InFiles(symbols) /\ ListsTell(symbols, lists) /\ SymbolsListed(symbols, lists)

Sound(ix) ==
  /\ Good(ix.symbols, ix.lists)
  /\ ix.graph.built => ix.graph.of = Ids(ix.symbols)

Wanted(f) == IF f \in WalkSkips THEN {} ELSE Kept(Parse(f, disk[f]))
Of(symbols, f) == {s \in symbols : s.id.file = f}
Matches(ix) ==
  \A f \in Files \ dirty : (f \in WalkSkips <=> f \in WatchSkips) => Of(ix.symbols, f) = Wanted(f)

DiskOK == disk \in [Files -> Contents] /\ dirty \subseteq Files
IInv == DiskOK /\ Sound(index) /\ Sound(saved) /\ Matches(index) /\ Matches(saved)

-----------------------------------------------------------------------------
\* The ids of what a parse lists are those of what is kept of it.
LEMMA LastKept ==
  ASSUME NEW f \in Files, NEW c \in Contents, NEW i \in DOMAIN Parse(f, c)
  PROVE  \E s \in Kept(Parse(f, c)) : s.id = Parse(f, c)[i].id
<1> DEFINE p == Parse(f, c)
           D == {k \in DOMAIN p : p[k].id = p[i].id}
<1>1. DOMAIN p = 1 .. Len(p) /\ Len(p) \in Nat
  BY ParseAssumption
<1>2. D \in SUBSET Nat /\ D # {} /\ IsFiniteSet(D)
  <2>1. IsFiniteSet(1 .. Len(p))
    BY <1>1, FS_Interval
  <2>2. D \in SUBSET (1 .. Len(p))
    BY <1>1
  <2> QED
    BY <1>1, <2>1, <2>2, FS_Subset
<1>3. PICK k \in D : \A j \in D : j <= k
  <2> HIDE DEF D
  <2> QED
    BY <1>2, GreatestExists
<1>4. p[k] \in Kept(p) /\ p[k].id = p[i].id
  BY <1>3 DEF Kept
<1> QED
  BY <1>4

\* What a parse lists tells of what is kept of it, and of its own file.
LEMMA ParseFacts ==
  ASSUME NEW f \in Files, NEW c \in Contents
  PROVE  /\ Unique(Kept(Parse(f, c)))
         /\ \A s \in Kept(Parse(f, c)) : s.id.file = f
         /\ ListsTell(Kept(Parse(f, c)), Listings(Parse(f, c)))
         /\ SymbolsListed(Kept(Parse(f, c)), Listings(Parse(f, c)))
         /\ c \in Unread => Kept(Parse(f, c)) = {}
<1> DEFINE p == Parse(f, c)
<1>1. DOMAIN p = 1 .. Len(p) /\ Len(p) \in Nat /\ \A i \in DOMAIN p : p[i].id.file = f
  BY ParseAssumption
<1>2. Unique(Kept(p))
  <2> SUFFICES ASSUME NEW i \in DOMAIN p, NEW k \in DOMAIN p, p[i].id = p[k].id,
                      \A j \in DOMAIN p : p[j].id = p[i].id => j <= i,
                      \A j \in DOMAIN p : p[j].id = p[k].id => j <= k
               PROVE  p[i] = p[k]
    BY DEF Unique, Kept
  <2>1. i <= k /\ k <= i /\ i \in Nat /\ k \in Nat
    BY <1>1
  <2> QED
    BY <2>1
<1>3. \A s \in Kept(p) : s.id.file = f
  BY <1>1 DEF Kept
<1>4. ListsTell(Kept(p), Listings(p))
  <2> SUFFICES ASSUME NEW i \in DOMAIN p, NEW key \in Keys(p[i].id)
               PROVE  \E s \in Kept(p) : p[i].id = s.id /\ key \in Keys(s.id)
    BY DEF ListsTell, Listings
  <2> QED
    BY LastKept
<1>5. SymbolsListed(Kept(p), Listings(p))
  <2> SUFFICES ASSUME NEW i \in DOMAIN p, NEW key \in Keys(p[i].id)
               PROVE  \E e \in Listings(p) : e.key = key /\ e.id = p[i].id
    BY DEF SymbolsListed, Kept
  <2>1. [key |-> key, id |-> p[i].id, copy |-> i] \in Listings(p)
    BY DEF Listings
  <2> QED
    BY <2>1
<1>6. c \in Unread => Kept(p) = {}
  BY ParseAssumption DEF Kept
<1> QED
  BY <1>2, <1>3, <1>4, <1>5, <1>6

-----------------------------------------------------------------------------
\* A symbol is listed under its file, and under no other.
LEMMA FileKey ==
  ASSUME NEW id, NEW f
  PROVE  <<"file", f>> \in Keys(id) <=> f = id.file
  BY DEF Keys

\* What is listed under some files is what is of them.
LEMMA ListedAre ==
  ASSUME NEW ix, Good(ix.symbols, ix.lists), NEW fs
  PROVE  /\ \A s \in ix.symbols : s.id \in ListedUnder(ix, fs) <=> s.id.file \in fs
         /\ \A e \in ix.lists : e.id \in ListedUnder(ix, fs) => e.id.file \in fs
<1>1. ASSUME NEW e \in ix.lists, NEW f \in fs, e.key = <<"file", f>> PROVE e.id.file = f
  BY <1>1, FileKey DEF Good, ListsTell
<1>2. ASSUME NEW s \in ix.symbols, s.id.file \in fs
      PROVE  \E e \in ix.lists : e.key = <<"file", s.id.file>> /\ e.id = s.id
  BY <1>2, FileKey DEF Good, SymbolsListed
<1> QED
  BY <1>1, <1>2, ZenonT(60) DEF ListedUnder

\* remove_file takes the symbols of the files, and those only.
LEMMA RemoveGood ==
  ASSUME NEW ix, Good(ix.symbols, ix.lists), NEW fs
  PROVE  LET new == RemoveFiles(ix, fs)
         IN /\ Good(new.symbols, new.lists)
            /\ \A f : Of(new.symbols, f) = IF f \in fs THEN {} ELSE Of(ix.symbols, f)
<1> DEFINE new == RemoveFiles(ix, fs)
<1>1. new.symbols = {s \in ix.symbols : s.id.file \notin fs}
  BY ListedAre DEF RemoveFiles
<1>2. new.lists = {e \in ix.lists : e.id \notin ListedUnder(ix, fs)}
  BY DEF RemoveFiles
<1>3. Unique(new.symbols) /\ InFiles(new.symbols)
  BY <1>1 DEF Good, Unique, InFiles
<1>4. ListsTell(new.symbols, new.lists)
  BY <1>1, <1>2, ListedAre DEF Good, ListsTell
<1>5. SymbolsListed(new.symbols, new.lists)
  BY <1>1, <1>2, ListedAre DEF Good, SymbolsListed
<1>6. \A f : Of(new.symbols, f) = IF f \in fs THEN {} ELSE Of(ix.symbols, f)
  BY <1>1 DEF Of
<1> QED
  BY <1>3, <1>4, <1>5, <1>6 DEF Good

\* insert, for the symbols of some files.
LEMMA InsertGood ==
  ASSUME DiskOK, NEW ix, Good(ix.symbols, ix.lists), NEW fs \in SUBSET Files
  PROVE  LET new == InsertFiles(ix, fs)
         IN /\ Good(new.symbols, new.lists)
            /\ \A f : f \notin fs => Of(new.symbols, f) = Of(ix.symbols, f)
            /\ \A f \in fs : Of(ix.symbols, f) = {} => Of(new.symbols, f) = Kept(Parse(f, disk[f]))
<1> DEFINE new == InsertFiles(ix, fs)
           kept == UNION {Kept(Parse(f, disk[f])) : f \in fs}
           listed == UNION {Listings(Parse(f, disk[f])) : f \in fs}
           old == {s \in ix.symbols : s.id \notin Ids(kept)}
<1>1. new.symbols = old \cup kept /\ new.lists = ix.lists \cup listed
  BY DEF InsertFiles, Inserted
<1>2. \A f \in fs : disk[f] \in Contents
  BY DEF DiskOK
<1>3. \A s \in kept : s.id.file \in fs /\ s \in Kept(Parse(s.id.file, disk[s.id.file]))
  BY <1>2, ParseFacts
<1>4. Unique(kept) /\ InFiles(kept)
  BY <1>2, <1>3, ParseFacts DEF Unique, InFiles
<1>5. ListsTell(kept, listed)
  BY <1>2, ParseFacts DEF ListsTell
<1>6. SymbolsListed(kept, listed)
  BY <1>2, ParseFacts DEF SymbolsListed
<1>7. Unique(old) /\ InFiles(old) /\ SymbolsListed(old, ix.lists)
  BY DEF Good, Unique, InFiles, SymbolsListed
<1>8. \A s \in old, t \in kept : s.id # t.id
  BY DEF Ids
<1>9. ListsTell(old \cup kept, ix.lists)
  <2> SUFFICES ASSUME NEW e \in ix.lists
               PROVE  \E s \in old \cup kept : e.id = s.id /\ e.key \in Keys(s.id)
    BY DEF ListsTell
  <2>1. PICK s \in ix.symbols : e.id = s.id /\ e.key \in Keys(s.id)
    BY DEF Good, ListsTell
  <2>2. CASE s \in old
    BY <2>1, <2>2
  <2>3. CASE s \notin old
    <3>1. PICK t \in kept : t.id = s.id
      BY <2>3 DEF Ids
    <3> QED
      BY <2>1, <3>1
  <2> QED
    BY <2>2, <2>3
<1> HIDE DEF kept, old, listed
<1>10. Good(old \cup kept, ix.lists \cup listed)
  <2>1. Unique(old \cup kept) /\ InFiles(old \cup kept)
    BY <1>4, <1>7, <1>8 DEF Unique, InFiles
  <2>2. ListsTell(old \cup kept, ix.lists \cup listed)
    BY <1>5, <1>9 DEF ListsTell
  <2>3. SymbolsListed(old \cup kept, ix.lists \cup listed)
    BY <1>6, <1>7 DEF SymbolsListed
  <2> QED
    BY <2>1, <2>2, <2>3 DEF Good
<1>11. ASSUME NEW f, f \notin fs PROVE Of(old \cup kept, f) = Of(ix.symbols, f)
  BY <1>3, <1>11 DEF Of, old, Ids
<1>12. ASSUME NEW f \in fs, Of(ix.symbols, f) = {} PROVE Of(old \cup kept, f) = Kept(Parse(f, disk[f]))
  <2>1. \A s \in old : s.id.file # f
    BY <1>12 DEF old, Of
  <2>2. Kept(Parse(f, disk[f])) \subseteq kept /\ \A s \in Kept(Parse(f, disk[f])) : s.id.file = f
    BY <1>2, ParseFacts DEF kept
  <2> QED
    BY <2>1, <2>2, <1>3 DEF Of
<1> QED
  BY <1>1, <1>10, <1>11, <1>12

\* load_project_index: the lists made again tell of what was kept.
LEMMA LoadGood ==
  ASSUME NEW ix, Sound(ix)
  PROVE  /\ Sound(Loaded(ix))
         /\ \A f : Of(Loaded(ix).symbols, f) = IF Regular(f) THEN Of(ix.symbols, f) ELSE {}
<1> DEFINE kept == {s \in ix.symbols : Regular(s.id.file)}
<1>1. /\ Loaded(ix).symbols = kept /\ Loaded(ix).lists = Relist(kept)
      /\ Loaded(ix).graph = IF kept = ix.symbols THEN ix.graph ELSE NoGraph
  BY DEF Loaded
<1>2. Unique(kept) /\ InFiles(kept)
  BY DEF Sound, Good, Unique, InFiles
<1>3. \A f : Of(kept, f) = IF Regular(f) THEN Of(ix.symbols, f) ELSE {}
  BY DEF Of
<1>4. kept = ix.symbols => (ix.graph.built => ix.graph.of = Ids(kept))
  BY DEF Sound
<1> HIDE DEF kept
<1>5. ListsTell(kept, Relist(kept))
  BY DEF ListsTell, Relist
<1>6. SymbolsListed(kept, Relist(kept))
  <2> SUFFICES ASSUME NEW s \in kept, NEW key \in Keys(s.id)
               PROVE  \E e \in Relist(kept) : e.key = key /\ e.id = s.id
    BY DEF SymbolsListed
  <2>1. [key |-> key, id |-> s.id, copy |-> 1] \in Relist(kept)
    BY DEF Relist
  <2> QED
    BY <2>1
<1>7. ~NoGraph.built
  BY DEF NoGraph
<1> QED
  BY <1>1, <1>2, <1>3, <1>4, <1>5, <1>6, <1>7 DEF Sound, Good

\* Rebuilding the graph makes a good index sound.
LEMMA RebuiltSound ==
  ASSUME NEW symbols, NEW lists, NEW built, Good(symbols, lists)
  PROVE  LET new == Rebuilt([symbols |-> symbols, lists |-> lists, graph |-> built])
         IN Sound(new) /\ new.symbols = symbols
<1> DEFINE ix == [symbols |-> symbols, lists |-> lists, graph |-> built]
<1>1. /\ Rebuilt(ix).symbols = symbols /\ Rebuilt(ix).lists = lists
      /\ Rebuilt(ix).graph = [built |-> TRUE, of |-> Ids(symbols)]
  BY DEF Rebuilt
<1>2. Rebuilt(ix).graph.of = Ids(Rebuilt(ix).symbols)
  BY <1>1
<1> QED
  BY <1>1, <1>2 DEF Sound

\* insert, for some files, and then the graph is built.
LEMMA BuildFacts ==
  ASSUME DiskOK, NEW ix, Good(ix.symbols, ix.lists), NEW fs \in SUBSET Files
  PROVE  LET new == Rebuilt(InsertFiles(ix, fs))
         IN /\ Sound(new)
            /\ \A f : f \notin fs => Of(new.symbols, f) = Of(ix.symbols, f)
            /\ \A f \in fs : Of(ix.symbols, f) = {} => Of(new.symbols, f) = Kept(Parse(f, disk[f]))
<1>1. PICK symbols, lists : InsertFiles(ix, fs) = [symbols |-> symbols, lists |-> lists, graph |-> NoGraph]
  BY DEF InsertFiles, Inserted
<1>2. InsertFiles(ix, fs).symbols = symbols /\ InsertFiles(ix, fs).lists = lists
  BY <1>1
<1>3. Good(symbols, lists)
  BY <1>2, InsertGood
<1>4. Sound(Rebuilt(InsertFiles(ix, fs))) /\ Rebuilt(InsertFiles(ix, fs)).symbols = symbols
  BY <1>1, <1>3, RebuiltSound
<1> QED
  BY <1>2, <1>4, InsertGood

-----------------------------------------------------------------------------
\* The invariant holds at first.
LEMMA InitInv == Init => IInv
<1> SUFFICES ASSUME Init PROVE IInv
  OBVIOUS
<1>1. Sound(NewIndex)
  BY DEF Sound, NewIndex, Good, Unique, InFiles, ListsTell, SymbolsListed, NoGraph
<1>2. Files \ dirty = {}
  BY DEF Init
<1>3. DiskOK
  BY StartsAssumption DEF Init, DiskOK
<1> QED
  BY <1>1, <1>2, <1>3 DEF Init, IInv, Matches

\* A file that was written is dirty; what is indexed of the others stands.
LEMMA EditStep ==
  ASSUME IInv, NEW f \in Files, NEW c \in Writes, Edit(f, c)
  PROVE  IInv'
<1>1. DiskOK'
  BY WritesAssumption DEF IInv, DiskOK, Edit
<1>2. index' = index /\ saved' = saved /\ f \in dirty'
      /\ \A g \in Files \ dirty' : g \in Files \ dirty /\ disk'[g] = disk[g]
  BY DEF IInv, DiskOK, Edit
<1>3. Matches(index)' /\ Matches(saved)'
  BY <1>2 DEF IInv, Matches, Wanted
<1>4. Sound(index)' /\ Sound(saved)'
  BY <1>2 DEF IInv, Sound, Good, Unique, InFiles, ListsTell, SymbolsListed
<1> QED
  BY <1>1, <1>3, <1>4 DEF IInv

\* A run leaves a sound index of the present files.
LEMMA FullIndexStep ==
  ASSUME IInv, FullIndex
  PROVE  IInv'
<1>1. DiskOK /\ disk' = disk /\ dirty' = {} /\ Eligible \in SUBSET Files
  BY DEF IInv, FullIndex, Eligible
<1>2. index' = Rebuilt(InsertFiles(NewIndex, Eligible)) /\ saved' = index'
  BY DEF FullIndex
<1>3. Good(NewIndex.symbols, NewIndex.lists) /\ \A f : Of(NewIndex.symbols, f) = {}
  BY DEF NewIndex, Good, Unique, InFiles, ListsTell, SymbolsListed, Of
<1>4. Sound(index') /\ \A f : Of(index'.symbols, f) = IF f \in Eligible THEN Kept(Parse(f, disk[f])) ELSE {}
  BY <1>1, <1>2, <1>3, BuildFacts
<1>5. ASSUME NEW f \in Files PROVE Of(index'.symbols, f) = Wanted(f)
  <2>1. CASE f \in Eligible
    BY <1>4, <2>1 DEF Eligible, Wanted
  <2>2. CASE f \in WalkSkips
    BY <1>4, <2>2 DEF Eligible, Wanted
  <2>3. CASE f \notin WalkSkips /\ disk[f] \in Unread
    BY <1>1, <1>4, <2>3, ParseFacts DEF Eligible, Wanted, DiskOK
  <2> QED
    BY <2>1, <2>2, <2>3 DEF Eligible
<1>6. Matches(index)' /\ Matches(saved)'
  BY <1>1, <1>2, <1>5 DEF Matches, Wanted
<1>7. Sound(index)' /\ Sound(saved)'
  BY <1>2, <1>4
<1> QED
  BY <1>1, <1>6, <1>7 DEF IInv, DiskOK

\* A flush makes the files of its batch match, and leaves the others alone.
LEMMA FlushStep ==
  ASSUME IInv, Flush
  PROVE  IInv'
<1>1. PICK batch \in SUBSET dirty : index' = Reindexed(batch) /\ dirty' = dirty \ batch
  BY DEF Flush
<1>2. DiskOK /\ disk' = disk /\ saved' = index' /\ Good(index.symbols, index.lists)
  BY DEF IInv, Flush, Sound
<1> DEFINE left == RemoveFiles(index, batch)
           read == batch \ WatchSkips
<1>3. read \in SUBSET Files /\ index' = Rebuilt(InsertFiles(left, read))
  BY <1>1, <1>2 DEF DiskOK, Reindexed
<1>4. /\ Good(left.symbols, left.lists)
      /\ \A f : Of(left.symbols, f) = IF f \in batch THEN {} ELSE Of(index.symbols, f)
  BY <1>2, RemoveGood
<1> HIDE DEF left
<1>5. /\ Sound(index')
      /\ \A f : f \notin read => Of(index'.symbols, f) = Of(left.symbols, f)
      /\ \A f \in read : Of(index'.symbols, f) = Kept(Parse(f, disk[f]))
  BY <1>2, <1>3, <1>4, BuildFacts
<1>6. ASSUME NEW f \in Files \ dirty', f \in WalkSkips <=> f \in WatchSkips
      PROVE  Of(index'.symbols, f) = Wanted(f)
  <2>1. CASE f \in read
    BY <1>5, <1>6, <2>1 DEF Wanted
  <2>2. CASE f \in batch /\ f \in WatchSkips
    BY <1>4, <1>5, <1>6, <2>2 DEF Wanted
  <2>3. CASE f \notin batch
    BY <1>1, <1>4, <1>5, <1>6, <2>3 DEF IInv, Matches
  <2> QED
    BY <2>1, <2>2, <2>3
<1>7. Matches(index)' /\ Matches(saved)'
  BY <1>2, <1>6 DEF Matches, Wanted
<1>8. Sound(index)' /\ Sound(saved)' /\ DiskOK'
  BY <1>1, <1>2, <1>5 DEF DiskOK
<1> QED
  BY <1>7, <1>8 DEF IInv

\* A load drops what is of no regular file: nothing is parsed of those.
LEMMA LoadStep ==
  ASSUME IInv, Load
  PROVE  IInv'
<1>1. index' = Loaded(saved) /\ UNCHANGED <<disk, dirty, saved>> /\ DiskOK /\ Sound(saved) /\ Matches(saved)
  BY DEF IInv, Load
<1>2. /\ Sound(index')
      /\ \A f : Of(index'.symbols, f) = IF Regular(f) THEN Of(saved.symbols, f) ELSE {}
  BY <1>1, LoadGood
<1>3. ASSUME NEW f \in Files, ~Regular(f) PROVE Wanted(f) = {}
  BY <1>1, <1>3, ParseFacts DEF Wanted, Regular, Unread, DiskOK
<1>4. Matches(index)' /\ Matches(saved)'
  BY <1>1, <1>2, <1>3 DEF Matches, Wanted
<1>5. Sound(index)' /\ Sound(saved)' /\ DiskOK'
  BY <1>1, <1>2 DEF DiskOK, Sound, Good, Unique, InFiles, ListsTell, SymbolsListed
<1> QED
  BY <1>4, <1>5 DEF IInv

\* The invariant holds in every reachable state.
LEMMA Invariant == Spec => []IInv
<1>1. ASSUME IInv, [Next]_vars PROVE IInv'
  <2>1. CASE UNCHANGED vars
    BY <1>1, <2>1 DEF vars, IInv, DiskOK, Sound, Good, Unique, InFiles, ListsTell, SymbolsListed,
                      Matches, Wanted
  <2> QED
    BY <1>1, <2>1, EditStep, FullIndexStep, FlushStep, LoadStep DEF Next
<1> QED
  BY <1>1, InitInv, PTL DEF Spec

\* A sound index is consistent.
LEMMA SoundIsConsistent ==
  ASSUME NEW ix, Sound(ix)
  PROVE  Consistent(ix)
<1>1. \A e \in ix.lists : \E s \in ix.symbols : e.id = s.id /\ e.key \in Keys(s.id)
  BY DEF Sound, Good, ListsTell
<1>2. \A s \in ix.symbols : \A key \in Keys(s.id) : \E e \in ix.lists : e.key = key /\ e.id = s.id
  BY DEF Sound, Good, SymbolsListed
<1>3. {<<e.key, e.id>> : e \in ix.lists} \subseteq UNION {{<<key, id>> : key \in Keys(id)} : id \in Ids(ix.symbols)}
  BY <1>1 DEF Ids
<1>4. UNION {{<<key, id>> : key \in Keys(id)} : id \in Ids(ix.symbols)} \subseteq {<<e.key, e.id>> : e \in ix.lists}
  BY <1>2 DEF Ids
<1> QED
  BY <1>3, <1>4 DEF Consistent, Sound, Good, Unique

\* Whatever is inserted twice, removed, saved and loaded, the lists tell of the
\* symbols there are and of no other, and the graph is that of these symbols
\* (index/mod.rs, insert, remove_file and rebuild_secondary_indexes).
THEOREM AlwaysConsistent == Spec => []IndexConsistent
<1>1. IInv => IndexConsistent
  BY SoundIsConsistent DEF IInv, IndexConsistent
<1> QED
  BY <1>1, Invariant, PTL

\* A full index, any series of flushes and a load come to the same: what the
\* parser of a file finds in it now (watcher.rs, reindex_batch).
THEOREM AlwaysMatchesDisk == Spec => []IndexMatchesDisk
<1>1. IInv => IndexMatchesDisk
  BY DEF IInv, Matches, Of, Wanted, SymbolsOf, IndexMatchesDisk
<1> QED
  BY <1>1, Invariant, PTL

-----------------------------------------------------------------------------
(* The walk.  Its invariant: the index is a revision's, a graph is the one *)
(* built of it, and before there is one the walk has not moved.  After, a  *)
(* way lies as many edges from the seeds as it says, what was met is told  *)
(* as it is, and a lone seed has been followed or is the only way there.   *)

\* The index is that of a side of a comparison.
CurrentRevision ==
  /\ comparison \in Comparisons /\ question \in Questions
  /\ \E side \in Sides : project = SnapshotIndex(side)
\* A graph is that of its index.
GraphIsBuilt == graph # Unbuilt => graph = BuildNavigationGraph
\* The walk has not moved.
Begun ==
  /\ frontier = {Way(id, 0, 120, 0) : id \in seeds}
  /\ \A id \in seeds : best[id] = Way(id, 0, 120, 0)
  /\ \A id \in DOMAIN impacted : FALSE
\* Where the ways are.
WaysReach == \A w \in frontier : w.depth \in 0..DepthLimit /\ (Indexed(w.id) => w.id \in Reach(w.depth))
\* What is told of a symbol is so.
Met(id) ==
  /\ impacted[id].distance \in 1..DepthLimit
  /\ id \in Reach(impacted[id].distance)
  /\ MatchesScope(SymbolOf(id))
  /\ \A e \in impacted[id].evidence :
       /\ \E d \in 0..(DepthLimit - 1) : e.via \in Reach(d)
       /\ IF e.direction = "incoming" THEN \E x \in Outgoing(id) : x.to = e.via
          ELSE \E x \in Incoming(id) : x.to = e.via
MetSo == \A id \in DOMAIN impacted : Met(id)
\* The neighbours of the seeds have been met.
Near == \A id \in Reach(1) : id \in DOMAIN impacted /\ impacted[id].distance = 1
\* A lone seed is followed first.
LoneSeed == (\E seed \in seeds : seeds = {seed}) => Begun \/ Near
\* The invariant.
WalkInv ==
  /\ CurrentRevision
  /\ GraphIsBuilt
  /\ stage = "asked" => graph = Unbuilt
  /\ graph = Unbuilt /\ stage \in Sides => Begun
  /\ graph # Unbuilt => WaysReach /\ MetSo /\ LoneSeed

\* An index of a revision is as the readings need it: unique ids, and texts
\* and calls that are sequences.
LEMMA SnapshotIsOK ==
  ASSUME comparison \in Comparisons, NEW side \in Sides, project = SnapshotIndex(side)
  PROVE  ProjectOK
<1> DEFINE files == Revision(side)
           placed == UNION {files[f].symbols : f \in DOMAIN files}
<1>1. /\ \A p, q \in placed : p.symbol.id = q.symbol.id => p = q
      /\ \A f \in DOMAIN files : \A p \in files[f].symbols :
           /\ p.symbol.file = f
           /\ p.first \in DOMAIN files[f].lines /\ p.last \in DOMAIN files[f].lines
      /\ \A f \in DOMAIN files :
           /\ DOMAIN files[f].lines = 1..Len(files[f].lines) /\ Len(files[f].lines) \in Nat
           /\ \A i \in DOMAIN files[f].lines :
                LET calls == files[f].lines[i].calls
                IN DOMAIN calls = 1..Len(calls) /\ Len(calls) \in Nat
  BY ComparisonsAssumption DEF Revision
<1>2. Read(side) \subseteq DOMAIN files
  BY DEF Read
<1>3. AllPlaced(side) \subseteq placed
  BY <1>2 DEF AllPlaced, Placed
<1>4. project.symbols = {p.symbol : p \in AllPlaced(side)}
  BY DEF SnapshotIndex
<1> HIDE DEF placed
<1>5. \A s, t \in project.symbols : s.id = t.id => s = t
  BY <1>1, <1>3, <1>4
<1>6. ASSUME NEW s \in project.symbols, NEW i \in DOMAIN project.text[s.id]
      PROVE  /\ i \in Nat \ {0}
             /\ \A j \in DOMAIN project.text[s.id][i].calls : j \in Nat \ {0}
  <2> DEFINE p == CHOOSE x \in AllPlaced(side) : x.symbol.id = s.id
  <2>1. \E x \in AllPlaced(side) : x.symbol.id = s.id
    BY <1>4
  <2>2. p \in AllPlaced(side) /\ p.symbol.id = s.id
    BY <2>1
  <2>3. PICK f \in Read(side) : p \in Placed(side, f)
    BY <2>2 DEF AllPlaced
  <2>4. p \in files[f].symbols /\ f \in DOMAIN files
    BY <1>2, <2>3 DEF Placed
  <2>5. LinesOf(side, p.symbol.file) = files[f].lines
    BY <1>1, <2>3, <2>4 DEF LinesOf, LinesIn, Read
  <2>6. project.text[s.id] = SubSeq(LinesOf(side, p.symbol.file), p.first, p.last)
    <3>1. s.id \in IdsOf(side)
      BY <2>1 DEF IdsOf
    <3> QED
      BY <3>1 DEF SnapshotIndex
  <2> DEFINE lines == files[f].lines
             first == p.first
             last == p.last
  <2>7. project.text[s.id] = SubSeq(lines, first, last) /\ i \in DOMAIN SubSeq(lines, first, last)
    BY <1>6, <2>5, <2>6
  <2>8. /\ first \in DOMAIN lines /\ last \in DOMAIN lines
        /\ DOMAIN lines = 1..Len(lines) /\ Len(lines) \in Nat
    BY <1>1, <2>4
  <2>9. \A k \in DOMAIN lines : DOMAIN lines[k].calls = 1..Len(lines[k].calls) /\ Len(lines[k].calls) \in Nat
    BY <1>1, <2>4
  <2> HIDE DEF lines, first, last, files, p
  <2>10. i \in Nat \ {0} /\ first + i - 1 \in DOMAIN lines
    BY <2>7, <2>8
  <2>11. project.text[s.id][i] = lines[first + i - 1]
    BY <2>7, <2>8
  <2>12. DOMAIN project.text[s.id][i].calls = 1..Len(project.text[s.id][i].calls)
         /\ Len(project.text[s.id][i].calls) \in Nat
    BY <2>9, <2>10, <2>11
  <2> QED
    BY <2>10, <2>12
<1> QED
  BY <1>5, <1>6 DEF ProjectOK

\* The depth of a question is clamped.
LEMMA DepthOK ==
  ASSUME question \in Questions
  PROVE  DepthLimit \in 1..3
<1>1. question.depth \in Int
  BY QuestionsAssumption
<1> QED
  BY <1>1 DEF DepthLimit, Clamp

\* What lies one edge further.
LEMMA ReachOnward ==
  ASSUME NEW d \in 0..2
  PROVE  Reach(d + 1) = Joint(Reach(d))
<1>1. d = 0 \/ d = 1 \/ d = 2
  OBVIOUS
<1>2. Reach(1) = Joint(Reach(0)) /\ Reach(2) = Joint(Reach(1)) /\ Reach(3) = Joint(Reach(2))
  BY DEF Reach
<1> QED
  BY <1>1, <1>2

\* Edges, scope and reach are those of the index, the graph and the question.
LEMMA AsBefore ==
  ASSUME UNCHANGED <<project, graph, question, seeds>>
  PROVE  /\ DepthLimit' = DepthLimit
         /\ \A id : SymbolOf(id)' = SymbolOf(id) /\ Indexed(id)' = Indexed(id)
         /\ \A id : Incoming(id)' = Incoming(id) /\ Outgoing(id)' = Outgoing(id)
         /\ \A s : MatchesScope(s)' = MatchesScope(s)
         /\ \A d : Reach(d)' = Reach(d)
<1>1. DepthLimit' = DepthLimit
  BY DEF DepthLimit, Clamp
<1>2. \A id : SymbolOf(id)' = SymbolOf(id) /\ Indexed(id)' = Indexed(id)
  BY DEF SymbolOf, Indexed
<1>3. \A id : Incoming(id)' = Incoming(id) /\ Outgoing(id)' = Outgoing(id)
  BY DEF Incoming, Outgoing
<1>4. \A s : MatchesScope(s)' = MatchesScope(s)
  BY DEF MatchesScope
<1>5. \A id : Neighbours(id)' = Neighbours(id)
  BY DEF Neighbours, MatchesScope, SymbolOf, Incoming, Outgoing, Neighbour
<1>6. \A ids : Joint(ids)' = Joint(ids)
  BY <1>5 DEF Joint
<1>7. \A d : Reach(d)' = Reach(d)
  BY <1>2, <1>6 DEF Reach
<1> QED
  BY <1>1, <1>2, <1>3, <1>4, <1>7

\* A neighbour is in the scope, and sees the symbol as its neighbour.
LEMMA EdgeSides ==
  ASSUME ProjectOK, graph # Unbuilt, graph = BuildNavigationGraph, NEW id, Indexed(id), NEW n \in Neighbours(id)
  PROVE  /\ MatchesScope(SymbolOf(n.to))
         /\ IF n.direction = "incoming" THEN \E x \in Outgoing(n.to) : x.to = id
            ELSE \E x \in Incoming(n.to) : x.to = id
<1>1. MatchesScope(SymbolOf(n.to))
  BY DEF Neighbours
<1>2. PICK s \in project.symbols : s.id = id
  BY DEF Indexed
<1>3. \A i : Incoming(i) = graph.incoming[i] /\ Outgoing(i) = graph.outgoing[i]
  BY DEF Incoming, Outgoing
<1>4. \/ n.direction = "incoming" /\ \E e \in graph.incoming[s.id] : n.to = e.to
      \/ n.direction = "outgoing" /\ \E e \in graph.outgoing[s.id] : n.to = e.to
  BY <1>2, <1>3 DEF Neighbours, Neighbour
<1>5. Indexed(n.to)
  BY <1>4, EdgesJoinSymbols
<1>6. PICK t \in project.symbols : t.id = n.to
  BY <1>5 DEF Indexed
<1>7. CASE n.direction = "incoming"
  <2>1. \E e \in graph.incoming[s.id] : e.to = t.id
    BY <1>4, <1>6, <1>7
  <2>2. \E e \in graph.outgoing[t.id] : e.to = s.id
    BY <2>1, BothWays
  <2> QED
    BY <1>1, <1>2, <1>3, <1>6, <1>7, <2>2
<1>8. CASE n.direction = "outgoing"
  <2>1. \E e \in graph.outgoing[s.id] : e.to = t.id
    BY <1>4, <1>6, <1>8
  <2>2. \E e \in graph.incoming[t.id] : e.to = s.id
    BY <2>1, BothWays
  <2> QED
    BY <1>1, <1>2, <1>3, <1>6, <1>8, <2>2
<1> QED
  BY <1>4, <1>7, <1>8

\* What Observe makes of a symbol.
LEMMA ObserveTells ==
  ASSUME NEW way, NEW ns, NEW id \in DOMAIN Observe(way, ns)
  PROVE  \/ id \in DOMAIN impacted /\ Observe(way, ns)[id] = impacted[id]
            /\ ~\E n \in ns : n.to = id
         \/ /\ \E n \in ns : n.to = id
            /\ \/ Observe(way, ns)[id].distance = way.depth + 1
                  /\ (id \in DOMAIN impacted => ~(impacted[id].distance < way.depth + 1))
               \/ id \in DOMAIN impacted /\ Observe(way, ns)[id].distance = impacted[id].distance
                  /\ impacted[id].distance < way.depth + 1
            /\ \A e \in Observe(way, ns)[id].evidence :
                 \/ id \in DOMAIN impacted /\ e \in impacted[id].evidence
                 \/ e.via = way.id /\ \E n \in ns : n.to = id /\ e.direction = n.direction
<1> DEFINE met == {n \in ns : n.to = id}
<1>1. id \in DOMAIN impacted \cup {n.to : n \in ns}
  BY DEF Observe
<1>2. Observe(way, ns)[id] = IF met = {} THEN impacted[id]
                             ELSE IF id \in DOMAIN impacted THEN Joined(impacted[id], Observed(way, met))
                             ELSE Observed(way, met)
  BY <1>1 DEF Observe
<1>3. Observed(way, met).distance = way.depth + 1
  BY DEF Observed
<1>4. \A e \in Observed(way, met).evidence : e.via = way.id /\ \E n \in ns : n.to = id /\ e.direction = n.direction
  <2>1. Observed(way, met).evidence = BestOfEdge({Evidence(way.id, n, ScoreAfter(way, n)) : n \in met})
    BY DEF Observed
  <2>2. \A e \in Observed(way, met).evidence : \E n \in met : e = Evidence(way.id, n, ScoreAfter(way, n))
    BY <2>1 DEF BestOfEdge
  <2> QED
    BY <2>2 DEF Evidence
<1>5. CASE met = {}
  BY <1>1, <1>2, <1>5
<1>6. CASE met # {} /\ id \notin DOMAIN impacted
  BY <1>2, <1>3, <1>4, <1>6
<1>7. CASE met # {} /\ id \in DOMAIN impacted
  <2> DEFINE new == Observed(way, met)
             old == impacted[id]
  <2> HIDE DEF new, old
  <2>1. Joined(old, new).distance = IF old.distance < new.distance THEN old.distance ELSE new.distance
    BY DEF Joined
  <2>2. \A e \in Joined(old, new).evidence : e \in old.evidence \/ e \in new.evidence
    BY DEF Joined, BestOfEdge
  <2>3. Observe(way, ns)[id] = Joined(old, new)
    BY <1>2, <1>7 DEF old, new
  <2>4. new.distance = way.depth + 1 /\ old = impacted[id]
    BY <1>3 DEF new, old
  <2>5. \A e \in new.evidence : e.via = way.id /\ \E n \in ns : n.to = id /\ e.direction = n.direction
    BY <1>4 DEF new
  <2> HIDE DEF met
  <2>6. \E n \in ns : n.to = id
    BY <1>7 DEF met
  <2> QED
    BY <1>7, <2>1, <2>2, <2>3, <2>4, <2>5, <2>6
<1> QED
  BY <1>5, <1>6, <1>7

\* Where a walk on from a way leads.
LEMMA OnwardReach ==
  ASSUME NEW d \in 0..2, NEW id \in Reach(d), NEW n \in Neighbours(id)
  PROVE  n.to \in Reach(d + 1)
<1>1. n.to \in Joint(Reach(d))
  BY DEF Joint
<1> QED
  BY <1>1, ReachOnward

\* A step along the edges of a way keeps what is told true.
LEMMA MetStays ==
  ASSUME CurrentRevision, GraphIsBuilt, graph # Unbuilt, WaysReach, MetSo, LoneSeed,
         NEW way \in frontier, Expand(way), UNCHANGED <<project, graph, question>>
  PROVE  WaysReach' /\ MetSo' /\ LoneSeed'
<1> DEFINE ns == IF Indexed(way.id) THEN Neighbours(way.id) ELSE {}
<1>1. /\ frontier' = (frontier \ {way}) \cup Improving(way, ns)
      /\ impacted' = Observe(way, ns)
      /\ seeds' = seeds
      /\ ~Spent(way)
  BY DEF Expand
<1>2. DepthLimit \in 1..3
  BY DepthOK DEF CurrentRevision
<1>3. ProjectOK
  BY SnapshotIsOK DEF CurrentRevision
<1>4. graph = BuildNavigationGraph
  BY DEF GraphIsBuilt
<1>5. way.depth \in 0..2 /\ way.depth + 1 \in 1..DepthLimit
  <2>1. way.depth \in 0..DepthLimit /\ ~(way.depth >= DepthLimit)
    BY <1>1 DEF WaysReach, Spent
  <2> QED
    BY <1>2, <2>1
<1>6. \A n \in ns : Indexed(way.id) /\ n \in Neighbours(way.id) /\ way.id \in Reach(way.depth)
  BY DEF WaysReach
<1>7. \A n \in ns : n.to \in Reach(way.depth + 1)
  BY <1>5, <1>6, OnwardReach
<1>8. /\ DepthLimit' = DepthLimit
      /\ \A id : SymbolOf(id)' = SymbolOf(id) /\ Indexed(id)' = Indexed(id)
      /\ \A id : Incoming(id)' = Incoming(id) /\ Outgoing(id)' = Outgoing(id)
      /\ \A s : MatchesScope(s)' = MatchesScope(s)
      /\ \A d : Reach(d)' = Reach(d)
  BY <1>1, AsBefore
<1>9. \A n \in ns : /\ MatchesScope(SymbolOf(n.to))
                    /\ IF n.direction = "incoming" THEN \E x \in Outgoing(n.to) : x.to = way.id
                       ELSE \E x \in Incoming(n.to) : x.to = way.id
  BY <1>3, <1>4, <1>6, EdgeSides
<1> HIDE DEF ns
<1>10. WaysReach'
  <2>1. \A w \in Improving(way, ns) : \E n \in ns : w.id = n.to /\ w.depth = way.depth + 1
    <3>1. \A w \in Improving(way, ns) : \E n \in ns : w = Onward(way, n)
      BY DEF Improving
    <3> QED
      BY <3>1 DEF Onward, Way
  <2>2. ASSUME NEW w \in frontier'
        PROVE  w.depth \in 0..DepthLimit /\ (Indexed(w.id) => w.id \in Reach(w.depth))
    <3>1. CASE w \in frontier
      BY <3>1 DEF WaysReach
    <3>2. CASE w \in Improving(way, ns)
      <4>1. PICK n \in ns : w.id = n.to /\ w.depth = way.depth + 1
        BY <2>1, <3>2
      <4>2. w.id \in Reach(w.depth)
        BY <1>7, <4>1
      <4> QED
        BY <1>2, <1>5, <4>1, <4>2
    <3> QED
      BY <1>1, <2>2, <3>1, <3>2
  <2> QED
    BY <1>8, <2>2 DEF WaysReach
<1>11. \A id \in DOMAIN impacted : impacted[id].distance \in 1..DepthLimit
  BY DEF MetSo, Met
<1>12. MetSo'
  <2>1. ASSUME NEW id \in DOMAIN impacted'
        PROVE  /\ impacted'[id].distance \in 1..DepthLimit
               /\ id \in Reach(impacted'[id].distance)
               /\ MatchesScope(SymbolOf(id))
               /\ \A e \in impacted'[id].evidence :
                    /\ \E d \in 0..(DepthLimit - 1) : e.via \in Reach(d)
                    /\ IF e.direction = "incoming" THEN \E x \in Outgoing(id) : x.to = e.via
                       ELSE \E x \in Incoming(id) : x.to = e.via
    <3>1. id \in DOMAIN Observe(way, ns) /\ impacted'[id] = Observe(way, ns)[id]
      BY <1>1, <2>1
    <3>2. CASE id \in DOMAIN impacted /\ impacted'[id] = impacted[id]
      BY <3>2 DEF MetSo, Met
    <3>3. CASE ~(id \in DOMAIN impacted /\ impacted'[id] = impacted[id])
      <4>1. PICK n \in ns : n.to = id
        BY <3>1, <3>3, ObserveTells
      <4>2. \/ impacted'[id].distance = way.depth + 1
            \/ id \in DOMAIN impacted /\ impacted'[id].distance = impacted[id].distance
        BY <3>1, <3>3, ObserveTells
      <4>3. impacted'[id].distance \in 1..DepthLimit /\ id \in Reach(impacted'[id].distance)
        <5>1. CASE impacted'[id].distance = way.depth + 1
          BY <1>5, <1>7, <4>1, <5>1
        <5>2. CASE id \in DOMAIN impacted /\ impacted'[id].distance = impacted[id].distance
          BY <5>2 DEF MetSo, Met
        <5> QED
          BY <4>2, <5>1, <5>2
      <4>4. MatchesScope(SymbolOf(id))
        BY <1>9, <4>1
      <4>5. ASSUME NEW e \in impacted'[id].evidence
            PROVE  /\ \E d \in 0..(DepthLimit - 1) : e.via \in Reach(d)
                   /\ IF e.direction = "incoming" THEN \E x \in Outgoing(id) : x.to = e.via
                      ELSE \E x \in Incoming(id) : x.to = e.via
        <5>1. \/ id \in DOMAIN impacted /\ e \in impacted[id].evidence
              \/ e.via = way.id /\ \E m \in ns : m.to = id /\ e.direction = m.direction
          BY <3>1, <3>3, <4>5, ObserveTells
        <5>2. CASE id \in DOMAIN impacted /\ e \in impacted[id].evidence
          BY <5>2 DEF MetSo, Met
        <5>3. CASE e.via = way.id /\ \E m \in ns : m.to = id /\ e.direction = m.direction
          <6>1. PICK m \in ns : m.to = id /\ e.direction = m.direction
            BY <5>3
          <6>2. way.depth \in 0..(DepthLimit - 1)
            BY <1>2, <1>5
          <6>3. e.via \in Reach(way.depth)
            BY <1>6, <5>3, <6>1
          <6> QED
            BY <1>9, <5>3, <6>1, <6>2, <6>3
        <5> QED
          BY <5>1, <5>2, <5>3
      <4> QED
        BY <4>3, <4>4, <4>5
    <3> QED
      BY <3>2, <3>3
  <2> QED
    BY <1>8, <2>1 DEF MetSo, Met
<1>13. LoneSeed'
  <2> SUFFICES ASSUME \E seed \in seeds : seeds = {seed}
               PROVE  Near'
    BY <1>1 DEF LoneSeed
  <2>1. Begun \/ Near
    BY DEF LoneSeed
  <2>2. ASSUME NEW id, id \in DOMAIN impacted /\ impacted[id].distance = 1
        PROVE  id \in DOMAIN impacted' /\ impacted'[id].distance = 1
    <3>1. id \in DOMAIN Observe(way, ns)
      BY <2>2 DEF Observe
    <3>2. \/ Observe(way, ns)[id] = impacted[id]
          \/ Observe(way, ns)[id].distance = way.depth + 1 /\ ~(1 < way.depth + 1)
          \/ Observe(way, ns)[id].distance = 1
      BY <2>2, <3>1, ObserveTells
    <3> QED
      BY <1>1, <1>5, <2>2, <3>1, <3>2
  <2>3. CASE Near
    BY <1>8, <2>2, <2>3 DEF Near
  <2>4. CASE Begun
    <3>1. PICK seed : seeds = {seed}
      OBVIOUS
    <3>2. way = Way(seed, 0, 120, 0)
      BY <2>4, <3>1 DEF Begun
    <3>3. way.id = seed /\ way.depth = 0
      BY <3>2 DEF Way
    <3>4. ASSUME NEW id \in Reach(1)
          PROVE  id \in DOMAIN impacted' /\ impacted'[id].distance = 1
      <4>1. \E n \in ns : n.to = id
        BY <3>1, <3>3 DEF Reach, Joint, ns
      <4>2. id \in DOMAIN Observe(way, ns)
        BY <4>1 DEF Observe
      <4>3. id \notin DOMAIN impacted
        BY <2>4 DEF Begun
      <4>4. Observe(way, ns)[id].distance = way.depth + 1
        BY <4>1, <4>2, <4>3, ObserveTells
      <4> QED
        BY <1>1, <3>3, <4>2, <4>4
    <3> QED
      BY <1>8, <3>4 DEF Near
  <2> QED
    BY <2>1, <2>3, <2>4
<1> QED
  BY <1>10, <1>12, <1>13

\* The invariant holds at first.
LEMMA WalkInvInitially ==
  ASSUME ChangesInit
  PROVE  WalkInv
<1>1. CurrentRevision
  BY DEF ChangesInit, CurrentRevision, Sides
<1>2. Begun
  BY DEF ChangesInit, Begun
<1> QED
  BY <1>1, <1>2 DEF ChangesInit, WalkInv, GraphIsBuilt

\* A walk that has not moved is as a walk should be.
LEMMA BegunIsSo ==
  ASSUME CurrentRevision, Begun
  PROVE  WaysReach /\ MetSo /\ LoneSeed
<1>1. DepthLimit \in 1..3
  BY DepthOK DEF CurrentRevision
<1>2. ASSUME NEW w \in frontier
      PROVE  w.depth \in 0..DepthLimit /\ (Indexed(w.id) => w.id \in Reach(w.depth))
  <2>1. PICK id \in seeds : w = Way(id, 0, 120, 0)
    BY DEF Begun
  <2>2. w.depth = 0 /\ w.id \in seeds
    BY <2>1 DEF Way
  <2> QED
    BY <1>1, <2>2 DEF Reach
<1> QED
  BY <1>2 DEF Begun, WaysReach, MetSo, LoneSeed

\* A walk begins where it should.
LEMMA BeginsSo ==
  ASSUME NEW from, Begin(from)
  PROVE  Begun'
<1>1. DOMAIN impacted' = {}
  BY DEF Begin
<1> QED
  BY <1>1 DEF Begin, Begun

\* Another revision, another walk.
LEMMA WalkBegins ==
  ASSUME CurrentRevision, NEW side \in Sides, NEW from, Walk(side, from), UNCHANGED <<comparison, question>>
  PROVE  WalkInv'
<1>1. SnapshotIndex(side)' = SnapshotIndex(side)
  BY DEF SnapshotIndex, IdsOf, AllPlaced, Placed, LinesOf, LinesIn, Read, Revision
<1>2. CurrentRevision'
  BY <1>1 DEF CurrentRevision, Walk
<1>3. Begun' /\ graph' = Unbuilt
  BY BeginsSo DEF Walk
<1> QED
  BY <1>2, <1>3 DEF WalkInv, GraphIsBuilt

\* Nothing the invariant is about changes with the answers.
LEMMA RevisionKept ==
  ASSUME CurrentRevision, UNCHANGED <<comparison, question, project>>
  PROVE  CurrentRevision'
<1>1. \A side : SnapshotIndex(side)' = SnapshotIndex(side)
  BY DEF SnapshotIndex, IdsOf, AllPlaced, Placed, LinesOf, LinesIn, Read, Revision
<1> QED
  BY <1>1 DEF CurrentRevision

-----------------------------------------------------------------------------
\* Nothing moves, nothing changes.
LEMMA StandingStill ==
  ASSUME CurrentRevision, GraphIsBuilt, graph # Unbuilt => WaysReach /\ MetSo /\ LoneSeed,
         UNCHANGED <<comparison, question, project, graph, seeds, frontier, best, impacted>>
  PROVE  CurrentRevision' /\ GraphIsBuilt' /\ (graph' # Unbuilt => WaysReach' /\ MetSo' /\ LoneSeed')
<1>1. CurrentRevision' /\ GraphIsBuilt'
  BY RevisionKept, SameGraph DEF GraphIsBuilt
<1>2. WaysReach => WaysReach'
  BY AsBefore DEF WaysReach
<1>3. MetSo => MetSo'
  BY AsBefore DEF MetSo, Met
<1>4. LoneSeed => LoneSeed'
  BY AsBefore DEF LoneSeed, Begun, Near
<1> QED
  BY <1>1, <1>2, <1>3, <1>4

\* A way that is dropped was followed before, or leads no further: a lone
\* seed that has not been followed is never dropped.
LEMMA DropKeeps ==
  ASSUME CurrentRevision, WaysReach, MetSo, LoneSeed,
         NEW way \in frontier, Drop(way), UNCHANGED <<project, graph, question>>
  PROVE  WaysReach' /\ MetSo' /\ LoneSeed'
<1>1. frontier' \subseteq frontier /\ UNCHANGED <<seeds, best, impacted>> /\ Spent(way)
  BY DEF Drop
<1>2. WaysReach'
  BY <1>1, AsBefore DEF WaysReach
<1>3. MetSo'
  BY <1>1, AsBefore DEF MetSo, Met
<1>4. LoneSeed'
  <2> SUFFICES ASSUME \E seed \in seeds : seeds = {seed}
               PROVE  Near'
    BY <1>1 DEF LoneSeed
  <2>1. ~Begun
    <3> SUFFICES ASSUME Begun PROVE FALSE
      OBVIOUS
    <3>1. PICK seed : seed \in seeds /\ way = Way(seed, 0, 120, 0)
      BY DEF Begun
    <3>2. best[way.id] = way /\ way.depth = 0
      BY <3>1 DEF Begun, Way
    <3>3. DepthLimit \in 1..3
      BY DepthOK DEF CurrentRevision
    <3> QED
      BY <1>1, <3>2, <3>3 DEF Spent
  <2>2. Near
    BY <2>1 DEF LoneSeed
  <2> QED
    BY <1>1, <2>2, AsBefore DEF Near
<1> QED
  BY <1>2, <1>3, <1>4

\* Every step keeps the invariant.
LEMMA WalkInvKept ==
  ASSUME WalkInv, [ChangesNext]_changesVars
  PROVE  WalkInv'
<1> USE DEF WalkInv
<1>1. CASE MapChanges
  <2>1. \E from : Walk("base", from)
    BY <1>1 DEF MapChanges
  <2> QED
    BY <1>1, <2>1, WalkBegins DEF MapChanges, Sides
<1>2. CASE BuildGraph
  <2>1. CurrentRevision'
    BY <1>2, RevisionKept DEF BuildGraph
  <2>2. GraphIsBuilt'
    BY <1>2, SameGraph DEF BuildGraph, GraphIsBuilt
  <2>3. Begun
    BY <1>2 DEF BuildGraph, Sides
  <2>4. Begun'
    BY <1>2, <2>3 DEF BuildGraph, Begun, walk
  <2>5. WaysReach' /\ MetSo' /\ LoneSeed'
    BY <2>1, <2>4, BegunIsSo, PTL
  <2>6. stage' # "asked"
    BY <1>2 DEF BuildGraph, Sides
  <2> QED
    BY <2>1, <2>2, <2>4, <2>5, <2>6
<1>3. ASSUME NEW built \in BOOLEAN, AskImpact(built) PROVE WalkInv'
  <2>1. CurrentRevision'
    BY <1>3, RevisionKept DEF AskImpact
  <2>2. GraphIsBuilt'
    BY <1>3, SameGraph DEF AskImpact, GraphIsBuilt
  <2>3. Begun'
    BY <1>3, BeginsSo DEF AskImpact
  <2>4. WaysReach' /\ MetSo' /\ LoneSeed'
    BY <2>1, <2>3, BegunIsSo, PTL
  <2>5. stage' = "impact"
    BY <1>3 DEF AskImpact
  <2> QED
    BY <2>1, <2>2, <2>3, <2>4, <2>5 DEF Sides
<1>4. CASE NoSeed
  <2>1. CurrentRevision'
    BY <1>4, RevisionKept DEF NoSeed
  <2>2. graph' = Unbuilt /\ stage' = "done"
    BY <1>4 DEF NoSeed
  <2> QED
    BY <2>1, <2>2 DEF GraphIsBuilt, Sides
<1>5. CASE WalkOn
  <2>1. CurrentRevision' /\ GraphIsBuilt'
    BY <1>5, RevisionKept, SameGraph DEF WalkOn, GraphIsBuilt
  <2>2. ASSUME graph # Unbuilt
        PROVE  WaysReach' /\ MetSo' /\ LoneSeed'
    <3>1. PICK way \in frontier : Drop(way) \/ Expand(way)
      BY <1>5 DEF WalkOn, Foremost
    <3>2. UNCHANGED <<project, graph, question>>
      BY <1>5 DEF WalkOn
    <3>3. CASE Expand(way)
      BY <2>2, <3>1, <3>2, <3>3, MetStays
    <3>4. CASE Drop(way)
      BY <2>2, <3>1, <3>2, <3>4, DropKeeps
    <3> QED
      BY <3>1, <3>3, <3>4
  <2> QED
    BY <1>5, <2>1, <2>2 DEF WalkOn, Walking, Sides
<1>6. CASE ReportBase
  BY <1>6, WalkBegins DEF ReportBase, Sides
<1>7. CASE ReportTarget
  <2>1. UNCHANGED <<comparison, question, project, graph, seeds, frontier, best, impacted>>
        /\ graph' = graph /\ stage' = "done"
    BY <1>7 DEF ReportTarget, walk
  <2> QED
    BY <2>1, StandingStill DEF Sides
<1>8. CASE UNCHANGED changesVars
  <2>1. UNCHANGED <<comparison, question, project, graph, seeds, frontier, best, impacted>> /\ stage' = stage
    BY <1>8 DEF changesVars
  <2>2. Begun => Begun'
    BY <2>1 DEF Begun
  <2> QED
    BY <2>1, <2>2, StandingStill
<1> QED
  BY <1>1, <1>2, <1>3, <1>4, <1>5, <1>6, <1>7, <1>8 DEF ChangesNext

-----------------------------------------------------------------------------
\* The invariant of the walk holds in every reachable state.
THEOREM WalkInvHolds == ChangesSpec => []WalkInv
BY WalkInvInitially, WalkInvKept, PTL DEF ChangesSpec

\* Whatever the revisions, the names and the texts: over a built graph the
\* callers and callees of every symbol are those a fresh reading of the text
\* tells, with the same evidence (collect_direct_callable_references and
\* collect_incoming_callable_references, with the graph and without).
THEOREM GraphAgreed == ChangesSpec => []GraphAgrees
<1>1. WalkInv => GraphAgrees
  BY SnapshotIsOK, Agreed DEF WalkInv, CurrentRevision, GraphIsBuilt
<1> QED
  BY <1>1, WalkInvHolds, PTL

\* Whatever the revisions and the question: what is told of the impact of a
\* change lies in the scope, as many edges from a seed as is said, with edges
\* of the graph for evidence, and of a lone seed no neighbour is missed
\* (impact_from_seeds).
THEOREM ImpactFounded == ChangesSpec => []ImpactGrounded
<1>1. WalkInv => ImpactGrounded
  <2> SUFFICES ASSUME WalkInv, graph # Unbuilt, frontier = {}
               PROVE  ImpactGrounded
    BY DEF ImpactGrounded
  <2>1. MetSo /\ LoneSeed
    BY DEF WalkInv
  <2>2. (\E seed \in seeds : seeds = {seed}) => Near
    BY <2>1 DEF LoneSeed, Begun
  <2> QED
    BY <2>1, <2>2 DEF ImpactGrounded, MetSo, Met, Near
<1> QED
  BY <1>1, WalkInvHolds, PTL
-----------------------------------------------------------------------------
(* How a diff is mapped to symbols.  A line that Git does not keep lies    *)
(* between two that it keeps, so in a hunk, and a symbol of that line is   *)
(* told as changed.  Of one that is not told every line is kept, and the   *)
(* kept lines rise together in both texts: its lines stand in the other    *)
(* text in their order, and when its first and its last are also those of  *)
(* the other, nothing comes between on either side.                        *)

\* The place of a line that is kept.
At(side) == IF side = "base" THEN 1 ELSE 2
TextOn(side, old, new) == IF side = "base" THEN old ELSE new
\* The line i of one side lies in the hunk h.
Touches(h, side, i) ==
  /\ h[side].start \in Int /\ h[side].count \in Int
  /\ h[side].count > 0 /\ h[side].start <= i /\ i <= h[side].start + h[side].count - 1
Lines(text) == DOMAIN text = 1..Len(text) /\ Len(text) \in Nat

\* A number that is not met on the way up lies between two that are.
LEMMA Between ==
  ASSUME NEW n \in Nat, NEW L \in Nat, NEW s, \A k \in 1..(n + 2) : s[k] \in Nat,
         s[1] = 0, s[n + 2] = L + 1, NEW i \in 1..L, \A k \in 2..(n + 1) : s[k] # i
  PROVE  \E k \in 1..(n + 1) : s[k] < i /\ i < s[k + 1]
<1> DEFINE D == {k \in 1..(n + 1) : s[k] < i}
<1>1. D \in SUBSET Nat /\ 1 \in D /\ IsFiniteSet(D)
  <2>1. IsFiniteSet(1..(n + 1))
    BY FS_Interval
  <2> QED
    BY <2>1, FS_Subset
<1>2. PICK k \in D : \A j \in D : j <= k
  <2> HIDE DEF D
  <2> QED
    BY <1>1, GreatestExists
<1>3. k \in 1..(n + 1) /\ s[k] < i /\ k + 1 \in 1..(n + 2) /\ s[k + 1] \in Nat
  OBVIOUS
<1>4. ~(s[k + 1] < i)
  BY <1>2, <1>3
<1>5. s[k + 1] # i
  BY <1>3
<1> QED
  BY <1>3, <1>4, <1>5

\* A line that is not kept lies in a hunk.
LEMMA UnkeptIsTouched ==
  ASSUME NEW old, NEW new, Lines(old), Lines(new), IsEditScript(old, new, KeptLines(old, new)),
         NEW side \in Sides, NEW i \in 1..Len(TextOn(side, old, new)),
         \A k \in DOMAIN KeptLines(old, new) : KeptLines(old, new)[k][At(side)] # i
  PROVE  \E h \in DiffHunks(old, new) : Touches(h, side, i)
<1> DEFINE pairs == KeptLines(old, new)
           n == Len(pairs)
           L == Len(TextOn(side, old, new))
           all == << <<0, 0>> >> \o pairs \o << <<Len(old) + 1, Len(new) + 1>> >>
           s == [k \in 1..(n + 2) |-> all[k][At(side)]]
           from(k) == [base |-> Range1(all[k][1] + 1, all[k + 1][1]),
                       target |-> Range1(all[k][2] + 1, all[k + 1][2])]
<1>1. /\ pairs \in Seq((1..Len(old)) \X (1..Len(new))) /\ n \in Nat /\ DOMAIN pairs = 1..n
      /\ Len(old) \in Nat /\ Len(new) \in Nat /\ L \in Nat
  BY DEF IsEditScript, Lines, TextOn
<1>2. /\ Len(all) = n + 2 /\ all[1] = <<0, 0>> /\ all[n + 2] = <<Len(old) + 1, Len(new) + 1>>
      /\ \A k \in 2..(n + 1) : all[k] = pairs[k - 1]
  <2> HIDE DEF pairs
  <2> QED
    BY <1>1
<1>3. \A k \in 1..n : pairs[k] \in (1..Len(old)) \X (1..Len(new))
  BY <1>1
<1>4. \A k \in 1..(n + 2) : all[k][1] \in Nat /\ all[k][2] \in Nat
  <2> HIDE DEF pairs, all, n
  <2>1. TAKE k \in 1..(n + 2)
  <2>2. CASE k = 1
    BY <1>2, <2>2
  <2>3. CASE k = n + 2
    BY <1>1, <1>2, <2>3
  <2>4. CASE k \in 2..(n + 1)
    <3>1. all[k] = pairs[k - 1] /\ k - 1 \in 1..n
      BY <1>1, <1>2, <2>4
    <3> QED
      BY <1>3, <3>1
  <2> QED
    BY <1>1, <2>2, <2>3, <2>4
<1>5. /\ \A k \in 1..(n + 2) : s[k] \in Nat
      /\ i \in 1..L
      /\ s[1] = 0 /\ s[n + 2] = L + 1 /\ \A k \in 2..(n + 1) : s[k] # i
  <2>1. At(side) \in {1, 2}
    BY DEF At
  <2>2. s[n + 2] = L + 1
    BY <1>1, <1>2 DEF At, TextOn, Sides
  <2>3. ASSUME NEW k \in 2..(n + 1) PROVE s[k] # i
    <3>1. s[k] = pairs[k - 1][At(side)] /\ k - 1 \in DOMAIN pairs
      <4>1. k - 1 \in 1..n /\ k \in 1..(n + 2)
        BY ONLY <1>1, k \in 2..(n + 1)
      <4>2. all[k] = pairs[k - 1]
        BY ONLY <1>2, k \in 2..(n + 1)
      <4>3. s[k] = all[k][At(side)]
        <5> HIDE DEF all, n
        <5> QED
          BY <4>1
      <4>4. DOMAIN pairs = 1..n
        BY <1>1
      <4> QED
        BY ONLY <4>1, <4>2, <4>3, <4>4
    <3> QED
      BY <3>1
  <2>4. \A k \in 1..(n + 2) : s[k] \in Nat
    BY <1>4, <2>1
  <2>5. s[1] = 0
    BY <1>1, <1>2, <2>1
  <2> QED
    BY <2>2, <2>3, <2>4, <2>5
<1>6. PICK k \in 1..(n + 1) : s[k] < i /\ i < s[k + 1]
  <2> HIDE DEF s, n, L
  <2> QED
    BY <1>1, <1>5, Between
<1>7. /\ all[k][At(side)] \in Nat /\ all[k + 1][At(side)] \in Nat
      /\ all[k][At(side)] < i /\ i < all[k + 1][At(side)]
  <2>1. k \in 1..(n + 2) /\ k + 1 \in 1..(n + 2)
    BY <1>1
  <2> HIDE DEF n, all
  <2>2. s[k] = all[k][At(side)] /\ s[k + 1] = all[k + 1][At(side)]
    BY <2>1
  <2> HIDE DEF s
  <2> QED
    BY <1>5, <1>6, <2>1, <2>2
<1>8. from(k)[side] = Range1(all[k][At(side)] + 1, all[k + 1][At(side)])
  <2> HIDE DEF all
  <2> QED
    BY DEF At, Sides
<1>9. /\ from(k)[side].start = all[k][At(side)] + 1
      /\ from(k)[side].count = all[k + 1][At(side)] - (all[k][At(side)] + 1)
  <2> HIDE DEF from, all
  <2> QED
    BY <1>7, <1>8 DEF Range1
<1>10. Touches(from(k), side, i)
  <2>1. i \in Int
    BY <1>5
  <2> DEFINE a == all[k][At(side)]
             b == all[k + 1][At(side)]
  <2>2. a \in Nat /\ b \in Nat /\ a < i /\ i < b
    BY <1>7
  <2>3. from(k)[side].start = a + 1 /\ from(k)[side].count = b - (a + 1)
    BY <1>9
  <2> HIDE DEF from, all, a, b
  <2> QED
    BY ONLY <2>1, <2>2, <2>3 DEF Touches
<1>11. from(k).base.count > 0 \/ from(k).target.count > 0
  <2> HIDE DEF from, all
  <2> QED
    BY <1>10 DEF Touches, Sides
<1>12. from(k) \in DiffHunks(old, new)
  <2>1. k \in 1..(Len(all) - 1)
    BY <1>1, <1>2
  <2> QED
    BY <1>11, <2>1 DEF DiffHunks
<1> QED
  BY <1>10, <1>12

LEMMA LinesAreLines ==
  ASSUME comparison \in Comparisons, NEW side \in Sides, NEW f
  PROVE  Lines(LinesOf(side, f))
<1>1. CASE f \in DOMAIN comparison[side] /\ comparison[side][f].is = "file"
  <2>1. Lines(comparison[side][f].lines)
    BY <1>1, ComparisonsAssumption DEF Lines
  <2> QED
    BY <1>1, <2>1 DEF LinesOf, LinesIn, Revision
<1>2. CASE ~(f \in DOMAIN comparison[side] /\ comparison[side][f].is = "file")
  <2>1. LinesOf(side, f) = << >>
    BY <1>2 DEF LinesOf, LinesIn, Revision
  <2> QED
    BY <2>1 DEF Lines
<1> QED
  BY <1>1, <1>2

LEMMA DiffIsScript ==
  ASSUME comparison \in Comparisons, NEW side \in Sides, NEW f \in Read(side)
  PROVE  IsEditScript(LinesOf("base", f), LinesOf("target", f),
                      KeptLines(LinesOf("base", f), LinesOf("target", f)))
<1>1. f \in DOMAIN comparison.base \cup DOMAIN comparison.target
  BY DEF Read, Revision, Sides
<1>2. LinesOf("base", f) = LinesIn(comparison.base, f) /\ LinesOf("target", f) = LinesIn(comparison.target, f)
  BY DEF LinesOf, Revision
<1> QED
  BY <1>1, <1>2, DiffAssumption

\* A symbol lies on lines of its file, which was read.
LEMMA PlacedOnLines ==
  ASSUME comparison \in Comparisons, NEW side \in Sides, NEW p \in AllPlaced(side)
  PROVE  /\ p.symbol.file \in Read(side) /\ p \in Placed(side, p.symbol.file)
         /\ p.first \in 1..Len(LinesOf(side, p.symbol.file))
         /\ p.last \in p.first..Len(LinesOf(side, p.symbol.file))
<1>1. PICK f \in Read(side) : p \in Placed(side, f)
  BY DEF AllPlaced
<1>2. f \in DOMAIN comparison[side] /\ comparison[side][f].is = "file" /\ p \in comparison[side][f].symbols
  BY <1>1 DEF Read, Revision, Placed
<1>3. /\ p.symbol.file = f
      /\ p.first \in DOMAIN comparison[side][f].lines /\ p.last \in DOMAIN comparison[side][f].lines
  BY <1>2, ComparisonsAssumption
<1>4. p.first <= p.last
  BY <1>2, DiffAssumption
<1>5. LinesOf(side, f) = comparison[side][f].lines
  BY <1>2 DEF LinesOf, LinesIn, Revision
<1>6. Lines(LinesOf(side, f))
  BY LinesAreLines
<1>7. p.first \in 1..Len(LinesOf(side, f)) /\ p.last \in 1..Len(LinesOf(side, f)) /\ Len(LinesOf(side, f)) \in Nat
  BY <1>3, <1>5, <1>6 DEF Lines
<1> QED
  BY <1>1, <1>3, <1>4, <1>7

\* What is told as changed is the symbols that a hunk of their file touches.
ToldIds == UNION {ChangedIn(f, "base") \cup ChangedIn(f, "target") : f \in ChangedFiles}
ChangesMapped ==
  /\ comparison \in Comparisons
  /\ stage = "impact" => question.kind = "impact"
  /\ stage \notin {"asked", "impact"} /\ question.kind = "changes" => {c.id : c \in changed} = ToldIds

LEMMA MappedInitially == ChangesInit => ChangesMapped
BY DEF ChangesInit, ChangesMapped

LEMMA SameTold ==
  ASSUME UNCHANGED comparison
  PROVE  ToldIds' = ToldIds
<1>1. \A side : Revision(side)' = Revision(side)
  BY DEF Revision
<1>2. \A side : Read(side)' = Read(side) /\ Unavailable(side)' = Unavailable(side)
  BY <1>1 DEF Read, Unavailable
<1>3. \A side, f : LinesOf(side, f)' = LinesOf(side, f) /\ Placed(side, f)' = Placed(side, f)
  BY <1>1, <1>2 DEF LinesOf, Placed
<1>4. ChangedFiles' = ChangedFiles
  BY <1>2, <1>3 DEF ChangedFiles
<1>5. \A f, side : ChangedIn(f, side)' = ChangedIn(f, side)
  BY <1>3 DEF ChangedIn
<1> QED
  BY <1>4, <1>5 DEF ToldIds

LEMMA ToldIsMapped ==
  ASSUME MapChanges
  PROVE  {c.id : c \in changed'} = ToldIds
<1>1. changed' = ChangedSymbols("base") \cup ChangedSymbols("target")
  BY DEF MapChanges
<1>2. ASSUME NEW side
      PROVE  {c.id : c \in ChangedSymbols(side)} = UNION {ChangedIn(f, side) : f \in ChangedFiles}
  <2> DEFINE ids == UNION {ChangedIn(f, side) : f \in ChangedFiles}
             as(id) == [side |-> side, id |-> id, change |-> Change(side, id)]
  <2>1. ChangedSymbols(side) = {as(id) : id \in ids}
    BY DEF ChangedSymbols
  <2>2. \A id : as(id).id = id
    OBVIOUS
  <2> HIDE DEF ids, as
  <2>3. \A id \in ids : id \in {c.id : c \in ChangedSymbols(side)}
    BY <2>1, <2>2
  <2>4. \A c \in ChangedSymbols(side) : c.id \in ids
    BY <2>1, <2>2
  <2> QED
    BY <2>3, <2>4 DEF ids
<1>3. {c.id : c \in changed'} = {c.id : c \in ChangedSymbols("base")} \cup {c.id : c \in ChangedSymbols("target")}
  BY <1>1
<1> QED
  BY <1>2, <1>3 DEF ToldIds

LEMMA MappedKept ==
  ASSUME ChangesMapped, [ChangesNext]_changesVars
  PROVE  ChangesMapped'
<1>1. CASE MapChanges
  <2>1. UNCHANGED comparison /\ stage' = "base"
    BY <1>1 DEF MapChanges
  <2> QED
    BY <1>1, <2>1, SameTold, ToldIsMapped DEF ChangesMapped
<1>2. CASE BuildGraph
  BY <1>2, SameTold DEF BuildGraph, ChangesMapped
<1>3. CASE \E built \in BOOLEAN : AskImpact(built)
  BY <1>3, SameTold DEF AskImpact, ChangesMapped
<1>4. CASE NoSeed
  <2>1. UNCHANGED <<comparison, question>> /\ question.kind = "impact" /\ stage' = "done"
    BY <1>4 DEF NoSeed
  <2> QED
    BY <2>1 DEF ChangesMapped
<1>5. CASE WalkOn
  BY <1>5, SameTold DEF WalkOn, Walking, ChangesMapped
<1>6. CASE ReportBase
  BY <1>6, SameTold DEF ReportBase, ChangesMapped
<1>7. CASE ReportTarget
  BY <1>7, SameTold DEF ReportTarget, ChangesMapped
<1>8. CASE UNCHANGED changesVars
  BY <1>8, SameTold DEF changesVars, ChangesMapped
<1> QED
  BY <1>1, <1>2, <1>3, <1>4, <1>5, <1>6, <1>7, <1>8 DEF ChangesNext

\* Of a symbol that is not told every line is kept.
LEMMA UntoldIsKept ==
  ASSUME comparison \in Comparisons, NEW side \in Sides, NEW p \in AllPlaced(side),
         p.symbol.id \notin ToldIds, p.symbol.file \in ChangedFiles,
         NEW i \in p.first..p.last
  PROVE  LET f == p.symbol.file
             kept == KeptLines(LinesOf("base", f), LinesOf("target", f))
         IN \E k \in DOMAIN kept : kept[k][At(side)] = i
<1> DEFINE f == p.symbol.file
           old == LinesOf("base", f)
           new == LinesOf("target", f)
           kept == KeptLines(old, new)
<1> SUFFICES ASSUME \A k \in DOMAIN kept : kept[k][At(side)] # i
             PROVE  FALSE
  OBVIOUS
<1>1. /\ f \in Read(side) /\ p \in Placed(side, f)
      /\ p.first \in 1..Len(LinesOf(side, f)) /\ p.last \in p.first..Len(LinesOf(side, f))
  BY PlacedOnLines
<1>2. Lines(old) /\ Lines(new) /\ Lines(LinesOf(side, f))
  BY LinesAreLines DEF Sides
<1>3. IsEditScript(old, new, kept)
  BY <1>1, DiffIsScript
<1>4. TextOn(side, old, new) = LinesOf(side, f)
  BY DEF TextOn, Sides
<1>5. i \in 1..Len(TextOn(side, old, new))
  <2>1. p.first \in Nat /\ p.last \in Nat /\ Len(LinesOf(side, f)) \in Nat /\ 1 <= p.first /\ p.last <= Len(LinesOf(side, f))
    BY <1>1, <1>2 DEF Lines
  <2> QED
    BY <1>4, <2>1
<1> HIDE DEF old, new
<1>6. PICK h \in DiffHunks(old, new) : Touches(h, side, i)
  BY <1>2, <1>3, <1>5, UnkeptIsTouched
<1>7. Overlaps(h[side], p)
  <2>1. i \in Int /\ p.first <= i /\ i <= p.last /\ p.first \in Int /\ p.last \in Int
    BY <1>1, <1>2 DEF Lines
  <2> QED
    BY <1>6, <2>1 DEF Overlaps, Touches
<1>8. p.symbol.id \in ChangedIn(f, side)
  BY <1>1, <1>6, <1>7 DEF ChangedIn, old, new
<1> QED
  BY <1>8 DEF ToldIds, Sides

\* A line that is kept, by its place on the one side and on the other.
Across(side) == IF side = "base" THEN 2 ELSE 1
LEMMA KeptInOrder ==
  ASSUME NEW old, NEW new, Lines(old), Lines(new), NEW kept, IsEditScript(old, new, kept), NEW side \in Sides
  PROVE  /\ DOMAIN kept = 1..Len(kept) /\ Len(kept) \in Nat
         /\ \A k \in DOMAIN kept :
              /\ kept[k] = <<kept[k][1], kept[k][2]>>
              /\ kept[k][At(side)] \in 1..Len(TextOn(side, old, new))
              /\ kept[k][Across(side)] \in 1..Len(TextOn(Other(side), old, new))
              /\ TextOn(side, old, new)[kept[k][At(side)]] = TextOn(Other(side), old, new)[kept[k][Across(side)]]
         /\ \A k, l \in DOMAIN kept :
              k < l => kept[k][At(side)] < kept[l][At(side)] /\ kept[k][Across(side)] < kept[l][Across(side)]
<1>1. /\ kept \in Seq((1..Len(old)) \X (1..Len(new)))
      /\ \A k \in DOMAIN kept : old[kept[k][1]] = new[kept[k][2]]
      /\ \A k, l \in DOMAIN kept : k < l => kept[k][1] < kept[l][1] /\ kept[k][2] < kept[l][2]
  BY DEF IsEditScript, Lines
<1>2. DOMAIN kept = 1..Len(kept) /\ Len(kept) \in Nat
  BY <1>1
<1>3. \A k \in DOMAIN kept : kept[k] \in (1..Len(old)) \X (1..Len(new))
  BY <1>1, <1>2
<1>4. \A k \in DOMAIN kept : kept[k] = <<kept[k][1], kept[k][2]>> /\ kept[k][1] \in 1..Len(old) /\ kept[k][2] \in 1..Len(new)
  BY <1>3
<1>5. CASE side = "base"
  <2>1. /\ At(side) = 1 /\ Across(side) = 2
        /\ TextOn(side, old, new) = old /\ TextOn(Other(side), old, new) = new
    BY <1>5 DEF At, Across, TextOn, Other
  <2> QED
    BY <1>1, <1>2, <1>4, <2>1
<1>6. CASE side # "base"
  <2>1. /\ At(side) = 2 /\ Across(side) = 1
        /\ TextOn(side, old, new) = new /\ TextOn(Other(side), old, new) = old
    BY <1>6 DEF At, Across, TextOn, Other
  <2> QED
    BY <1>1, <1>2, <1>4, <2>1
<1> QED
  BY <1>5, <1>6

\* The lines of a range, all of which are kept, stand in the other text.
LEMMA KeptIsScattered ==
  ASSUME NEW old, NEW new, Lines(old), Lines(new), NEW kept, IsEditScript(old, new, kept), NEW side \in Sides,
         NEW first \in 1..Len(TextOn(side, old, new)), NEW last \in first..Len(TextOn(side, old, new)),
         \A i \in first..last : \E k \in DOMAIN kept : kept[k][At(side)] = i
  PROVE  Scattered(SubSeq(TextOn(side, old, new), first, last), TextOn(Other(side), old, new))
<1> DEFINE here == TextOn(side, old, new)
           there == TextOn(Other(side), old, new)
           text == SubSeq(here, first, last)
           of(j) == CHOOSE k \in DOMAIN kept : kept[k][At(side)] = first + j - 1
           at == [j \in DOMAIN text |-> kept[of(j)][Across(side)]]
<1>1. /\ Len(here) \in Nat /\ DOMAIN here = 1..Len(here) /\ DOMAIN there = 1..Len(there)
      /\ first \in Nat /\ last \in Nat /\ 1 <= first /\ first <= last /\ last <= Len(here)
  <2>1. Lines(here) /\ Lines(there)
    BY DEF TextOn
  <2> QED
    BY <2>1 DEF Lines
<1>2. /\ DOMAIN kept = 1..Len(kept) /\ Len(kept) \in Nat
      /\ \A k \in DOMAIN kept :
           /\ kept[k][At(side)] \in 1..Len(here)
           /\ kept[k][Across(side)] \in 1..Len(there)
           /\ here[kept[k][At(side)]] = there[kept[k][Across(side)]]
      /\ \A k, l \in DOMAIN kept :
           k < l => kept[k][At(side)] < kept[l][At(side)] /\ kept[k][Across(side)] < kept[l][Across(side)]
  BY KeptInOrder
<1> HIDE DEF here, there
<1>3. DOMAIN text = 1..(last - first + 1) /\ \A j \in 1..(last - first + 1) : text[j] = here[first + j - 1]
  BY <1>1
<1>4. ASSUME NEW j \in DOMAIN text
      PROVE  of(j) \in DOMAIN kept /\ kept[of(j)][At(side)] = first + j - 1
  <2>1. first + j - 1 \in first..last
    BY <1>1, <1>3
  <2>2. \E k \in DOMAIN kept : kept[k][At(side)] = first + j - 1
    BY <2>1
  <2> QED
    BY <2>2
<1> HIDE DEF of, text
<1>5. at \in [DOMAIN text -> DOMAIN there]
  BY <1>1, <1>2, <1>4
<1>6. ASSUME NEW i \in DOMAIN text PROVE text[i] = there[at[i]]
  <2>1. text[i] = here[first + i - 1]
    BY <1>3
  <2>2. here[kept[of(i)][At(side)]] = there[kept[of(i)][Across(side)]]
    BY <1>2, <1>4
  <2> QED
    BY <1>4, <2>1, <2>2
<1>7. ASSUME NEW i \in DOMAIN text, NEW j \in DOMAIN text, i < j PROVE at[i] < at[j]
  <2> DEFINE k == of(i)
             l == of(j)
  <2>1. k \in DOMAIN kept /\ l \in DOMAIN kept /\ k \in Nat /\ l \in Nat
    BY <1>2, <1>4
  <2>2. kept[k][At(side)] = first + i - 1 /\ kept[l][At(side)] = first + j - 1
    BY <1>4
  <2>3. i \in Nat /\ j \in Nat
    BY <1>1, <1>3
  <2>4. kept[k][At(side)] < kept[l][At(side)] /\ kept[k][At(side)] \in Nat /\ kept[l][At(side)] \in Nat
    BY <1>1, <1>7, <2>2, <2>3
  <2> HIDE DEF k, l
  <2>5. ~(l < k) /\ k # l
    <3>1. l < k => kept[l][At(side)] < kept[k][At(side)]
      BY <1>2, <2>1
    <3> QED
      BY <2>4, <3>1
  <2>6. k < l
    BY <2>1, <2>5
  <2>7. kept[k][Across(side)] < kept[l][Across(side)]
    BY <1>2, <2>1, <2>6
  <2> QED
    BY <2>7 DEF k, l
<1> HIDE DEF at
<1>8. Scattered(text, there)
  BY <1>5, <1>6, <1>7 DEF Scattered
<1> QED
  BY <1>8 DEF text, here, there

\* What rises is met in order.
LEMMA Rising ==
  ASSUME NEW n \in Nat, NEW a \in [1..n -> Nat], \A k, l \in 1..n : k < l => a[k] < a[l]
  PROVE  \A k, l \in 1..n : (a[k] < a[l] => k < l) /\ (a[k] = a[l] => k = l)
<1>1. TAKE k, l \in 1..n
<1>2. k \in Int /\ l \in Int /\ a[k] \in Nat /\ a[l] \in Nat
  OBVIOUS
<1>3. (k < l => a[k] < a[l]) /\ (l < k => a[l] < a[k])
  OBVIOUS
<1> QED
  BY ONLY <1>2, <1>3

\* Two that rise together, and between two of their places leave out nothing,
\* rise there in step.
RiseTogether(n, a, b, first, last, first2, last2) ==
  /\ n \in Nat /\ a \in [1..n -> Nat] /\ b \in [1..n -> Nat]
  /\ \A k, l \in 1..n : k < l => a[k] < a[l] /\ b[k] < b[l]
  /\ first \in Nat /\ last \in Nat /\ first2 \in Nat /\ last2 \in Nat
  /\ first <= last /\ first2 <= last2
  /\ \A i \in first..last : \E k \in 1..n : a[k] = i
  /\ \A i \in first2..last2 : \E k \in 1..n : b[k] = i
  /\ \E k \in 1..n : a[k] = first /\ b[k] = first2
  /\ \E k \in 1..n : a[k] = last /\ b[k] = last2
RiseInStep(n, a, b, first, last, first2, last2) ==
  /\ last2 - first2 = last - first
  /\ \A d \in 0..(last - first) : \E k \in 1..n : a[k] = first + d /\ b[k] = first2 + d
LEMMA InStep ==
  ASSUME NEW n, NEW a, NEW b, NEW first, NEW last, NEW first2, NEW last2,
         RiseTogether(n, a, b, first, last, first2, last2)
  PROVE  RiseInStep(n, a, b, first, last, first2, last2)
<1> DEFINE Level(d) == \E k \in 1..n : a[k] = first + d /\ b[k] = first2 + d
           S == {d \in Nat : d <= last - first => Level(d)}
<1>0. /\ n \in Nat /\ a \in [1..n -> Nat] /\ b \in [1..n -> Nat]
      /\ \A k, l \in 1..n : k < l => a[k] < a[l] /\ b[k] < b[l]
      /\ first \in Nat /\ last \in Nat /\ first2 \in Nat /\ last2 \in Nat
      /\ first <= last /\ first2 <= last2
      /\ \A i \in first..last : \E k \in 1..n : a[k] = i
      /\ \A i \in first2..last2 : \E k \in 1..n : b[k] = i
      /\ \E k \in 1..n : a[k] = first /\ b[k] = first2
      /\ \E k \in 1..n : a[k] = last /\ b[k] = last2
  BY DEF RiseTogether
<1> USE <1>0
<1>1. /\ \A k, l \in 1..n : (a[k] < a[l] => k < l) /\ (a[k] = a[l] => k = l)
      /\ \A k, l \in 1..n : (b[k] < b[l] => k < l) /\ (b[k] = b[l] => k = l)
  <2>1. (\A k, l \in 1..n : k < l => a[k] < a[l]) /\ (\A k, l \in 1..n : k < l => b[k] < b[l])
    OBVIOUS
  <2>2. \A k, l \in 1..n : (a[k] < a[l] => k < l) /\ (a[k] = a[l] => k = l)
    BY ONLY <1>0, <2>1, Rising
  <2>3. \A k, l \in 1..n : (b[k] < b[l] => k < l) /\ (b[k] = b[l] => k = l)
    BY ONLY <1>0, <2>1, Rising, ZenonT(60)
  <2> QED
    BY <2>2, <2>3
<1>2. \A k \in 1..n : k \in Int /\ a[k] \in Nat /\ b[k] \in Nat
  OBVIOUS
<1>3. \A k, l \in 1..n : k < l => a[k] < a[l] /\ b[k] < b[l]
  OBVIOUS
<1>4. PICK z \in 1..n : a[z] = last /\ b[z] = last2
  OBVIOUS
<1>5. 0 \in S
  <2>1. first + 0 = first /\ first2 + 0 = first2
    OBVIOUS
  <2> QED
    BY <2>1
<1>6. ASSUME NEW d \in Nat, d + 1 <= last - first, Level(d) PROVE Level(d + 1)
  <2>1. PICK k \in 1..n : a[k] = first + d /\ b[k] = first2 + d
    BY <1>6
  <2>2. a[k] < a[z]
    BY <1>4, <1>6, <2>1
  <2>3. b[k] < last2
    BY <1>1, <1>3, <1>4, <2>2
  <2>4. first + (d + 1) \in first..last /\ first2 + (d + 1) \in first2..last2
    BY <1>6, <2>1, <2>3
  <2>5. PICK x \in 1..n : a[x] = first + (d + 1)
    BY <2>4
  <2>6. PICK y \in 1..n : b[y] = first2 + (d + 1)
    BY <2>4
  <2>7. a[k] < a[x] /\ b[k] < b[y]
    BY <2>1, <2>5, <2>6
  <2>8. k < x /\ k < y
    BY <1>1, <2>7
  <2>9. ~(x < y)
    <3>1. ASSUME x < y PROVE FALSE
      <4>1. b[k] < b[x] /\ b[x] < b[y] /\ b[x] \in Nat
        BY <1>2, <1>3, <2>8, <3>1
      <4> QED
        BY ONLY <2>1, <2>6, <4>1, <1>0, d \in Nat, SMTT(60)
    <3> QED
      BY <3>1
  <2>10. ~(y < x)
    <3>1. ASSUME y < x PROVE FALSE
      <4>1. a[k] < a[y] /\ a[y] < a[x] /\ a[y] \in Nat
        BY <1>2, <1>3, <2>8, <3>1
      <4> QED
        BY ONLY <2>1, <2>5, <4>1, <1>0, d \in Nat, SMTT(60)
    <3> QED
      BY <3>1
  <2>11. x = y
    BY <1>2, <2>9, <2>10
  <2> QED
    BY <2>5, <2>6, <2>11
<1>7. \A d \in S : d + 1 \in S
  <2>1. ASSUME NEW d \in S PROVE d + 1 \in S
    <3>1. d \in Nat /\ d + 1 \in Nat /\ (d <= last - first => Level(d))
      OBVIOUS
    <3> HIDE DEF Level
    <3>2. d + 1 <= last - first => Level(d + 1)
      BY <1>6, <3>1
    <3> QED
      BY <3>1, <3>2
  <2> QED
    BY <2>1
<1>8. S = Nat
  <2>1. S \in SUBSET Nat
    OBVIOUS
  <2> HIDE DEF S
  <2> QED
    BY <1>5, <1>7, <2>1, Counting
<1>9. \A d \in 0..(last - first) : Level(d)
  <2>1. TAKE d \in 0..(last - first)
  <2>2. d \in Nat /\ d <= last - first
    OBVIOUS
  <2>3. d \in S
    BY <1>8, <2>2
  <2> HIDE DEF Level
  <2> QED
    BY <2>2, <2>3
<1>10. last2 - first2 = last - first
  <2>1. last - first \in 0..(last - first) /\ first + (last - first) = last
    OBVIOUS
  <2>2. PICK k \in 1..n : a[k] = first + (last - first) /\ b[k] = first2 + (last - first)
    BY <1>9, <2>1
  <2>3. k = z
    BY <1>1, <1>4, <2>1, <2>2
  <2>4. last2 = first2 + (last - first)
    BY <1>4, <2>2, <2>3
  <2> QED
    BY <2>4
<1> QED
  BY <1>9, <1>10 DEF RiseInStep

KeptThrough(kept, place, first, last) ==
  \A i \in first..last : \E k \in DOMAIN kept : kept[k][place] = i
Paired(kept, side, i, j) ==
  \E k \in DOMAIN kept : kept[k][At(side)] = i /\ kept[k][Across(side)] = j
\* Two ranges whose lines are all kept, the first as the first and the last as
\* the last, read the same: line by line, nothing comes between on either side.
SameEnds(old, new, kept, side, first, last, first2, last2) ==
  /\ Lines(old) /\ Lines(new) /\ IsEditScript(old, new, kept) /\ side \in Sides
  /\ first \in 1..Len(TextOn(side, old, new)) /\ last \in first..Len(TextOn(side, old, new))
  /\ first2 \in 1..Len(TextOn(Other(side), old, new)) /\ last2 \in first2..Len(TextOn(Other(side), old, new))
  /\ KeptThrough(kept, At(side), first, last) /\ KeptThrough(kept, Across(side), first2, last2)
  /\ Paired(kept, side, first, first2) /\ Paired(kept, side, last, last2)
SameText(old, new, side, first, last, first2, last2) ==
  SubSeq(TextOn(Other(side), old, new), first2, last2) = SubSeq(TextOn(side, old, new), first, last)
LEMMA SameEndsSameText ==
  ASSUME NEW old, NEW new, NEW kept, NEW side, NEW first, NEW last, NEW first2, NEW last2,
         SameEnds(old, new, kept, side, first, last, first2, last2)
  PROVE  SameText(old, new, side, first, last, first2, last2)
<1>0. /\ Lines(old) /\ Lines(new) /\ IsEditScript(old, new, kept) /\ side \in Sides
      /\ first \in 1..Len(TextOn(side, old, new)) /\ last \in first..Len(TextOn(side, old, new))
      /\ first2 \in 1..Len(TextOn(Other(side), old, new)) /\ last2 \in first2..Len(TextOn(Other(side), old, new))
      /\ KeptThrough(kept, At(side), first, last) /\ KeptThrough(kept, Across(side), first2, last2)
      /\ Paired(kept, side, first, first2) /\ Paired(kept, side, last, last2)
  BY DEF SameEnds
<1> USE <1>0
<1> DEFINE here == TextOn(side, old, new)
           there == TextOn(Other(side), old, new)
           n == Len(kept)
           a == [k \in 1..n |-> kept[k][At(side)]]
           b == [k \in 1..n |-> kept[k][Across(side)]]
<1>1. /\ Len(here) \in Nat /\ Len(there) \in Nat /\ DOMAIN here = 1..Len(here) /\ DOMAIN there = 1..Len(there)
      /\ first \in Nat /\ last \in Nat /\ 1 <= first /\ first <= last /\ last <= Len(here)
      /\ first2 \in Nat /\ last2 \in Nat /\ 1 <= first2 /\ first2 <= last2 /\ last2 <= Len(there)
  <2>1. Lines(here) /\ Lines(there)
    BY DEF TextOn
  <2> QED
    BY <2>1 DEF Lines
<1>2. /\ DOMAIN kept = 1..n /\ n \in Nat
      /\ \A k \in DOMAIN kept :
           /\ kept[k][At(side)] \in 1..Len(here)
           /\ kept[k][Across(side)] \in 1..Len(there)
           /\ here[kept[k][At(side)]] = there[kept[k][Across(side)]]
      /\ \A k, l \in DOMAIN kept :
           k < l => kept[k][At(side)] < kept[l][At(side)] /\ kept[k][Across(side)] < kept[l][Across(side)]
  BY KeptInOrder
<1>3. \A k \in 1..n : a[k] = kept[k][At(side)] /\ b[k] = kept[k][Across(side)]
  OBVIOUS
<1> HIDE DEF here, there, n
<1>4. a \in [1..n -> Nat] /\ b \in [1..n -> Nat]
  <2>1. ASSUME NEW k \in 1..n PROVE kept[k][At(side)] \in Nat /\ kept[k][Across(side)] \in Nat
    <3>1. kept[k][At(side)] \in 1..Len(here) /\ kept[k][Across(side)] \in 1..Len(there)
      BY ONLY <1>2, k \in 1..n
    <3> QED
      BY ONLY <3>1
  <2> QED
    BY <2>1
<1> HIDE DEF a, b
<1>5. /\ \A k, l \in 1..n : k < l => a[k] < a[l] /\ b[k] < b[l]
      /\ \A i \in first..last : \E k \in 1..n : a[k] = i
      /\ \A i \in first2..last2 : \E k \in 1..n : b[k] = i
      /\ \E k \in 1..n : a[k] = first /\ b[k] = first2
      /\ \E k \in 1..n : a[k] = last /\ b[k] = last2
  <2>1. DOMAIN kept = 1..n
    BY <1>2
  <2>2. ASSUME NEW k \in 1..n, NEW l \in 1..n, k < l PROVE a[k] < a[l] /\ b[k] < b[l]
    <3>1. kept[k][At(side)] < kept[l][At(side)] /\ kept[k][Across(side)] < kept[l][Across(side)]
      BY <1>2, <2>1, <2>2
    <3>2. /\ a[k] = kept[k][At(side)] /\ b[k] = kept[k][Across(side)]
          /\ a[l] = kept[l][At(side)] /\ b[l] = kept[l][Across(side)]
      BY <1>3
    <3> QED
      BY <3>1, <3>2
  <2>3. \A i \in first..last : \E k \in 1..n : a[k] = i
    BY <1>3, <2>1 DEF KeptThrough
  <2>4. \A i \in first2..last2 : \E k \in 1..n : b[k] = i
    BY <1>3, <2>1 DEF KeptThrough
  <2>5. \E k \in 1..n : a[k] = first /\ b[k] = first2
    BY <1>3, <2>1 DEF Paired
  <2>6. \E k \in 1..n : a[k] = last /\ b[k] = last2
    BY <1>3, <2>1 DEF Paired
  <2> QED
    BY <2>2, <2>3, <2>4, <2>5, <2>6
<1>6. /\ last2 - first2 = last - first
      /\ \A d \in 0..(last - first) : \E k \in 1..n : a[k] = first + d /\ b[k] = first2 + d
  <2>1. n \in Nat
    BY <1>2
  <2>2. RiseTogether(n, a, b, first, last, first2, last2)
    BY ONLY <1>1, <1>4, <1>5, <2>1 DEF RiseTogether
  <2>3. RiseInStep(n, a, b, first, last, first2, last2)
    BY ONLY <2>2, InStep
  <2> QED
    BY ONLY <2>3 DEF RiseInStep
<1>7. \A d \in 0..(last - first) : here[first + d] = there[first2 + d]
  <2>1. \A k \in 1..n : here[a[k]] = there[b[k]]
    BY ONLY <1>2, <1>3
  <2> QED
    BY <1>6, <2>1
<1> DEFINE m == last - first + 1
<1>8. SubSeq(here, first, last) = [i \in 1..m |-> here[first + i - 1]]
  BY <1>1
<1>9. SubSeq(there, first2, last2) = [i \in 1..m |-> there[first2 + i - 1]]
  <2>1. last2 - first2 + 1 = m
    BY <1>1, <1>6
  <2> QED
    BY <1>1, <2>1
<1>10. \A i \in 1..m : here[first + i - 1] = there[first2 + i - 1]
  <2>1. TAKE i \in 1..m
  <2>2. i - 1 \in 0..(last - first) /\ first + i - 1 = first + (i - 1) /\ first2 + i - 1 = first2 + (i - 1)
    BY <1>1
  <2> QED
    BY <1>7, <2>2
<1>11. [i \in 1..m |-> here[first + i - 1]] = [i \in 1..m |-> there[first2 + i - 1]]
  BY <1>10
<1> QED
  BY <1>8, <1>9, <1>11 DEF here, there, SameText

\* An id tells the file of its symbol, in the one revision as in the other.
LEMMA IdTellsFile ==
  ASSUME comparison \in Comparisons, NEW side \in Sides, NEW other \in Sides,
         NEW p \in AllPlaced(side), NEW q \in AllPlaced(other), p.symbol.id = q.symbol.id
  PROVE  p.symbol.file = q.symbol.file /\ (side = other => p = q)
<1>1. PICK f \in DOMAIN comparison[side] : p \in comparison[side][f].symbols
  BY DEF AllPlaced, Placed, Read, Revision
<1>2. PICK g \in DOMAIN comparison[other] : q \in comparison[other][g].symbols
  BY DEF AllPlaced, Placed, Read, Revision
<1>3. CASE side = other
  <2>1. p = q
    BY <1>1, <1>2, <1>3, ComparisonsAssumption
  <2> QED
    BY <2>1
<1>4. CASE side = "base" /\ other = "target"
  BY <1>1, <1>2, <1>4, DiffAssumption
<1>5. CASE side = "target" /\ other = "base"
  BY <1>1, <1>2, <1>5, DiffAssumption
<1> QED
  BY <1>3, <1>4, <1>5 DEF Sides

\* Of a file that is not changed nothing is told.
LEMMA ToldIsChanged ==
  ASSUME comparison \in Comparisons, NEW side \in Sides, NEW p \in AllPlaced(side), p.symbol.id \in ToldIds
  PROVE  p.symbol.file \in ChangedFiles
<1>1. PICK f \in ChangedFiles, other \in Sides : p.symbol.id \in ChangedIn(f, other)
  BY DEF ToldIds, Sides
<1>2. PICK q \in Placed(other, f) : q.symbol.id = p.symbol.id
  BY <1>1 DEF ChangedIn
<1>3. q \in AllPlaced(other) /\ f \in DOMAIN comparison[other] /\ q \in comparison[other][f].symbols
  BY <1>2 DEF AllPlaced, Placed, Read, Revision
<1>4. q.symbol.file = f
  BY <1>3, ComparisonsAssumption
<1>5. q.symbol.file = p.symbol.file
  BY <1>2, <1>3, IdTellsFile
<1> QED
  BY <1>4, <1>5

\* A symbol of a file that is changed, and that is not told, survives.
LEMMA UntoldSurvives ==
  ASSUME comparison \in Comparisons, NEW side \in Sides, NEW p \in AllPlaced(side),
         p.symbol.id \notin ToldIds, p.symbol.file \in ChangedFiles
  PROVE  Survives(side, p)
<1> DEFINE f == p.symbol.file
           old == LinesOf("base", f)
           new == LinesOf("target", f)
           kept == KeptLines(old, new)
<1>1. /\ f \in Read(side)
      /\ p.first \in 1..Len(LinesOf(side, f)) /\ p.last \in p.first..Len(LinesOf(side, f))
  BY PlacedOnLines
<1>2. Lines(old) /\ Lines(new) /\ IsEditScript(old, new, kept)
  BY <1>1, LinesAreLines, DiffIsScript DEF Sides
<1>3. TextOn(side, old, new) = LinesOf(side, f) /\ TextOn(Other(side), old, new) = LinesOf(Other(side), f)
  BY DEF TextOn, Other, Sides
<1>4. Other(side) \in Sides /\ At(Other(side)) = Across(side)
  BY DEF Other, Sides, At, Across
<1>5. \A i \in p.first..p.last : \E k \in DOMAIN kept : kept[k][At(side)] = i
  BY UntoldIsKept
<1>6. Scattered(TextOf(side, p), LinesOf(Other(side), f))
  <2>1. /\ p.first \in 1..Len(TextOn(side, old, new))
        /\ p.last \in p.first..Len(TextOn(side, old, new))
    BY <1>1, <1>3
  <2> HIDE DEF old, new, kept
  <2>2. Scattered(SubSeq(TextOn(side, old, new), p.first, p.last), TextOn(Other(side), old, new))
    BY <1>2, <1>5, <2>1, KeptIsScattered
  <2> QED
    BY <1>3, <2>2 DEF TextOf
<1>7. ASSUME NEW q \in AllPlaced(Other(side)), q.symbol.id = p.symbol.id, SamePlace(side, p, q)
      PROVE  TextOf(Other(side), q) = TextOf(side, p)
  <2>1. q.symbol.file = f
    BY <1>4, <1>7, IdTellsFile
  <2>2. q.first \in 1..Len(LinesOf(Other(side), f)) /\ q.last \in q.first..Len(LinesOf(Other(side), f))
    BY <1>4, <2>1, PlacedOnLines
  <2>3. KeptThrough(kept, At(side), p.first, p.last) /\ KeptThrough(kept, Across(side), q.first, q.last)
    BY <1>4, <1>5, <1>7, <2>1, UntoldIsKept DEF KeptThrough
  <2>4. Paired(kept, side, p.first, q.first) /\ Paired(kept, side, p.last, q.last)
    <3>1. ToSet(kept) = {kept[k] : k \in DOMAIN kept}
      BY DEF ToSet
    <3>2. CASE side = "base"
      <4>1. <<p.first, q.first>> \in ToSet(kept) /\ <<p.last, q.last>> \in ToSet(kept)
        BY <1>7, <3>2 DEF SamePlace
      <4> HIDE DEF kept
      <4> QED
        BY <3>1, <3>2, <4>1 DEF At, Across, Paired
    <3>3. CASE side # "base"
      <4>1. <<q.first, p.first>> \in ToSet(kept) /\ <<q.last, p.last>> \in ToSet(kept)
        BY <1>7, <3>3 DEF SamePlace
      <4> HIDE DEF kept
      <4> QED
        BY <3>1, <3>3, <4>1 DEF At, Across, Paired
    <3> QED
      BY <3>2, <3>3
  <2>5. /\ p.first \in 1..Len(TextOn(side, old, new)) /\ p.last \in p.first..Len(TextOn(side, old, new))
        /\ q.first \in 1..Len(TextOn(Other(side), old, new))
        /\ q.last \in q.first..Len(TextOn(Other(side), old, new))
    BY <1>1, <1>3, <2>2
  <2> HIDE DEF old, new, kept
  <2>6. SameEnds(old, new, kept, side, p.first, p.last, q.first, q.last)
    BY ONLY <1>2, <2>3, <2>4, <2>5, side \in Sides DEF SameEnds
  <2>7. SameText(old, new, side, p.first, p.last, q.first, q.last)
    BY ONLY <2>6, SameEndsSameText
  <2> QED
    BY <1>3, <2>1, <2>7 DEF TextOf, SameText
<1> QED
  BY <1>6, <1>7 DEF Survives

\* So does one of a file that is the same in both revisions.
LEMMA UnchangedSurvives ==
  ASSUME comparison \in Comparisons, NEW side \in Sides, NEW p \in AllPlaced(side),
         p.symbol.file \notin Unavailable(Other(side)), p.symbol.file \notin ChangedFiles
  PROVE  Survives(side, p)
<1> DEFINE f == p.symbol.file
           lines == LinesOf(side, f)
           text == TextOf(side, p)
<1>1. /\ f \in Read(side) /\ p \in Placed(side, f)
      /\ p.first \in 1..Len(lines) /\ p.last \in p.first..Len(lines)
  BY PlacedOnLines
<1>2. Other(side) \in Sides /\ {side, Other(side)} = Sides
  BY DEF Other, Sides
<1>3. f \in Read("base") /\ f \in Read("target") /\ LinesOf("base", f) = LinesOf("target", f)
  <2>1. f \notin Unavailable(side)
    BY <1>1 DEF Read, Unavailable
  <2>2. f \notin Unavailable("base") \cup Unavailable("target") /\ f \in Read("base") \cup Read("target")
    BY <1>1, <1>2, <2>1 DEF Sides
  <2> QED
    BY <2>2 DEF ChangedFiles
<1>4. LinesOf(Other(side), f) = lines
  BY <1>3 DEF Other, Sides
<1>5. Lines(lines)
  BY LinesAreLines
<1>6. StandsIn(text, LinesOf(Other(side), f))
  <2>1. /\ p.first \in Nat /\ p.last \in Nat /\ 1 <= p.first /\ p.first <= p.last /\ p.last <= Len(lines)
        /\ DOMAIN lines = 1..Len(lines) /\ Len(lines) \in Nat
    BY <1>1, <1>5 DEF Lines
  <2>2. text = SubSeq(lines, p.first, p.last)
    BY DEF TextOf
  <2> HIDE DEF lines, text
  <2>3. Len(text) = p.last - p.first + 1
    BY <2>1, <2>2
  <2>4. p.first + Len(text) - 1 = p.last /\ p.first \in DOMAIN lines
    BY <2>1, <2>3
  <2> QED
    BY <1>4, <2>1, <2>2, <2>4 DEF StandsIn
<1>7. ASSUME NEW q \in AllPlaced(Other(side)), q.symbol.id = p.symbol.id
      PROVE  TextOf(Other(side), q) = text
  <2>1. q.symbol.file = f /\ q \in Placed(Other(side), f)
    BY <1>2, <1>7, IdTellsFile, PlacedOnLines
  <2>2. /\ f \in DOMAIN comparison.base /\ f \in DOMAIN comparison.target
        /\ comparison.base[f].is = "file" /\ comparison.target[f].is = "file"
        /\ comparison.base[f].lines = comparison.target[f].lines
    BY <1>3 DEF Read, LinesOf, LinesIn, Revision
  <2>3. comparison.base[f].symbols = comparison.target[f].symbols
    BY <2>2, DiffAssumption
  <2>4. Placed(side, f) = Placed(Other(side), f)
    BY <1>3, <2>3 DEF Placed, Revision, Other, Sides
  <2>5. q \in AllPlaced(side)
    BY <1>1, <2>1, <2>4 DEF AllPlaced
  <2>6. p = q
    BY <1>7, <2>5, IdTellsFile
  <2> QED
    BY <1>4, <2>6 DEF TextOf
<1> QED
  BY <1>6, <1>7 DEF Survives

LEMMA MappedMeansSurvival == ChangesMapped => EditsMapped
<1> SUFFICES ASSUME ChangesMapped, stage \notin {"asked", "impact"}, question.kind = "changes",
                    NEW side \in Sides, NEW p \in AllPlaced(side)
             PROVE  IF p.symbol.file \in Unavailable(Other(side)) THEN p.symbol.id \notin {c.id : c \in changed}
                    ELSE p.symbol.id \notin {c.id : c \in changed} => Survives(side, p)
  BY DEF EditsMapped
<1>1. comparison \in Comparisons /\ {c.id : c \in changed} = ToldIds
  BY DEF ChangesMapped
<1>2. CASE p.symbol.file \in Unavailable(Other(side))
  <2>1. p.symbol.file \notin ChangedFiles
    BY <1>2 DEF ChangedFiles, Other, Sides
  <2> QED
    BY <1>1, <1>2, <2>1, ToldIsChanged
<1>3. CASE p.symbol.file \notin Unavailable(Other(side))
  BY <1>1, <1>3, UntoldSurvives, UnchangedSurvives
<1> QED
  BY <1>2, <1>3

\* analyze maps a diff to the symbols it edits: what is not told as changed has
\* all its lines in the other revision, in their order, and reads the same there
\* where it keeps its ends; and of a file that one revision could not read
\* nothing is told.
THEOREM EditsAreMapped == ChangesSpec => []EditsMapped
<1>1. ChangesInit => ChangesMapped
  BY MappedInitially
<1>2. ChangesMapped /\ [ChangesNext]_changesVars => ChangesMapped'
  BY MappedKept
<1>3. ChangesMapped => EditsMapped
  BY MappedMeansSurvival
<1> QED
  BY <1>1, <1>2, <1>3, PTL DEF ChangesSpec
=============================================================================
