--------------------------- MODULE IndexStore_proof -------------------------
(***************************************************************************)
(* What holds of IndexStore for any number of files, runs, readers,        *)
(* policies and any bounds: the change log in meta.json is always the      *)
(* newest LogMax revisions, so a feed that calls itself complete is; a     *)
(* snapshot that was faithful when it was cached stays so until it is      *)
(* replaced or dropped; an index that is trusted is that of the tree; the  *)
(* flushes of a watcher are reported in full, and it loses no change.      *)
(***************************************************************************)
EXTENDS IndexStore, FiniteSetTheorems, TLAPS

-----------------------------------------------------------------------------
(* The change log.                                                         *)

(* A finite set of more than n ids has a subset of n ids.                  *)
LEMMA SubsetOfSize ==
  ASSUME NEW S, IsFiniteSet(S), NEW n \in Nat, n <= Cardinality(S)
  PROVE  \E T \in SUBSET S : Cardinality(T) = n
<1>1. PICK f : f \in Bijection(1 .. Cardinality(S), S)
  BY FS_CardinalityType DEF ExistsBijection
<1>2. Cardinality(S) \in Nat
  BY FS_CardinalityType
<1> DEFINE T == {f[i] : i \in 1 .. n}
           g == [i \in 1 .. n |-> f[i]]
<1>3. /\ f \in [1 .. Cardinality(S) -> S]
      /\ \A i, j \in 1 .. Cardinality(S) : f[i] = f[j] => i = j
  BY <1>1 DEF Bijection, Injection, Surjection, IsInjective
<1>4. \A i \in 1 .. n : i \in 1 .. Cardinality(S)
  BY <1>2
<1>5. g \in Bijection(1 .. n, T)
  BY <1>3, <1>4 DEF Bijection, Injection, Surjection, IsInjective
<1>6. Cardinality(T) = n
  BY <1>5, FS_CountingElements DEF ExistsBijection
<1> QED
  BY <1>3, <1>4, <1>6

(* Capping a list of ids keeps some of them (RevisionChange::from_diff).   *)
LEMMA CappedType ==
  ASSUME NEW ids \in SUBSET Files
  PROVE  Capped(ids) \in SUBSET ids
<1>1. IsFiniteSet(ids) /\ Cardinality(ids) \in Nat
  BY LogAssumption, FS_Subset, FS_CardinalityType
<1>2. CASE Cardinality(ids) <= ListCap
  BY <1>2 DEF Capped
<1>3. CASE ~(Cardinality(ids) <= ListCap)
  <2>1. \E kept \in SUBSET ids : Cardinality(kept) = ListCap
    BY <1>1, <1>3, LogAssumption, SubsetOfSize
  <2> QED
    BY <1>3, <2>1 DEF Capped
<1> QED
  BY <1>2, <1>3

(* record_change appends the entry of the next revision and keeps the      *)
(* newest LogMax: the journal stays well formed, and only those two fields *)
(* of the metadata change.                                                 *)
LEMMA RecordChangeMeta ==
  ASSUME NEW meta \in Meta, JournalOK(meta),
         NEW added \in SUBSET Files, NEW removed \in SUBSET Files,
         NEW modified \in SUBSET Files
  PROVE  LET next == RecordChange(meta, added, removed, modified)
         IN  next \in Meta /\ JournalOK(next)
<1> DEFINE entry == [FromDiff(added, removed, modified)
                       EXCEPT !.revision = NextRevision(meta.revision)]
           log == Append(meta.changeLog, entry)
           next == RecordChange(meta, added, removed, modified)
<1>1. entry \in RevisionChange /\ entry.revision = meta.revision + 1
  <2>1. /\ Capped(added) \in SUBSET Files /\ Capped(removed) \in SUBSET Files
        /\ Capped(modified) \in SUBSET Files
    BY CappedType
  <2>2. FromDiff(added, removed, modified) \in RevisionChange
    BY <2>1 DEF FromDiff, RevisionChange
  <2>3. meta.revision \in Nat
    BY DEF Meta
  <2> QED
    BY <2>2, <2>3 DEF RevisionChange, NextRevision
<1>2. meta.changeLog \in Seq(RevisionChange) /\ meta.revision \in Nat
  BY DEF Meta
<1> HIDE DEF entry
<1>3. /\ log \in Seq(RevisionChange)
      /\ Len(log) = Len(meta.changeLog) + 1
      /\ Len(meta.changeLog) \in Nat
      /\ log[Len(log)] = entry
      /\ \A i \in 1 .. Len(meta.changeLog) : log[i] = meta.changeLog[i]
  BY <1>1, <1>2
<1>4. /\ Len(log) = IF meta.revision < LogMax THEN meta.revision + 1 ELSE LogMax + 1
      /\ \A i \in 1 .. Len(log) : log[i].revision = (meta.revision + 1) - Len(log) + i
  <2>1. Len(meta.changeLog) = IF meta.revision < LogMax THEN meta.revision ELSE LogMax
    BY DEF JournalOK
  <2>2. \A i \in 1 .. Len(meta.changeLog) :
           meta.changeLog[i].revision = meta.revision - Len(meta.changeLog) + i
    BY DEF JournalOK
  <2>3. Len(log) = IF meta.revision < LogMax THEN meta.revision + 1 ELSE LogMax + 1
    BY <1>2, <1>3, <2>1, LogAssumption
  <2>4. ASSUME NEW i \in 1 .. Len(log)
        PROVE  log[i].revision = (meta.revision + 1) - Len(log) + i
    <3>1. CASE i = Len(log)
      BY <1>1, <1>2, <1>3, <3>1
    <3>2. CASE i \in 1 .. Len(meta.changeLog)
      BY <1>2, <1>3, <2>2, <3>2
    <3> QED
      BY <1>3, <3>1, <3>2
  <2> QED
    BY <2>3, <2>4
<1> HIDE DEF log
<1>5. /\ KeepNewest(log) \in Seq(RevisionChange)
      /\ Len(KeepNewest(log)) =
           IF meta.revision + 1 < LogMax THEN meta.revision + 1 ELSE LogMax
      /\ \A i \in 1 .. Len(KeepNewest(log)) :
           KeepNewest(log)[i].revision = (meta.revision + 1) - Len(KeepNewest(log)) + i
  <2>1. CASE Len(log) > LogMax
    <3> DEFINE kept == SubSeq(log, 2, LogMax + 1)
    <3>1. /\ Len(log) \in Nat /\ LogMax \in Nat /\ Len(log) = LogMax + 1
          /\ meta.revision >= LogMax
      BY <1>2, <1>3, <1>4, <2>1, LogAssumption
    <3>2. /\ kept \in Seq(RevisionChange) /\ Len(kept) = LogMax
          /\ \A i \in 1 .. LogMax : kept[i] = log[i + 1]
      BY <1>3, <3>1
    <3>3. KeepNewest(log) = kept
      <4>1. Len(log) - LogMax + 1 = 2
        BY <3>1
      <4> QED
        BY <2>1, <3>1, <4>1 DEF KeepNewest
    <3> HIDE DEF kept
    <3>4. \A i \in 1 .. LogMax : log[i + 1].revision = (meta.revision + 1) - LogMax + i
      <4> SUFFICES ASSUME NEW i \in 1 .. LogMax
                   PROVE  log[i + 1].revision = (meta.revision + 1) - LogMax + i
        OBVIOUS
      <4>1. i + 1 \in 1 .. Len(log)
        BY <3>1
      <4>2. log[i + 1].revision = (meta.revision + 1) - Len(log) + (i + 1)
        BY <1>4, <4>1
      <4>3. (meta.revision + 1) - Len(log) + (i + 1) = (meta.revision + 1) - LogMax + i
        <5>1. meta.revision \in Int /\ LogMax \in Int /\ i \in Int /\ Len(log) = LogMax + 1
          BY <1>2, <3>1
        <5> QED
          BY <5>1
      <4> QED
        BY <4>2, <4>3
    <3>5. \A i \in 1 .. LogMax : kept[i].revision = (meta.revision + 1) - LogMax + i
      BY <3>2, <3>4
    <3>6. Len(kept) = IF meta.revision + 1 < LogMax THEN meta.revision + 1 ELSE LogMax
      BY <1>2, <3>1, <3>2
    <3> QED
      BY <3>2, <3>3, <3>5, <3>6
  <2>2. CASE ~(Len(log) > LogMax)
    BY <1>2, <1>3, <1>4, <2>2, LogAssumption DEF KeepNewest
  <2> QED
    BY <2>1, <2>2
<1>6. next = [meta EXCEPT !.revision = meta.revision + 1, !.changeLog = KeepNewest(log)]
  BY DEF RecordChange, NextRevision, entry, log
<1> HIDE DEF next
<1>7. next \in Meta
  <2>1. meta.revision + 1 \in Nat
    BY <1>2
  <2>2. \A rev \in Nat, kept \in Seq(RevisionChange) :
           [meta EXCEPT !.revision = rev, !.changeLog = kept] \in Meta
    BY DEF Meta
  <2> QED
    BY <1>5, <1>6, <2>1, <2>2
<1>8. next.revision = meta.revision + 1 /\ next.changeLog = KeepNewest(log)
  BY <1>6 DEF Meta
<1>9. JournalOK(next)
  BY <1>5, <1>8 DEF JournalOK
<1> QED
  BY <1>7, <1>9 DEF next

(* An intact journal is bounded. *)
LEMMA JournalBounded ==
  ASSUME NEW meta \in Meta, JournalOK(meta)
  PROVE  Len(meta.changeLog) <= LogMax
<1>1. meta.revision \in Nat
  BY DEF Meta
<1> QED
  BY <1>1, LogAssumption DEF JournalOK

(* A complete feed has an entry for every revision since the client's      *)
(* (get_index_changes): intactness of the journal is all it takes.         *)
THEOREM CompleteFeedCovers ==
  ASSUME NEW meta \in Meta, JournalOK(meta), NEW since \in Nat,
         FeedIsComplete(meta, meta.revision, since)
  PROVE  FeedCovers(meta, meta.revision, since)
<1> DEFINE log == meta.changeLog
<1>1. meta.revision \in Nat /\ Len(log) \in Nat
  BY DEF Meta
<1>2. SUFFICES ASSUME NEW rev \in since + 1 .. meta.revision
               PROVE  \E i \in FeedEntries(meta, since) : log[i].revision = rev
  BY DEF FeedCovers
<1>3. log # << >>
  BY <1>1 DEF FeedIsComplete
<1>4. PICK k \in 1 .. Len(log) : since + 1 >= log[k].revision
  BY <1>3 DEF FeedIsComplete
<1>5. \A i \in 1 .. Len(log) : log[i].revision = meta.revision - Len(log) + i
  BY DEF JournalOK
<1>6. PICK i \in 1 .. Len(log) : i = rev - meta.revision + Len(log)
  BY <1>1, <1>4, <1>5
<1>7. log[i].revision = meta.revision - Len(log) + i
  BY <1>5
<1>8. log[i].revision = rev /\ rev > since
  BY <1>1, <1>6, <1>7
<1> QED
  BY <1>8 DEF FeedEntries

-----------------------------------------------------------------------------
(* The operators of IndexStore return what their types say.                *)

LEMMA NothingType == Nothing \in Content /\ 0 \in Stamps
BY StoreAssumption DEF Nothing, Content, Stamps

LEMMA NewMetaOK == NewMeta \in Meta /\ JournalOK(NewMeta)
<1>1. NewMeta \in Meta
  BY NothingType DEF NewMeta, Meta
<1>2. JournalOK(NewMeta)
  BY LogAssumption DEF NewMeta, JournalOK
<1> QED
  BY <1>1, <1>2

LEMMA VisibleType ==
  ASSUME source \in Content, NEW policy
  PROVE  Visible(policy) \in Content
BY NothingType DEF Visible, Content

LEMMA SnapshotsType ==
  ASSUME source \in Content, dirStamp \in Stamps, NEW policy, NEW s \in Snapshots(policy)
  PROVE  /\ s.files \in Content /\ s.dir \in Stamps
         /\ s = Blank \/ s = [files |-> Visible(policy), dir |-> dirStamp]
BY NothingType, VisibleType DEF Snapshots, Blank

LEMMA EffectivePolicyType ==
  ASSUME NEW meta \in Meta
  PROVE  EffectivePolicy(meta) \in Policies
BY StoreAssumption DEF Meta, EffectivePolicy

LEMMA SnapshotType ==
  ASSUME NEW idx \in Content, NEW revision \in Nat
  PROVE  Snapshot(idx, revision) \in Cached
BY DEF Snapshot, Cached, Agrees

LEMMA FilesThatExistType ==
  ASSUME NEW idx \in Content
  PROVE  FilesThatExist(idx) \in Content
BY NothingType DEF FilesThatExist, Content

LEMMA ReindexedType ==
  ASSUME source \in Content, NEW content \in Content, NEW todo, NEW policy
  PROVE  Reindexed(content, todo, policy) \in Content
BY VisibleType DEF Reindexed, Content

(* The metadata a run of index_project writes. *)
LEMMA FreshMetaOK ==
  ASSUME NEW run \in Run, JournalOK(run.base)
  PROVE  FreshMeta(run) \in Meta /\ JournalOK(FreshMeta(run))
<1> DEFINE carried == [exists |-> TRUE, policy |-> run.policy, files |-> run.files,
                       dir |-> run.dir, revision |-> run.base.revision,
                       changeLog |-> run.base.changeLog]
<1>1. carried \in Meta
  BY DEF Run, Meta
<1>2. JournalOK(carried)
  BY DEF JournalOK
<1>3. Symbols(run.idx) \in SUBSET Files
  BY DEF Symbols
<1> QED
  BY <1>1, <1>2, <1>3, RecordChangeMeta DEF FreshMeta

(* The metadata a flush of the watcher writes. *)
LEMMA FlushMetaOK ==
  ASSUME NEW w \in Watcher, JournalOK(w.base)
  PROVE  FlushMeta(w) \in Meta /\ JournalOK(FlushMeta(w))
<1> DEFINE base == [w.base EXCEPT !.exists = TRUE]
<1>1. base \in Meta /\ base.revision = w.base.revision /\ base.changeLog = w.base.changeLog
  BY DEF Watcher, Meta
<1>2. JournalOK(base)
  BY <1>1 DEF JournalOK
<1>3. /\ (Symbols(w.idx) \cap w.todo) \ w.old \in SUBSET Files
      /\ w.old \ Symbols(w.idx) \in SUBSET Files
      /\ Symbols(w.idx) \cap w.old \in SUBSET Files
  BY DEF Symbols, Watcher
<1> HIDE DEF base
<1>4. RecordChange(base, (Symbols(w.idx) \cap w.todo) \ w.old,
                   w.old \ Symbols(w.idx), Symbols(w.idx) \cap w.old) = FlushMeta(w)
  BY DEF FlushMeta, base
<1> QED
  BY <1>1, <1>2, <1>3, <1>4, RecordChangeMeta

(* Stamping leaves the journal alone; a resync starts a new one. *)
LEMMA StampedOK ==
  ASSUME source \in Content, dirStamp \in Stamps,
         NEW meta \in Meta, JournalOK(meta), NEW todo
  PROVE  Stamped(meta, todo) \in Meta /\ JournalOK(Stamped(meta, todo))
<1> DEFINE files == [f \in Files |-> IF f \in todo THEN source[f] ELSE meta.files[f]]
<1>1. files \in Content
  BY DEF Content, Meta
<1> HIDE DEF files
<1>2. Stamped(meta, todo) = [meta EXCEPT !.exists = TRUE, !.dir = dirStamp, !.files = files]
  BY DEF Stamped, files
<1>3. /\ Stamped(meta, todo) \in Meta
      /\ Stamped(meta, todo).revision = meta.revision
      /\ Stamped(meta, todo).changeLog = meta.changeLog
  BY <1>1, <1>2 DEF Meta
<1> QED
  BY <1>3 DEF JournalOK

LEMMA ResyncMetaOK ==
  ASSUME source \in Content, dirStamp \in Stamps, NEW s \in Snapshots(NoPolicy)
  PROVE  ResyncMeta(s) \in Meta /\ JournalOK(ResyncMeta(s))
<1>1. /\ ResyncMeta(s) \in Meta /\ ResyncMeta(s).revision = 0
      /\ ResyncMeta(s).changeLog = << >>
  <2>1. s.files \in Content /\ s.dir \in Stamps
    BY SnapshotsType
  <2> QED
    BY <2>1, NewMetaOK DEF ResyncMeta, NewMeta, Meta
<1> QED
  BY <1>1, LogAssumption DEF JournalOK

-----------------------------------------------------------------------------
(* The inductive invariant.  A writer holds the metadata it has read in    *)
(* its base until it saves it, so those journals must be intact as well:   *)
(* that is all the interleavings of writers can put into meta.json.        *)

Journals == /\ JournalOK(metaJson)
            /\ \A p \in Indexers : JournalOK(indexer[p].base)
            /\ JournalOK(watcher.base)

IInv == TypeOK /\ Journals

LEMMA InitIInv == Init => IInv
<1> SUFFICES ASSUME Init PROVE IInv
  OBVIOUS
<1> USE NothingType, NewMetaOK, JournalBounded
<1>1. source \in Content /\ clock \in Stamps /\ dirStamp \in Stamps
  BY StoreAssumption DEF Init, Content, Stamps
<1>2. indexBin \in Disk /\ cache \in Cached /\ served \in Content
  BY DEF Init, Disk, Cached, NoSnapshot
<1>3. Idle \in Run /\ NoLoad \in Load /\ Off \in Watcher
  BY DEF Idle, NoLoad, Off, Run, Load, Watcher, IndexerSteps, ReaderSteps, WatcherSteps
<1>4. Idle.base = NewMeta /\ Off.base = NewMeta
  BY DEF Idle, Off
<1> QED
  BY <1>1, <1>2, <1>3, <1>4 DEF Init, IInv, TypeOK, Journals

(* What each step leaves alone keeps its part of the invariant. *)
LEMMA TreeKeepsIInv ==
  ASSUME IInv, NEW f \in Files, NEW version \in Stamps, Change(f, version)
  PROVE  IInv'
<1> USE DEF IInv, TypeOK, Journals
<1>1. clock' \in Stamps /\ dirStamp' \in Stamps /\ source' \in Content
  BY StoreAssumption DEF Change, Stamps, Content
<1>2. UNCHANGED <<indexBin, metaJson, cache, indexer, reader, watcher, events, overflowed,
                   raceOnDisk, misled, lost, served>>
  BY DEF Change, diskVars
<1>3. overlapped' \in SUBSET Indexers /\ untold' \in SUBSET Files
  BY DEF Change
<1> QED
  BY <1>1, <1>2, <1>3

LEMMA NotifyKeepsIInv ==
  ASSUME IInv, NEW f \in Files, Notify(f)
  PROVE  IInv'
<1> USE DEF IInv, TypeOK, Journals
<1>1. watcher' \in Watcher /\ watcher'.base = watcher.base
  BY DEF Notify, Watcher
<1>2. untold' \in SUBSET Files /\ events' \in SUBSET Files /\ overflowed' \in BOOLEAN
  BY DEF Notify
<1> QED
  BY <1>1, <1>2 DEF Notify, treeVars, diskVars, historyVars

(* One step of a run of index_project. *)
LEMMA IndexKeepsIInv ==
  ASSUME IInv, NEW p \in Indexers, Index(p)
  PROVE  IInv'
<1> USE DEF IInv, TypeOK, Journals
<1> DEFINE run == indexer[p]
<1>1. run \in Run /\ JournalOK(run.base)
  OBVIOUS
<1>2. Idle \in Run /\ JournalOK(Idle.base)
  BY NewMetaOK, NothingType DEF Idle, Run, IndexerSteps
<1>3. ASSUME NEW next \in Run, JournalOK(next.base),
             indexer' = [indexer EXCEPT ![p] = next]
      PROVE  /\ indexer' \in [Indexers -> Run]
             /\ \A q \in Indexers : JournalOK(indexer'[q].base)
  BY <1>3
<1>4. ASSUME NEW policy \in Policies, NEW force \in BOOLEAN, IndexStart(p, policy, force)
      PROVE  IInv'
  <2> DEFINE next == [run EXCEPT !.pc = indexer'[p].pc, !.policy = policy]
  <2>1. indexer' = [indexer EXCEPT ![p] = next] /\ next \in Run /\ JournalOK(next.base)
    BY <1>1, <1>4 DEF IndexStart, Run, IndexerSteps, At
  <2>2. misled' \in SUBSET Indexers
    BY <1>4 DEF IndexStart
  <2> QED
    BY <1>3, <1>4, <2>1, <2>2 DEF IndexStart, treeVars, diskVars, watchVars
<1>14. CASE IndexReadMeta(p)
  <2> DEFINE next == [run EXCEPT !.pc = "compare", !.base = metaJson]
  <2>1. indexer' = [indexer EXCEPT ![p] = next] /\ next \in Run /\ JournalOK(next.base)
    BY <1>1, <1>14 DEF IndexReadMeta, Run, IndexerSteps
  <2> QED
    BY <1>3, <1>14, <2>1 DEF IndexReadMeta, treeVars, diskVars, watchVars, historyVars
<1>15. CASE IndexCompare(p)
  <2> DEFINE next == [run EXCEPT !.pc = indexer'[p].pc, !.files = indexer'[p].files,
                                 !.base = NewMeta]
  <2>1. PICK trusted \in BOOLEAN :
           indexer' = [indexer EXCEPT
                         ![p].pc = IF trusted THEN "load_cached" ELSE "parse",
                         ![p].files = IF trusted THEN source ELSE @,
                         ![p].base = NewMeta]
    <3>1. PICK current \in Snapshots(run.policy) :
             indexer' = [indexer EXCEPT
                           ![p].pc = IF UpToDate(run.base, current) THEN "load_cached"
                                                                   ELSE "parse",
                           ![p].files = IF UpToDate(run.base, current) THEN source ELSE @,
                           ![p].base = NewMeta]
      BY <1>15 DEF IndexCompare
    <3>2. UpToDate(run.base, current) \in BOOLEAN
      BY DEF UpToDate
    <3> QED
      BY <3>1, <3>2
  <2>2. indexer' = [indexer EXCEPT ![p] = next] /\ next \in Run /\ JournalOK(next.base)
    BY <1>1, <2>1, NewMetaOK DEF Run, IndexerSteps
  <2>3. misled' \in SUBSET Indexers
    BY <1>15 DEF IndexCompare
  <2>4. UNCHANGED <<treeVars, diskVars, cache, reader, watchVars, overlapped, raceOnDisk,
                    lost, served>>
    BY <1>15 DEF IndexCompare
  <2> HIDE DEF next
  <2> QED
    BY <1>3, <2>2, <2>3, <2>4 DEF treeVars, diskVars, watchVars
<1>16. CASE IndexReadFails(p)
  <2> DEFINE next == [Idle EXCEPT !.pc = "parse", !.policy = run.policy]
  <2>1. indexer' = [indexer EXCEPT ![p] = next] /\ next \in Run /\ JournalOK(next.base)
    BY <1>1, <1>2, <1>16 DEF IndexReadFails, Run, IndexerSteps
  <2> QED
    BY <1>3, <1>16, <2>1 DEF IndexReadFails, treeVars, diskVars, watchVars, historyVars
<1>5. CASE IndexLoadCached(p)
  <2> DEFINE next == [run EXCEPT !.pc = "insert_cached", !.idx = indexBin.idx]
  <2>1. indexer' = [indexer EXCEPT ![p] = next] /\ next \in Run /\ JournalOK(next.base)
    BY <1>1, <1>5 DEF IndexLoadCached, Run, IndexerSteps, Disk
  <2> QED
    BY <1>3, <1>5, <2>1 DEF IndexLoadCached, treeVars, diskVars, watchVars, historyVars
<1>6. CASE IndexInsertCached(p)
  <2>1. cache' \in Cached
    BY <1>1, <1>6, SnapshotType DEF IndexInsertCached, Run
  <2>2. indexer' = [indexer EXCEPT ![p] = Idle]
    BY <1>6 DEF IndexInsertCached, Return
  <2> QED
    BY <1>2, <1>3, <1>6, <2>1, <2>2
    DEF IndexInsertCached, treeVars, diskVars, watchVars, historyVars
<1>7. CASE IndexParse(p)
  <2> DEFINE next == [run EXCEPT !.pc = "save_index", !.idx = Visible(run.policy)]
  <2>1. indexer' = [indexer EXCEPT ![p] = next] /\ next \in Run /\ JournalOK(next.base)
    BY <1>1, <1>7, VisibleType DEF IndexParse, Run, IndexerSteps
  <2>2. overlapped' \in SUBSET Indexers
    BY <1>7 DEF IndexParse
  <2> QED
    BY <1>3, <1>7, <2>1, <2>2 DEF IndexParse, treeVars, diskVars, watchVars
<1>8. CASE IndexSaveIndex(p)
  <2> DEFINE next == [run EXCEPT !.pc = "snapshot"]
  <2>1. indexer' = [indexer EXCEPT ![p] = next] /\ next \in Run /\ JournalOK(next.base)
    BY <1>1, <1>8 DEF IndexSaveIndex, Goto, Run, IndexerSteps
  <2>2. indexBin' \in Disk
    BY <1>1, <1>8 DEF IndexSaveIndex, Disk, Run
  <2>3. /\ overlapped' \in SUBSET Indexers /\ raceOnDisk' \in BOOLEAN
        /\ misled' \in SUBSET Indexers
    BY <1>8 DEF IndexSaveIndex, Deciding, DecidingOn
  <2> QED
    BY <1>3, <1>8, <2>1, <2>2, <2>3 DEF IndexSaveIndex, treeVars, watchVars
<1>9. CASE IndexSnapshot(p)
  <2>0. PICK s \in Snapshots(run.policy) :
           indexer' = [indexer EXCEPT ![p].pc = "load_meta",
                                      ![p].files = s.files, ![p].dir = s.dir]
    BY <1>9 DEF IndexSnapshot
  <2> DEFINE next == [run EXCEPT !.pc = "load_meta", !.files = s.files, !.dir = s.dir]
  <2>1. indexer' = [indexer EXCEPT ![p] = next] /\ next \in Run /\ JournalOK(next.base)
    BY <1>1, <2>0, SnapshotsType DEF Run, IndexerSteps
  <2> QED
    BY <1>3, <1>9, <2>1 DEF IndexSnapshot, treeVars, diskVars, watchVars, historyVars
<1>10. CASE IndexLoadMeta(p)
  <2> DEFINE next == [run EXCEPT !.pc = "save_meta", !.base = metaJson]
  <2>1. indexer' = [indexer EXCEPT ![p] = next] /\ next \in Run /\ JournalOK(next.base)
    BY <1>1, <1>10 DEF IndexLoadMeta, Run, IndexerSteps
  <2> QED
    BY <1>3, <1>10, <2>1 DEF IndexLoadMeta, treeVars, diskVars, watchVars, historyVars
<1>11. CASE IndexSaveMeta(p)
  <2> DEFINE next == [run EXCEPT !.pc = "publish", !.base = metaJson']
  <2>1. metaJson' \in Meta /\ JournalOK(metaJson') /\ Len(metaJson'.changeLog) <= LogMax
    BY <1>1, <1>11, FreshMetaOK, JournalBounded DEF IndexSaveMeta
  <2>2. indexer' = [indexer EXCEPT ![p] = next] /\ next \in Run /\ JournalOK(next.base)
    BY <1>1, <1>11, <2>1 DEF IndexSaveMeta, Run, IndexerSteps
  <2>3. /\ overlapped' \in SUBSET Indexers /\ raceOnDisk' \in BOOLEAN /\ served' \in Content
        /\ misled' \in SUBSET Indexers /\ lost' \in SUBSET Files
    BY <1>1, <1>11 DEF IndexSaveMeta, Run, Deciding, DecidingOn, LostBy
  <2> QED
    BY <1>3, <1>11, <2>1, <2>2, <2>3 DEF IndexSaveMeta, treeVars, watchVars
<1>12. CASE IndexPublish(p)
  <2>1. cache' \in Cached
    BY <1>1, <1>12, SnapshotType DEF IndexPublish, Run, Meta
  <2>2. indexer' = [indexer EXCEPT ![p] = Idle]
    BY <1>12 DEF IndexPublish, Return
  <2> QED
    BY <1>2, <1>3, <1>12, <2>1, <2>2
    DEF IndexPublish, treeVars, diskVars, watchVars, historyVars
<1>13. CASE IndexFail(p)
  <2>1. indexer' = [indexer EXCEPT ![p] = Idle]
    BY <1>13 DEF IndexFail, Return
  <2>2. cache' \in Cached
    <3>1. PICK late \in BOOLEAN : cache' = [cache EXCEPT !.raced = late]
      BY <1>13 DEF IndexFail
    <3> QED
      BY <3>1 DEF Cached
  <2> QED
    BY <1>2, <1>3, <1>13, <2>1, <2>2 DEF IndexFail, treeVars, diskVars, watchVars, historyVars
<1> QED
  BY <1>4, <1>5, <1>6, <1>7, <1>8, <1>9, <1>10, <1>11, <1>12, <1>13,
     <1>14, <1>15, <1>16 DEF Index

(* One step of a cache miss. *)
LEMMA ReadKeepsIInv ==
  ASSUME IInv, NEW r \in Readers, Read(r)
  PROVE  IInv'
<1> USE DEF IInv, TypeOK, Journals
<1> DEFINE load == reader[r]
<1>1. load \in Load
  OBVIOUS
<1>2. CASE ReadLoadIndex(r)
  <2> DEFINE next == [load EXCEPT !.pc = "load_meta", !.idx = indexBin.idx]
  <2>1. reader' = [reader EXCEPT ![r] = next] /\ next \in Load
    BY <1>1, <1>2 DEF ReadLoadIndex, Load, ReaderSteps, Disk
  <2> QED
    BY <1>2, <2>1 DEF ReadLoadIndex, treeVars, diskVars, watchVars, historyVars
<1>3. CASE ReadLoadMeta(r)
  <2> DEFINE next == [load EXCEPT !.pc = "insert", !.revision = metaJson.revision,
                                  !.idx = FilesThatExist(load.idx)]
  <2>1. reader' = [reader EXCEPT ![r] = next]
    BY <1>3 DEF ReadLoadMeta
  <2>2. next \in Load
    BY <1>1, FilesThatExistType DEF Load, ReaderSteps, Meta
  <2> QED
    BY <1>3, <2>1, <2>2 DEF ReadLoadMeta, treeVars, diskVars, watchVars, historyVars
<1>4. CASE ReadInsert(r)
  <2>1. cache' \in Cached /\ NoLoad \in Load
    BY <1>1, <1>4, SnapshotType, NothingType DEF ReadInsert, Load, NoLoad, ReaderSteps
  <2> QED
    BY <1>4, <2>1 DEF ReadInsert, treeVars, diskVars, watchVars, historyVars
<1> QED
  BY <1>2, <1>3, <1>4 DEF Read

(* Starting to watch, and one step of the watcher. *)
LEMMA WatchKeepsIInv ==
  ASSUME IInv, WatchLoad \/ WatchStep
  PROVE  IInv'
<1> USE DEF IInv, TypeOK, Journals
<1> DEFINE w == watcher
<1>1. w \in Watcher /\ JournalOK(w.base)
  OBVIOUS
<1>2. Off \in Watcher /\ Off.base = NewMeta /\ JournalOK(NewMeta)
  BY NewMetaOK, NothingType DEF Off, Watcher, WatcherSteps
<1>3. CASE WatchLoad
  <2>1. cache' \in Cached
    <3>1. metaJson.revision \in Nat /\ indexBin.idx \in Content
      BY DEF Meta, Disk
    <3> QED
      BY <1>3, <3>1, FilesThatExistType, SnapshotType DEF WatchLoad
  <2>2. cache'.idx \in Content
    BY <2>1 DEF Cached
  <2>3. watcher' \in Watcher /\ watcher'.base = NewMeta
    BY <1>2, <1>3, <2>2 DEF WatchLoad, Watcher, WatcherSteps
  <2> QED
    BY <1>2, <1>3, <2>1, <2>2, <2>3 DEF WatchLoad, treeVars, diskVars
<1>4. CASE WatchRegister
  <2>1. watcher' \in Watcher /\ watcher'.base = w.base
    BY <1>4 DEF WatchRegister, Watcher, WatcherSteps
  <2> QED
    BY <1>4, <2>1 DEF WatchRegister, treeVars, diskVars, historyVars
<1>5. ASSUME NEW todo \in SUBSET Files, FlushBatch(todo)
      PROVE  IInv'
  <2>1. EffectivePolicy(metaJson) \in Policies
    BY EffectivePolicyType
  <2>2. Reindexed(watcher.idx, todo, EffectivePolicy(metaJson)) \in Content
    BY ReindexedType DEF Watcher
  <2>3. Symbols(watcher.idx) \cap todo \in SUBSET Files
    BY DEF Symbols
  <2>4. watcher' \in Watcher /\ watcher'.base = w.base
    BY <1>5, <2>1, <2>2, <2>3 DEF FlushBatch, Watcher, WatcherSteps
  <2>5. events' \in SUBSET Files
    BY <1>5 DEF FlushBatch, EventsLeft
  <2> QED
    BY <1>5, <2>4, <2>5 DEF FlushBatch, treeVars, diskVars, historyVars
<1>6. ASSUME NEW todo \in SUBSET Files, FlushResync(todo)
      PROVE  IInv'
  <2>1. EffectivePolicy(metaJson) \in Policies /\ Symbols(watcher.idx) \in SUBSET Files
    BY EffectivePolicyType DEF Symbols
  <2>2. watcher' \in Watcher /\ watcher'.base = w.base
    BY <1>6, <2>1 DEF FlushResync, Watcher, WatcherSteps
  <2>3. events' \in SUBSET Files /\ overflowed' \in BOOLEAN
    BY <1>6 DEF FlushResync, EventsLeft
  <2> QED
    BY <1>6, <2>2, <2>3 DEF FlushResync, treeVars, diskVars, historyVars
<1>7. CASE WatchRebuild
  <2>1. Visible(watcher.policy) \in Content
    BY VisibleType
  <2>2. watcher' \in Watcher /\ watcher'.base = w.base
    BY <1>7, <2>1 DEF WatchRebuild, Watcher, WatcherSteps
  <2> QED
    BY <1>7, <2>2 DEF WatchRebuild, treeVars, diskVars, historyVars
<1>8. CASE WatchRebuildFails
  <2>1. watcher' \in Watcher /\ watcher'.base = NewMeta
    BY <1>2, <1>8 DEF WatchRebuildFails, Watcher, WatcherSteps
  <2> QED
    BY <1>2, <1>8, <2>1 DEF WatchRebuildFails, treeVars, diskVars, historyVars
<1>9. CASE WatchSaveIndex
  <2>1. watcher' \in Watcher /\ watcher'.base = w.base
    BY <1>9 DEF WatchSaveIndex, Watcher, WatcherSteps
  <2>2. indexBin' \in Disk
    <3>1. [exists |-> TRUE, idx |-> watcher.idx] \in Disk
      BY DEF Disk, Watcher
    <3> QED
      BY <1>9, <3>1 DEF WatchSaveIndex
  <2> QED
    BY <1>9, <2>1, <2>2 DEF WatchSaveIndex, treeVars, Deciding
<1>10. CASE WatchInvalidate
  <2>1. watcher' \in Watcher /\ watcher'.base = w.base
    BY <1>10 DEF WatchInvalidate, Watcher, WatcherSteps
  <2>2. cache' \in Cached
    BY <1>10, NothingType DEF WatchInvalidate, Invalidated, NoSnapshot, Cached
  <2> QED
    BY <1>10, <2>1, <2>2 DEF WatchInvalidate, treeVars, diskVars, historyVars
<1>11. CASE WatchLoadMeta
  <2>1. watcher' \in Watcher /\ watcher'.base = metaJson
    BY <1>11 DEF WatchLoadMeta, Watcher, WatcherSteps
  <2> QED
    BY <1>11, <2>1 DEF WatchLoadMeta, treeVars, diskVars, historyVars
<1>12. CASE WatchSaveMeta
  <2>1. watcher' \in Watcher /\ watcher'.base = w.base /\ watcher.idx \in Content
    BY <1>12 DEF WatchSaveMeta, Watcher, WatcherSteps
  <2>2. metaJson' \in Meta /\ JournalOK(metaJson') /\ Len(metaJson'.changeLog) <= LogMax
    BY <1>1, <1>12, FlushMetaOK, JournalBounded DEF WatchSaveMeta
  <2> QED
    BY <1>12, <2>1, <2>2 DEF WatchSaveMeta, treeVars, Deciding
<1>13. CASE WatchLoadStamps
  <2>0. PICK s \in Snapshots(NoPolicy) :
           watcher' = [watcher EXCEPT !.pc = "save_stamps",
                                      !.base = IF watcher.resync THEN ResyncMeta(s)
                                               ELSE Stamped(metaJson, watcher.todo)]
    BY <1>13 DEF WatchLoadStamps
  <2> DEFINE base == IF watcher.resync THEN ResyncMeta(s) ELSE Stamped(metaJson, watcher.todo)
  <2>1. base \in Meta /\ JournalOK(base)
    BY ResyncMetaOK, StampedOK
  <2>2. watcher' = [watcher EXCEPT !.pc = "save_stamps", !.base = base]
    BY <2>0
  <2> HIDE DEF base
  <2>3. watcher' \in Watcher /\ watcher'.base = base
    BY <2>1, <2>2 DEF Watcher, WatcherSteps
  <2> QED
    BY <1>13, <2>1, <2>3 DEF WatchLoadStamps, treeVars, diskVars, historyVars
<1>14. CASE WatchSaveStamps
  <2>1. watcher' \in Watcher /\ watcher'.base = NewMeta
    BY <1>2, <1>14 DEF WatchSaveStamps, Watcher, WatcherSteps
  <2>2. metaJson' \in Meta /\ JournalOK(metaJson') /\ Len(metaJson'.changeLog) <= LogMax
    BY <1>1, <1>14, JournalBounded DEF WatchSaveStamps, Watcher
  <2>3. lost' \in SUBSET Files /\ misled' \in SUBSET Indexers
    BY <1>14 DEF WatchSaveStamps, LostThen, LostBy, Deciding
  <2> QED
    BY <1>2, <1>14, <2>1, <2>2, <2>3 DEF WatchSaveStamps, treeVars
<1> QED
  BY <1>3, <1>4, <1>5, <1>6, <1>7, <1>8, <1>9, <1>10, <1>11, <1>12, <1>13, <1>14
  DEF WatchStep, Flush

LEMMA CrashKeepsIInv == IInv /\ Crash => IInv'
<1> SUFFICES ASSUME IInv, Crash PROVE IInv'
  OBVIOUS
<1> USE DEF IInv, TypeOK, Journals
<1>1. Idle \in Run /\ NoLoad \in Load /\ Off \in Watcher /\ NoSnapshot \in Cached
  BY NewMetaOK, NothingType
  DEF Idle, NoLoad, Off, NoSnapshot, Run, Load, Watcher, Cached,
      IndexerSteps, ReaderSteps, WatcherSteps
<1>2. Idle.base = NewMeta /\ Off.base = NewMeta /\ JournalOK(NewMeta)
  BY NewMetaOK DEF Idle, Off
<1> QED
  BY <1>1, <1>2 DEF Crash, treeVars, diskVars, historyVars

(* The invariant is inductive. *)
LEMMA NextKeepsIInv == IInv /\ [Next]_vars => IInv'
<1> SUFFICES ASSUME IInv, [Next]_vars PROVE IInv'
  OBVIOUS
<1>7. CASE \E f \in Files : Notify(f)
  BY <1>7, NotifyKeepsIInv
<1>1. CASE \E f \in Files : Write(f) \/ Delete(f)
  <2>1. PICK f \in Files : Write(f) \/ Delete(f)
    BY <1>1
  <2>2. \E version \in Stamps : Change(f, version)
    <3>1. 0 \in Stamps
      BY NothingType
    <3>2. CASE Delete(f)
      BY <2>1, <3>1, <3>2 DEF Delete
    <3>3. CASE Write(f)
      <4>1. clock + 1 \in Stamps
        BY <3>3, StoreAssumption DEF IInv, TypeOK, Stamps, Write, Change
      <4> QED
        BY <3>3, <4>1 DEF Write
    <3> QED
      BY <2>1, <3>2, <3>3
  <2> QED
    BY <2>2, TreeKeepsIInv
<1>2. CASE \E p \in Indexers : Index(p)
  BY <1>2, IndexKeepsIInv
<1>3. CASE \E r \in Readers : Read(r)
  BY <1>3, ReadKeepsIInv
<1>4. CASE WatchLoad \/ WatchStep
  BY <1>4, WatchKeepsIInv
<1>5. CASE Crash
  BY <1>5, CrashKeepsIInv
<1>6. CASE UNCHANGED vars
  BY <1>6 DEF vars, treeVars, diskVars, watchVars, historyVars, IInv, TypeOK, Journals
<1> QED
  BY <1>1, <1>2, <1>3, <1>4, <1>5, <1>6, <1>7 DEF Next, Tree

LEMMA AlwaysIInv == Spec => []IInv
<1>1. Init => IInv
  BY InitIInv
<1>2. IInv /\ [Next]_vars => IInv'
  BY NextKeepsIInv
<1> QED
  BY <1>1, <1>2, PTL DEF Spec

-----------------------------------------------------------------------------
(* The snapshot cache.  CacheCoherent is inductive by itself, given the    *)
(* types: a step either leaves index.bin and the cache alone and brings no *)
(* writer to the end of its update, or is one of the few that replace one  *)
(* of the two.                                                             *)

LEMMA FreshSnapshot ==
  ASSUME NEW idx, NEW revision, cache' = Snapshot(idx, revision),
         indexBin' = indexBin
  PROVE  CacheCoherent'
BY DEF CacheCoherent, Snapshot, Agrees

LEMMA StandingSnapshot ==
  ASSUME CacheCoherent, cache' = cache, indexBin' = indexBin,
         NoWriterInBetween' => NoWriterInBetween
  PROVE  CacheCoherent'
BY DEF CacheCoherent, Agrees

LEMMA DroppedSnapshot == cache' = NoSnapshot => CacheCoherent'
BY DEF CacheCoherent, NoSnapshot

LEMMA IndexKeepsCoherent ==
  ASSUME TypeOK, CacheCoherent, NEW p \in Indexers, Index(p)
  PROVE  CacheCoherent'
<1> USE DEF At, Goto, Return
<1>0. indexer \in [Indexers -> Run]
  BY DEF TypeOK
<1>1. CASE \E policy \in Policies, force \in BOOLEAN : IndexStart(p, policy, force)
  <2>1. PICK policy \in Policies, force \in BOOLEAN : IndexStart(p, policy, force)
    BY <1>1
  <2>2. \A q \in Indexers : q # p => indexer'[q] = indexer[q]
    BY <1>0, <2>1 DEF IndexStart
  <2>3. indexer[p].pc = "idle"
    BY <2>1 DEF IndexStart
  <2>4. NoWriterInBetween' => NoWriterInBetween
    BY <2>1, <2>2, <2>3 DEF IndexStart, NoWriterInBetween, WatchIsAt, watchVars
  <2> QED
    BY <2>1, <2>4, StandingSnapshot DEF IndexStart, diskVars
<1>2. CASE \/ IndexReadMeta(p) \/ IndexCompare(p) \/ IndexReadFails(p)
           \/ IndexLoadCached(p) \/ IndexParse(p) \/ IndexSnapshot(p) \/ IndexLoadMeta(p)
  <2>1. /\ \A q \in Indexers : q # p => indexer'[q] = indexer[q]
        /\ \/ indexer[p].pc \in {"check", "compare", "load_cached", "parse"}
           \/ indexer'[p].pc \in {"load_meta", "save_meta"}
    <3>1. CASE IndexLoadCached(p) \/ IndexParse(p)
      BY <1>0, <3>1 DEF IndexLoadCached, IndexParse
    <3>4. CASE IndexReadMeta(p) \/ IndexReadFails(p)
      BY <1>0, <3>4 DEF IndexReadMeta, IndexReadFails
    <3>5. CASE IndexCompare(p)
      BY <1>0, <3>5 DEF IndexCompare
    <3>2. CASE IndexSnapshot(p)
      BY <1>0, <3>2 DEF IndexSnapshot
    <3>3. CASE IndexLoadMeta(p)
      BY <1>0, <3>3 DEF IndexLoadMeta
    <3> QED
      BY <1>2, <3>1, <3>2, <3>3, <3>4, <3>5
  <2>2. cache' = cache /\ indexBin' = indexBin /\ watcher' = watcher
    BY <1>2 DEF IndexReadMeta, IndexCompare, IndexReadFails, IndexLoadCached, IndexParse, IndexSnapshot, IndexLoadMeta,
                diskVars, watchVars
  <2>3. NoWriterInBetween' => NoWriterInBetween
    BY <2>1, <2>2 DEF NoWriterInBetween, WatchIsAt
  <2> QED
    BY <2>2, <2>3, StandingSnapshot
<1>3. CASE IndexInsertCached(p)
  BY <1>3, FreshSnapshot DEF IndexInsertCached, diskVars
<1>4. CASE IndexSaveIndex(p)
  <2>1. indexer'[p].pc = "snapshot"
    BY <1>0, <1>4 DEF IndexSaveIndex
  <2> QED
    BY <2>1 DEF CacheCoherent, NoWriterInBetween
<1>5. CASE IndexSaveMeta(p)
  <2>1. indexer'[p].pc = "publish"
    BY <1>0, <1>5 DEF IndexSaveMeta
  <2> QED
    BY <2>1 DEF CacheCoherent, NoWriterInBetween
<1>6. CASE IndexPublish(p)
  BY <1>6, FreshSnapshot DEF IndexPublish, diskVars
<1>7. CASE IndexFail(p)
  <2>1. indexBin' = indexBin /\ watcher' = watcher
    BY <1>7 DEF IndexFail, diskVars, watchVars
  <2>2. \A q \in Indexers : q # p => indexer'[q] = indexer[q]
    BY <1>0, <1>7 DEF IndexFail
  <2>3. CASE indexer[p].pc = "save_meta"
    <3>1. cache \in Cached
      BY DEF TypeOK
    <3>2. cache'.present = cache.present /\ cache'.raced = (cache.raced \/ cache.present)
      BY <1>7, <2>3, <3>1 DEF IndexFail, Cached
    <3> QED
      BY <3>1, <3>2 DEF CacheCoherent, Cached
  <2>4. CASE indexer[p].pc # "save_meta"
    <3>1. cache' = cache
      BY <1>7, <2>4 DEF IndexFail, TypeOK, Cached
    <3>2. indexer[p].pc \in {"parse", "save_index"}
      BY <1>7, <2>4 DEF IndexFail
    <3>3. NoWriterInBetween' => NoWriterInBetween
      BY <2>1, <2>2, <3>2 DEF NoWriterInBetween, WatchIsAt
    <3> QED
      BY <2>1, <3>1, <3>3, StandingSnapshot
  <2> QED
    BY <2>3, <2>4
<1> QED
  BY <1>1, <1>2, <1>3, <1>4, <1>5, <1>6, <1>7 DEF Index

LEMMA ReadKeepsCoherent ==
  ASSUME CacheCoherent, NEW r \in Readers, Read(r)
  PROVE  CacheCoherent'
<1>1. CASE ReadLoadIndex(r) \/ ReadLoadMeta(r)
  <2>1. /\ cache' = cache /\ indexBin' = indexBin
        /\ indexer' = indexer /\ watcher' = watcher
    BY <1>1 DEF ReadLoadIndex, ReadLoadMeta, diskVars, watchVars
  <2>2. NoWriterInBetween' => NoWriterInBetween
    BY <2>1 DEF NoWriterInBetween, WatchIsAt
  <2> QED
    BY <2>1, <2>2, StandingSnapshot
<1>2. CASE ReadInsert(r)
  BY <1>2, FreshSnapshot DEF ReadInsert, diskVars
<1> QED
  BY <1>1, <1>2 DEF Read

LEMMA WatchKeepsCoherent ==
  ASSUME TypeOK, CacheCoherent, WatchLoad \/ WatchStep
  PROVE  CacheCoherent'
<1> USE DEF WatchIsAt
<1>0. watcher \in Watcher
  BY DEF TypeOK
<1>1. CASE WatchLoad
  <2>1. indexBin' = indexBin /\ indexer' = indexer /\ watcher.pc = "off"
    BY <1>1 DEF WatchLoad, diskVars
  <2>2. CASE cache.present
    <3>1. cache' = cache
      BY <1>1, <2>2 DEF WatchLoad
    <3>2. NoWriterInBetween' => NoWriterInBetween
      BY <2>1 DEF NoWriterInBetween
    <3> QED
      BY <2>1, <3>1, <3>2, StandingSnapshot
  <2>3. CASE ~cache.present
    BY <1>1, <2>1, <2>3, FreshSnapshot DEF WatchLoad
  <2> QED
    BY <2>2, <2>3
<1>2. CASE WatchRegister \/ Flush \/ WatchRebuild \/ WatchRebuildFails
  <2>1. /\ cache' = cache /\ indexBin' = indexBin /\ indexer' = indexer
        /\ watcher.pc \in {"starting", "idle", "rebuild"}
    BY <1>2 DEF WatchRegister, Flush, FlushBatch, FlushResync, WatchRebuild,
                WatchRebuildFails, diskVars
  <2>2. NoWriterInBetween' => NoWriterInBetween
    BY <2>1 DEF NoWriterInBetween
  <2> QED
    BY <2>1, <2>2, StandingSnapshot
<1>3. CASE WatchSaveIndex
  <2>1. watcher'.pc = "invalidate"
    BY <1>0, <1>3 DEF WatchSaveIndex, Watcher
  <2> QED
    BY <2>1 DEF CacheCoherent, NoWriterInBetween
<1>4. CASE WatchInvalidate
  BY <1>4, DroppedSnapshot DEF WatchInvalidate, Invalidated
<1>5. CASE WatchLoadMeta \/ WatchSaveMeta \/ WatchLoadStamps \/ WatchSaveStamps
  <2>1. /\ cache' = cache /\ indexBin' = indexBin /\ indexer' = indexer
        /\ watcher.pc \in {"load_meta", "save_meta", "load_stamps", "save_stamps"}
    BY <1>5 DEF WatchLoadMeta, WatchSaveMeta, WatchLoadStamps, WatchSaveStamps, diskVars
  <2>2. NoWriterInBetween' => NoWriterInBetween
    BY <2>1 DEF NoWriterInBetween
  <2> QED
    BY <2>1, <2>2, StandingSnapshot
<1> QED
  BY <1>1, <1>2, <1>3, <1>4, <1>5 DEF WatchStep

LEMMA NextKeepsCoherent == TypeOK /\ CacheCoherent /\ [Next]_vars => CacheCoherent'
<1> SUFFICES ASSUME TypeOK, CacheCoherent, [Next]_vars PROVE CacheCoherent'
  OBVIOUS
<1>1. CASE Tree
  <2>1. /\ cache' = cache /\ indexBin' = indexBin /\ indexer' = indexer
        /\ watcher'.pc = watcher.pc
    BY <1>1 DEF Tree, Write, Delete, Change, Notify, diskVars, watchVars, TypeOK, Watcher
  <2>2. NoWriterInBetween' => NoWriterInBetween
    BY <2>1 DEF NoWriterInBetween, WatchIsAt
  <2> QED
    BY <2>1, <2>2, StandingSnapshot
<1>2. CASE \E p \in Indexers : Index(p)
  BY <1>2, IndexKeepsCoherent
<1>3. CASE \E r \in Readers : Read(r)
  BY <1>3, ReadKeepsCoherent
<1>4. CASE WatchLoad \/ WatchStep
  BY <1>4, WatchKeepsCoherent
<1>5. CASE Crash
  BY <1>5, DroppedSnapshot DEF Crash
<1>6. CASE UNCHANGED vars
  <2>1. /\ cache' = cache /\ indexBin' = indexBin
        /\ indexer' = indexer /\ watcher' = watcher
    BY <1>6 DEF vars, diskVars, watchVars
  <2>2. NoWriterInBetween' => NoWriterInBetween
    BY <2>1 DEF NoWriterInBetween, WatchIsAt
  <2> QED
    BY <2>1, <2>2, StandingSnapshot
<1> QED
  BY <1>1, <1>2, <1>3, <1>4, <1>5, <1>6 DEF Next

-----------------------------------------------------------------------------
(* When index_project answers "cached" (TrustSound), where no watcher      *)
(* stamps the metadata.  The argument is one of time.  Mtimes never        *)
(* repeat, so a file whose mtime is the recorded one was not touched since *)
(* the walk that recorded it, nor since the parse before it if nobody      *)
(* overlapped the run; and a directory whose mtime is the recorded one     *)
(* holds the files it held.                                                *)

Parsed(p) == indexer[p].pc \in {"save_index", "snapshot", "load_meta", "save_meta"}
Saved(p) == indexer[p].pc \in {"snapshot", "load_meta", "save_meta"}
Statted(p) == indexer[p].pc \in {"load_meta", "save_meta"}

(* No mtime is of the future.                                              *)
PastStamps == 0 < dirStamp /\ dirStamp <= clock /\ \A f \in Files : source[f] <= clock

(* What a walk records: mtimes of the past, and, as long as the directory  *)
(* keeps its mtime, every file that the policy shows.  A blank snapshot    *)
(* records a directory of no time.                                         *)
Recorded(policy, files, dir) ==
  /\ dir <= clock /\ \A f \in Files : files[f] <= clock
  /\ dir = dirStamp =>
       \A f \in Files \ Hidden(policy) : files[f] = 0 => source[f] = 0

(* What a run holds, as far as it has come, if nobody overlapped it.       *)
Undisturbed(p) ==
  /\ Parsed(p) => indexer[p].idx = Visible(indexer[p].policy)
  /\ Saved(p) => indexBin.exists /\ indexBin.idx = indexer[p].idx

RunTrue(p) ==
  /\ Statted(p) => Recorded(indexer[p].policy, indexer[p].files, indexer[p].dir)
  /\ p \notin overlapped => Undisturbed(p)

(* What a run goes by that answers from disk, if it was not misled.        *)
Decided(p) ==
  p \notin misled =>
    /\ indexer[p].pc \in {"check", "compare"} =>
         indexBin.exists /\ metaJson.exists /\ metaJson.policy = indexer[p].policy
    /\ indexer[p].pc = "compare" => indexer[p].base = metaJson
    /\ indexer[p].pc = "load_cached" =>
         Shows(indexBin.idx, indexer[p].policy, indexer[p].files)
    /\ indexer[p].pc = "insert_cached" =>
         Shows(indexer[p].idx, indexer[p].policy, indexer[p].files)

MetaRecords ==
  metaJson.exists => Recorded(metaJson.policy, metaJson.files, metaJson.dir)

(* A file that keeps its recorded mtime is indexed as it is.               *)
DiskAgrees ==
  ~raceOnDisk /\ indexBin.exists /\ metaJson.exists =>
    \A f \in Files :
       /\ f \in Hidden(metaJson.policy) => indexBin.idx[f] = 0
       /\ /\ f \notin Hidden(metaJson.policy)
          /\ metaJson.files[f] # 0 /\ metaJson.files[f] = source[f]
          => indexBin.idx[f] = source[f]

DiskTrue == MetaRecords /\ DiskAgrees
Unwatched == ~WatchEnabled /\ watcher.pc = "off"

TInv == /\ TypeOK /\ Unwatched /\ PastStamps
        /\ \A p \in Indexers : RunTrue(p) /\ Decided(p)
        /\ DiskTrue

-----------------------------------------------------------------------------
(* What stands while others move.                                          *)

LEMMA DiskStands ==
  ASSUME DiskTrue, UNCHANGED treeVars, UNCHANGED diskVars, raceOnDisk' = raceOnDisk
  PROVE  DiskTrue'
BY DEF DiskTrue, MetaRecords, DiskAgrees, Recorded, treeVars, diskVars

LEMMA RunStands ==
  ASSUME NEW p, RunTrue(p), indexer'[p] = indexer[p], UNCHANGED treeVars,
         p \in overlapped => p \in overlapped',
         p \in overlapped' \/ indexBin' = indexBin
  PROVE  RunTrue(p)'
BY DEF RunTrue, Undisturbed, Parsed, Saved, Statted, Recorded, Visible, treeVars

LEMMA DecidedStands ==
  ASSUME NEW p, Decided(p), indexer'[p] = indexer[p], p \in misled => p \in misled',
         \/ p \in misled' \/ UNCHANGED diskVars
         \/ indexer[p].pc \notin Undecided
  PROVE  Decided(p)'
BY DEF Decided, Shows, Hidden, diskVars, Undecided

LEMMA DecidedElse ==
  ASSUME NEW p, indexer'[p].pc \notin Undecided \cup {"insert_cached"}
  PROVE  Decided(p)'
BY DEF Decided, Undecided

LEMMA RunOver ==
  ASSUME NEW p, ~Parsed(p)'
  PROVE  RunTrue(p)'
BY DEF RunTrue, Undisturbed, Parsed, Saved, Statted

LEMMA StampsStand == PastStamps /\ UNCHANGED treeVars => PastStamps'
BY DEF PastStamps, treeVars

-----------------------------------------------------------------------------
(* A change to the tree gives new mtimes, so what was recorded of the      *)
(* changed file, or of a directory it enters or leaves, no longer counts.  *)

LEMMA RecordStands ==
  ASSUME TypeOK, NEW f \in Files, NEW version \in {0, clock + 1}, Change(f, version),
         version = 0 => source[f] # 0,
         NEW policy, NEW files, NEW dir, Recorded(policy, files, dir),
         dir \in Nat, files \in Content
  PROVE  Recorded(policy, files, dir)'
<1>1. /\ clock \in Nat /\ clock' = clock + 1
      /\ source' = [source EXCEPT ![f] = version] /\ source \in Content
      /\ dirStamp' = IF source[f] = 0 \/ version = 0 THEN clock + 1 ELSE dirStamp
  BY StoreAssumption DEF Change, TypeOK, Stamps
<1>2. \A g \in Files : files[g] \in Nat
  BY StoreAssumption DEF Content, Stamps
<1>3. dir <= clock' /\ \A g \in Files : files[g] <= clock'
  BY <1>1, <1>2 DEF Recorded
<1>4. ASSUME dir = dirStamp', NEW g \in Files \ Hidden(policy), files[g] = 0
      PROVE  source'[g] = 0
  <2>1. source[f] # 0 /\ version # 0 /\ dirStamp' = dirStamp
    BY <1>1, <1>4 DEF Recorded
  <2>2. source[g] = 0
    BY <1>4, <2>1 DEF Recorded
  <2>3. g # f
    BY <2>1, <2>2
  <2> QED
    BY <1>1, <2>2, <2>3 DEF Content
<1> QED
  BY <1>3, <1>4 DEF Recorded

LEMMA TreeKeepsTInv ==
  ASSUME TInv, NEW f \in Files, NEW version \in {0, clock + 1}, Change(f, version),
         version = 0 => source[f] # 0, TypeOK'
  PROVE  TInv'
<1>1. /\ clock \in Nat /\ clock' = clock + 1
      /\ source' = [source EXCEPT ![f] = version] /\ source \in Content
      /\ dirStamp' = IF source[f] = 0 \/ version = 0 THEN clock + 1 ELSE dirStamp
      /\ dirStamp \in Nat
  BY StoreAssumption DEF Change, TInv, TypeOK, Stamps
<1>2. /\ indexBin' = indexBin /\ metaJson' = metaJson /\ indexer' = indexer
      /\ overlapped' = Indexers /\ raceOnDisk' = raceOnDisk /\ misled' = misled
  BY DEF Change, diskVars
<1>3. Unwatched'
  BY DEF TInv, Unwatched, Change
<1>4. PastStamps'
  <2>1. \A g \in Files : source[g] \in Nat /\ source[g] <= clock
    BY StoreAssumption DEF TInv, PastStamps, TypeOK, Content, Stamps
  <2>2. \A g \in Files : source'[g] <= clock'
    BY <1>1, <2>1 DEF Content
  <2>3. 0 < dirStamp' /\ dirStamp' <= clock'
    BY <1>1 DEF TInv, PastStamps
  <2> QED
    BY <2>2, <2>3 DEF PastStamps
<1>5. ASSUME NEW p \in Indexers PROVE RunTrue(p)'
  <2>1. RunTrue(p) /\ indexer[p] \in Run
    BY DEF TInv, TypeOK
  <2>2. indexer[p].dir \in Nat /\ indexer[p].files \in Content
    BY <2>1, StoreAssumption DEF Run, Stamps
  <2>3. CASE Statted(p)
    <3>1. Recorded(indexer[p].policy, indexer[p].files, indexer[p].dir)
      BY <2>1, <2>3 DEF RunTrue
    <3>2. PICK policy, files, dir :
             /\ policy = indexer[p].policy /\ files = indexer[p].files
             /\ dir = indexer[p].dir
      OBVIOUS
    <3>3. Recorded(policy, files, dir)'
      BY <2>2, <3>1, <3>2, RecordStands DEF TInv
    <3>4. Recorded(indexer[p].policy, indexer[p].files, indexer[p].dir)'
      BY <1>2, <3>2, <3>3 DEF Recorded
    <3> QED
      BY <1>2, <3>4 DEF RunTrue
  <2>4. CASE ~Statted(p)
    BY <1>2, <2>4 DEF RunTrue, Statted
  <2> QED
    BY <2>3, <2>4
<1>6. MetaRecords'
  <2>1. metaJson.dir \in Nat /\ metaJson.files \in Content
    BY StoreAssumption DEF TInv, TypeOK, Meta, Stamps
  <2>2. \A policy, files, dir :
           Recorded(policy, files, dir) /\ dir \in Nat /\ files \in Content
             => Recorded(policy, files, dir)'
    BY RecordStands DEF TInv
  <2> QED
    BY <1>2, <2>1, <2>2 DEF TInv, DiskTrue, MetaRecords, Recorded
<1>7. DiskAgrees'
  <2> SUFFICES ASSUME ~raceOnDisk, indexBin.exists, metaJson.exists, NEW g \in Files,
                      g \notin Hidden(metaJson.policy),
                      metaJson.files[g] # 0, metaJson.files[g] = source'[g]
               PROVE  indexBin.idx[g] = source'[g]
    BY <1>2 DEF TInv, DiskTrue, DiskAgrees
  <2>1. metaJson.files[g] \in Nat /\ metaJson.files[g] <= clock
    BY StoreAssumption
    DEF TInv, DiskTrue, MetaRecords, Recorded, TypeOK, Meta, Content, Stamps
  <2>2. g # f
    BY <1>1, <2>1 DEF Content
  <2>3. source'[g] = source[g]
    BY <1>1, <2>2 DEF Content
  <2> QED
    BY <2>3 DEF TInv, DiskTrue, DiskAgrees
<1>8. ASSUME NEW p \in Indexers PROVE Decided(p)'
  BY <1>2, DecidedStands DEF TInv, diskVars
<1> QED
  BY <1>3, <1>4, <1>5, <1>6, <1>7, <1>8 DEF TInv, DiskTrue

-----------------------------------------------------------------------------
(* A run of index_project.                                                 *)

(* The tree a run compares with metadata that no failed stat and no race   *)
(* has spoiled is the tree that index.bin shows.                           *)
LEMMA ComparedShows ==
  ASSUME DiskTrue, PastStamps, ~raceOnDisk, indexBin.exists, metaJson.exists,
         NEW policy, metaJson.policy = policy,
         NEW current \in Snapshots(policy), current # Blank, UpToDate(metaJson, current)
  PROVE  Shows(indexBin.idx, policy, source)
<1> SUFFICES ASSUME NEW f \in Files, source[f] # 0
             PROVE  indexBin.idx[f] = IF f \in Hidden(policy) THEN 0 ELSE source[f]
  BY DEF Shows
<1>1. /\ f \in Hidden(policy) => indexBin.idx[f] = 0
      /\ f \notin Hidden(policy) /\ metaJson.files[f] # 0 /\ metaJson.files[f] = source[f]
           => indexBin.idx[f] = source[f]
  BY DEF DiskTrue, DiskAgrees
<1>2. f \notin Hidden(policy) => metaJson.files[f] # 0 /\ metaJson.files[f] = source[f]
  <2> SUFFICES ASSUME f \notin Hidden(policy)
               PROVE  metaJson.files[f] # 0 /\ metaJson.files[f] = source[f]
    OBVIOUS
  <2>1. CASE metaJson.dir = dirStamp
    <3>1. metaJson.files[f] # 0
      BY <2>1 DEF DiskTrue, MetaRecords, Recorded
    <3> QED
      BY <3>1 DEF UpToDate
  <2>2. CASE metaJson.files = current.files
    <3>1. current.files = Visible(policy)
      BY DEF Snapshots
    <3> QED
      BY <2>2, <3>1 DEF Visible
  <2> QED
    BY <2>1, <2>2 DEF UpToDate
<1> QED
  BY <1>1, <1>2

LEMMA IndexKeepsDecided ==
  ASSUME TInv, NEW p \in Indexers, Index(p)
  PROVE  \A q \in Indexers : Decided(q)'
<1> USE DEF At, Goto, Return
<1>0. indexer \in [Indexers -> Run] /\ \A q \in Indexers : Decided(q)
  BY DEF TInv, TypeOK
<1>1. ASSUME NEW q \in Indexers, q # p PROVE Decided(q)'
  <2>1. indexer'[q] = indexer[q]
    BY <1>0, <1>1 DEF Index, IndexStart, IndexReadMeta, IndexCompare, IndexReadFails,
           IndexLoadCached, IndexInsertCached, IndexParse, IndexSaveIndex, IndexSnapshot,
           IndexLoadMeta, IndexSaveMeta, IndexPublish, IndexFail
  <2>2. /\ q \in misled => q \in misled'
        /\ q \in misled' \/ UNCHANGED diskVars \/ indexer[q].pc \notin Undecided
    <3>1. CASE IndexSaveIndex(p)
      BY <1>1, <3>1 DEF IndexSaveIndex, Deciding, DecidingOn
    <3>2. CASE IndexSaveMeta(p)
      BY <1>1, <3>2 DEF IndexSaveMeta, Deciding, DecidingOn
    <3>3. CASE ~IndexSaveIndex(p) /\ ~IndexSaveMeta(p)
      BY <1>1, <3>3 DEF Index, IndexStart, IndexReadMeta, IndexCompare, IndexReadFails,
           IndexLoadCached, IndexInsertCached, IndexParse, IndexSnapshot,
           IndexLoadMeta, IndexPublish, IndexFail, historyVars
    <3> QED
      BY <3>1, <3>2, <3>3
  <2> QED
    BY <1>0, <2>1, <2>2, DecidedStands
<1>2. Decided(p)'
  <2>1. CASE \E policy \in Policies, force \in BOOLEAN : IndexStart(p, policy, force)
    <3>1. PICK policy \in Policies, force \in BOOLEAN : IndexStart(p, policy, force)
      BY <2>1
    <3>2. /\ indexer'[p].pc \in {"check", "parse"} /\ indexer'[p].policy = policy
          /\ indexer'[p].pc = "check" => ExcludesMatch(policy)
          /\ UNCHANGED <<indexBin, metaJson>>
      BY <1>0, <3>1 DEF IndexStart, Run, diskVars
    <3> QED
      BY <3>2 DEF Decided, ExcludesMatch
  <2>2. CASE IndexReadMeta(p)
    <3>1. /\ indexer[p].pc = "check" /\ indexer'[p].pc = "compare"
          /\ indexer'[p].policy = indexer[p].policy /\ indexer'[p].base = metaJson
          /\ UNCHANGED <<indexBin, metaJson>> /\ misled' = misled
      BY <1>0, <2>2 DEF IndexReadMeta, Run, diskVars, historyVars
    <3> QED
      BY <1>0, <3>1 DEF Decided
  <2>3. CASE IndexCompare(p)
    <3>1. PICK current \in Snapshots(indexer[p].policy) :
             /\ indexer' = [indexer EXCEPT
                              ![p].pc = IF UpToDate(indexer[p].base, current)
                                        THEN "load_cached" ELSE "parse",
                              ![p].files = IF UpToDate(indexer[p].base, current)
                                           THEN source ELSE @,
                              ![p].base = NewMeta]
             /\ misled' = IF raceOnDisk \/ current = Blank THEN misled \cup {p} ELSE misled
      BY <2>3 DEF IndexCompare
    <3>2. CASE ~UpToDate(indexer[p].base, current)
      <4>1. indexer'[p].pc = "parse"
        BY <1>0, <3>1, <3>2 DEF Run
      <4> QED
        BY <4>1 DEF Decided
    <3>3. CASE UpToDate(indexer[p].base, current)
      <4>1. /\ indexer'[p].pc = "load_cached" /\ indexer'[p].policy = indexer[p].policy
            /\ indexer'[p].files = source
        BY <1>0, <3>1, <3>3 DEF Run
      <4>2. UNCHANGED <<indexBin, metaJson>> /\ indexer[p].pc = "compare"
        BY <2>3 DEF IndexCompare, diskVars
      <4>3. ASSUME p \notin misled' PROVE Shows(indexBin.idx, indexer[p].policy, source)
        <5>1. ~raceOnDisk /\ current # Blank /\ p \notin misled
          BY <3>1, <4>3
        <5>2. /\ indexBin.exists /\ metaJson.exists
              /\ metaJson.policy = indexer[p].policy /\ indexer[p].base = metaJson
          BY <1>0, <4>2, <5>1 DEF Decided
        <5> QED
          BY <3>3, <5>1, <5>2, ComparedShows DEF TInv
      <4> QED
        BY <4>1, <4>2, <4>3 DEF Decided, Shows, Hidden
    <3> QED
      BY <3>2, <3>3
  <2>4. CASE IndexLoadCached(p)
    <3>1. /\ indexer[p].pc = "load_cached" /\ indexer'[p].pc = "insert_cached"
          /\ indexer'[p].policy = indexer[p].policy /\ indexer'[p].files = indexer[p].files
          /\ indexer'[p].idx = indexBin.idx /\ misled' = misled
      BY <1>0, <2>4 DEF IndexLoadCached, Run, historyVars
    <3> QED
      BY <1>0, <3>1 DEF Decided, Shows, Hidden
  <2>5. CASE IndexInsertCached(p) \/ IndexPublish(p) \/ IndexFail(p)
    <3>1. indexer'[p].pc = "idle"
      BY <1>0, <2>5 DEF IndexInsertCached, IndexPublish, IndexFail, Idle
    <3> QED
      BY <3>1 DEF Decided
  <2>6. CASE IndexParse(p) \/ IndexSaveIndex(p) \/ IndexLoadMeta(p) \/ IndexSaveMeta(p)
    <3>1. indexer'[p].pc \in {"save_index", "snapshot", "save_meta", "publish"}
      BY <1>0, <2>6 DEF IndexParse, IndexSaveIndex, IndexLoadMeta, IndexSaveMeta, Run
    <3> QED
      BY <3>1 DEF Decided
  <2>7. CASE IndexSnapshot(p)
    <3>1. indexer'[p].pc = "load_meta"
      BY <1>0, <2>7 DEF IndexSnapshot, Run
    <3> QED
      BY <3>1 DEF Decided
  <2>8. CASE IndexReadFails(p)
    <3>1. indexer'[p].pc = "parse"
      BY <1>0, <2>8 DEF IndexReadFails, Idle
    <3> QED
      BY <3>1 DEF Decided
  <2> QED
    BY <2>1, <2>2, <2>3, <2>4, <2>5, <2>6, <2>7, <2>8 DEF Index
<1> QED
  BY <1>1, <1>2

LEMMA IndexKeepsTInv ==
  ASSUME TInv, NEW p \in Indexers, Index(p), TypeOK'
  PROVE  TInv'
<1> USE DEF At, Goto, Return
<1>0. /\ indexer \in [Indexers -> Run] /\ DiskTrue /\ PastStamps /\ Unwatched
      /\ \A q \in Indexers : RunTrue(q) /\ Decided(q)
  BY DEF TInv, TypeOK
<1>1. UNCHANGED treeVars /\ UNCHANGED watchVars
      /\ \A q \in Indexers : q # p => indexer'[q] = indexer[q]
  <2>1. UNCHANGED treeVars /\ UNCHANGED watchVars
    BY DEF Index, IndexStart, IndexReadMeta, IndexCompare, IndexReadFails, IndexLoadCached, IndexInsertCached, IndexParse,
           IndexSaveIndex, IndexSnapshot, IndexLoadMeta, IndexSaveMeta,
           IndexPublish, IndexFail
  <2>2. \A q \in Indexers : q # p => indexer'[q] = indexer[q]
    BY <1>0 DEF Index, IndexStart, IndexReadMeta, IndexCompare, IndexReadFails, IndexLoadCached, IndexInsertCached, IndexParse,
           IndexSaveIndex, IndexSnapshot, IndexLoadMeta, IndexSaveMeta,
           IndexPublish, IndexFail
  <2> QED
    BY <2>1, <2>2
<1>2. PastStamps' /\ Unwatched'
  BY <1>0, <1>1, StampsStand DEF Unwatched, watchVars
<1>3. \A q \in Indexers : Decided(q)'
  BY IndexKeepsDecided
<1>10. SUFFICES (\A q \in Indexers : RunTrue(q)') /\ DiskTrue'
  BY <1>2, <1>3 DEF TInv
<1>4. CASE \/ \E policy \in Policies, force \in BOOLEAN : IndexStart(p, policy, force)
           \/ IndexReadMeta(p) \/ IndexCompare(p) \/ IndexReadFails(p)
           \/ IndexLoadCached(p) \/ IndexInsertCached(p) \/ IndexPublish(p) \/ IndexFail(p)
  <2>1. UNCHANGED diskVars /\ raceOnDisk' = raceOnDisk /\ overlapped' = overlapped
    BY <1>4 DEF IndexStart, IndexReadMeta, IndexCompare, IndexReadFails, IndexLoadCached, IndexInsertCached, IndexPublish,
                IndexFail, historyVars
  <2>2. ~Parsed(p)'
    <3>1. CASE \E policy \in Policies, force \in BOOLEAN : IndexStart(p, policy, force)
      <4>1. PICK policy \in Policies, force \in BOOLEAN : IndexStart(p, policy, force)
        BY <3>1
      <4>2. indexer'[p].pc \in {"check", "parse"}
        BY <1>0, <4>1 DEF IndexStart, Run
      <4> QED
        BY <4>2 DEF Parsed
    <3>2. CASE IndexLoadCached(p)
      <4>1. indexer'[p].pc = "insert_cached"
        BY <1>0, <3>2 DEF IndexLoadCached, Run
      <4> QED
        BY <4>1 DEF Parsed
    <3>3. CASE IndexInsertCached(p) \/ IndexPublish(p) \/ IndexFail(p)
      <4>1. indexer'[p] = Idle
        BY <1>0, <3>3 DEF IndexInsertCached, IndexPublish, IndexFail
      <4> QED
        BY <4>1 DEF Parsed, Idle
    <3>4. CASE IndexReadMeta(p) \/ IndexReadFails(p)
      <4>1. indexer'[p].pc \in {"compare", "parse"}
        BY <1>0, <3>4 DEF IndexReadMeta, IndexReadFails, Run, Idle
      <4> QED
        BY <4>1 DEF Parsed
    <3>5. CASE IndexCompare(p)
      <4>1. indexer'[p].pc \in {"load_cached", "parse"}
        BY <1>0, <3>5 DEF IndexCompare, Run
      <4> QED
        BY <4>1 DEF Parsed
    <3> QED
      BY <1>4, <3>1, <3>2, <3>3, <3>4, <3>5
  <2>3. ASSUME NEW q \in Indexers PROVE RunTrue(q)'
    BY <1>0, <1>1, <2>1, <2>2, RunOver, RunStands DEF diskVars
  <2> QED
    BY <1>0, <1>1, <2>1, <2>3, DiskStands
<1>5. CASE IndexParse(p)
  <2>1. /\ UNCHANGED diskVars /\ raceOnDisk' = raceOnDisk
        /\ overlapped' = overlapped \ {p}
    BY <1>5 DEF IndexParse
  <2>2. /\ indexer'[p].pc = "save_index" /\ indexer'[p].policy = indexer[p].policy
        /\ indexer'[p].idx = Visible(indexer[p].policy)
    BY <1>0, <1>5 DEF IndexParse, Run
  <2>3. Visible(indexer[p].policy)' = Visible(indexer'[p].policy)
    BY <1>1, <2>2 DEF Visible, treeVars
  <2>4. RunTrue(p)'
    BY <1>1, <2>2 DEF RunTrue, Undisturbed, Parsed, Saved, Statted, Visible, treeVars
  <2>5. ASSUME NEW q \in Indexers, q # p PROVE RunTrue(q)'
    BY <1>0, <1>1, <2>1, <2>5, RunStands DEF diskVars
  <2> QED
    BY <1>0, <1>1, <2>1, <2>4, <2>5, DiskStands
<1>6. CASE IndexSaveIndex(p)
  <2>1. /\ indexBin' = [exists |-> TRUE, idx |-> indexer[p].idx]
        /\ metaJson' = metaJson
        /\ overlapped' = overlapped \cup (Indexers \ {p})
        /\ raceOnDisk' = (raceOnDisk \/ p \in overlapped \/ SwitchesPolicy(p))
        /\ Parsed(p)
    BY <1>6 DEF IndexSaveIndex, Parsed
  <2>2. /\ indexer'[p].pc = "snapshot" /\ indexer'[p].policy = indexer[p].policy
        /\ indexer'[p].idx = indexer[p].idx
    BY <1>0, <1>6 DEF IndexSaveIndex, Run
  <2>3. RunTrue(p)'
    BY <1>0, <1>1, <2>1, <2>2
    DEF RunTrue, Undisturbed, Parsed, Saved, Statted, Visible, treeVars
  <2>4. ASSUME NEW q \in Indexers, q # p PROVE RunTrue(q)'
    BY <1>0, <1>1, <2>1, <2>4, RunStands
  <2>5. MetaRecords'
    BY <1>0, <1>1, <2>1 DEF DiskTrue, MetaRecords, Recorded, treeVars
  <2>6. DiskAgrees'
    <3> SUFFICES ASSUME ~raceOnDisk', metaJson.exists, NEW f \in Files
                 PROVE  /\ f \in Hidden(metaJson.policy) => indexer[p].idx[f] = 0
                        /\ f \notin Hidden(metaJson.policy)
                             => indexer[p].idx[f] = source[f]
      BY <1>1, <2>1 DEF DiskAgrees, treeVars
    <3>1. p \notin overlapped /\ metaJson.policy = indexer[p].policy
      BY <2>1 DEF SwitchesPolicy
    <3>2. indexer[p].idx = Visible(metaJson.policy)
      BY <1>0, <2>1, <3>1 DEF RunTrue, Undisturbed
    <3>3. CASE f \in Hidden(metaJson.policy)
      <4>1. indexer[p].idx[f] = 0
        BY <3>2, <3>3 DEF Visible
      <4> QED
        BY <3>3, <4>1
    <3>4. CASE f \notin Hidden(metaJson.policy)
      BY <3>2, <3>4 DEF Visible
    <3> QED
      BY <3>3, <3>4
  <2> QED
    BY <2>3, <2>4, <2>5, <2>6 DEF DiskTrue
<1>7. CASE IndexSnapshot(p)
  <2>1. /\ UNCHANGED diskVars /\ raceOnDisk' = raceOnDisk /\ overlapped' = overlapped
        /\ Saved(p) /\ Parsed(p)
    BY <1>7 DEF IndexSnapshot, historyVars, Saved, Parsed
  <2>0. PICK s \in Snapshots(indexer[p].policy) :
           indexer' = [indexer EXCEPT ![p].pc = "load_meta",
                                      ![p].files = s.files, ![p].dir = s.dir]
    BY <1>7 DEF IndexSnapshot
  <2>2. /\ indexer'[p].pc = "load_meta" /\ indexer'[p].policy = indexer[p].policy
        /\ indexer'[p].idx = indexer[p].idx /\ indexer'[p].dir = s.dir
        /\ indexer'[p].files = s.files
    BY <1>0, <2>0 DEF Run
  <2>3. Recorded(indexer[p].policy, s.files, s.dir)
    <3>1. (\A f \in Files : source[f] \in Nat) /\ clock \in Nat /\ dirStamp \in Nat
      BY StoreAssumption DEF TInv, TypeOK, Content, Stamps
    <3>2. s = Blank \/ s = [files |-> Visible(indexer[p].policy), dir |-> dirStamp]
      BY DEF Snapshots
    <3>3. CASE s = Blank
      BY <1>0, <3>1, <3>3 DEF Recorded, PastStamps, Blank, Nothing
    <3>4. CASE s = [files |-> Visible(indexer[p].policy), dir |-> dirStamp]
      BY <1>0, <3>1, <3>4 DEF Recorded, PastStamps, Visible
    <3> QED
      BY <3>2, <3>3, <3>4
  <2>4. Recorded(indexer[p].policy, indexer[p].files, indexer[p].dir)'
    BY <1>1, <2>2, <2>3 DEF Recorded, treeVars
  <2>5. p \notin overlapped => Undisturbed(p)'
    <3>1. p \notin overlapped =>
             /\ indexer[p].idx = Visible(indexer[p].policy)
             /\ indexBin.exists /\ indexBin.idx = indexer[p].idx
      BY <1>0, <2>1 DEF RunTrue, Undisturbed
    <3>2. Visible(indexer[p].policy)' = Visible(indexer[p].policy)
      BY <1>1, <2>2 DEF Visible, treeVars
    <3> QED
      BY <2>1, <2>2, <3>1, <3>2 DEF Undisturbed, diskVars
  <2>6. RunTrue(p)'
    BY <2>1, <2>4, <2>5 DEF RunTrue
  <2>7. ASSUME NEW q \in Indexers, q # p PROVE RunTrue(q)'
    BY <1>0, <1>1, <2>1, <2>7, RunStands DEF diskVars
  <2> QED
    BY <1>0, <1>1, <2>1, <2>6, <2>7, DiskStands
<1>8. CASE IndexLoadMeta(p)
  <2>1. /\ UNCHANGED diskVars /\ raceOnDisk' = raceOnDisk /\ overlapped' = overlapped
        /\ Statted(p) /\ Saved(p) /\ Parsed(p)
    BY <1>8 DEF IndexLoadMeta, historyVars, Statted, Saved, Parsed
  <2>2. /\ indexer'[p].pc = "save_meta" /\ indexer'[p].policy = indexer[p].policy
        /\ indexer'[p].idx = indexer[p].idx /\ indexer'[p].dir = indexer[p].dir
        /\ indexer'[p].files = indexer[p].files
    BY <1>0, <1>8 DEF IndexLoadMeta, Run
  <2>3. RunTrue(p)'
    BY <1>0, <1>1, <2>1, <2>2 DEF RunTrue, Undisturbed, Recorded, Visible, treeVars, diskVars
  <2>4. ASSUME NEW q \in Indexers, q # p PROVE RunTrue(q)'
    BY <1>0, <1>1, <2>1, <2>4, RunStands DEF diskVars
  <2> QED
    BY <1>0, <1>1, <2>1, <2>3, <2>4, DiskStands
<1>9. CASE IndexSaveMeta(p)
  <2>1. /\ indexBin' = indexBin /\ metaJson' = FreshMeta(indexer[p])
        /\ overlapped' = overlapped \cup (Indexers \ {p})
        /\ raceOnDisk' = (p \in overlapped)
        /\ Statted(p) /\ Saved(p) /\ Parsed(p)
    BY <1>9 DEF IndexSaveMeta, Statted, Saved, Parsed
  <2>2. /\ metaJson'.exists /\ metaJson'.policy = indexer[p].policy
        /\ metaJson'.files = indexer[p].files /\ metaJson'.dir = indexer[p].dir
    BY <2>1 DEF FreshMeta, RecordChange
  <2>3. ~Parsed(p)'
    <3>1. indexer'[p].pc = "publish"
      BY <1>0, <1>9 DEF IndexSaveMeta, Run
    <3> QED
      BY <3>1 DEF Parsed
  <2>4. ASSUME NEW q \in Indexers PROVE RunTrue(q)'
    BY <1>0, <1>1, <2>1, <2>3, <2>4, RunOver, RunStands
  <2>5. MetaRecords'
    <3>1. Recorded(indexer[p].policy, indexer[p].files, indexer[p].dir)
      BY <1>0, <2>1 DEF RunTrue
    <3> QED
      BY <1>1, <2>2, <3>1 DEF MetaRecords, Recorded, treeVars
  <2>6. DiskAgrees'
    <3> SUFFICES ASSUME p \notin overlapped, NEW f \in Files
                 PROVE  /\ f \in Hidden(indexer[p].policy) => indexBin.idx[f] = 0
                        /\ f \notin Hidden(indexer[p].policy)
                             => indexBin.idx[f] = source[f]
      BY <1>1, <2>1, <2>2 DEF DiskAgrees, treeVars
    <3>1. indexBin.idx = Visible(indexer[p].policy)
      BY <1>0, <2>1 DEF RunTrue, Undisturbed
    <3> QED
      BY <3>1 DEF Visible
  <2> QED
    BY <2>4, <2>5, <2>6 DEF DiskTrue
<1> QED
  BY <1>4, <1>5, <1>6, <1>7, <1>8, <1>9 DEF Index

-----------------------------------------------------------------------------
(* The others.                                                             *)

LEMMA NextKeepsTInv == TInv /\ TypeOK' /\ [Next]_vars => TInv'
<1> SUFFICES ASSUME TInv, TypeOK', [Next]_vars PROVE TInv'
  OBVIOUS
<1>0. PastStamps /\ DiskTrue /\ Unwatched /\ \A p \in Indexers : RunTrue(p) /\ Decided(p)
  BY DEF TInv
<1>6. CASE \E f \in Files : Notify(f)
  <2>1. /\ UNCHANGED treeVars /\ UNCHANGED diskVars /\ watcher'.pc = watcher.pc
        /\ indexer' = indexer /\ raceOnDisk' = raceOnDisk /\ overlapped' = overlapped
        /\ misled' = misled
    BY <1>6 DEF Notify, historyVars, TInv, TypeOK, Watcher
  <2>2. ASSUME NEW p \in Indexers PROVE RunTrue(p)' /\ Decided(p)'
    BY <1>0, <2>1, RunStands, DecidedStands DEF diskVars
  <2> QED
    BY <1>0, <2>1, <2>2, DiskStands, StampsStand DEF TInv, Unwatched
<1>1. CASE \E f \in Files : Write(f) \/ Delete(f)
  <2>1. PICK f \in Files : Write(f) \/ Delete(f)
    BY <1>1
  <2>2. clock \in Nat
    BY StoreAssumption DEF TInv, TypeOK, Stamps
  <2>3. CASE Write(f)
    BY <2>2, <2>3, TreeKeepsTInv DEF Write
  <2>4. CASE Delete(f)
    BY <2>4, TreeKeepsTInv DEF Delete
  <2> QED
    BY <2>1, <2>3, <2>4
<1>2. CASE \E p \in Indexers : Index(p)
  BY <1>2, IndexKeepsTInv
<1>3. CASE (\E r \in Readers : Read(r)) \/ UNCHANGED vars
  <2>1. /\ UNCHANGED treeVars /\ UNCHANGED diskVars /\ UNCHANGED watchVars
        /\ indexer' = indexer /\ raceOnDisk' = raceOnDisk /\ overlapped' = overlapped
        /\ misled' = misled
    BY <1>3 DEF Read, ReadLoadIndex, ReadLoadMeta, ReadInsert, vars, historyVars,
                treeVars, diskVars, watchVars
  <2>2. ASSUME NEW p \in Indexers PROVE RunTrue(p)' /\ Decided(p)'
    BY <1>0, <2>1, RunStands, DecidedStands DEF diskVars
  <2> QED
    BY <1>0, <2>1, <2>2, DiskStands, StampsStand DEF TInv, Unwatched, watchVars
<1>4. CASE WatchLoad \/ WatchStep
  (* Nobody watches. *)
  BY <1>0, <1>4
  DEF Unwatched, WatchLoad, WatchStep, WatchIsAt, WatchRegister, Flush, FlushBatch,
      FlushResync, WatchRebuild, WatchRebuildFails, WatchSaveIndex, WatchInvalidate,
      WatchLoadMeta, WatchSaveMeta, WatchLoadStamps, WatchSaveStamps
<1>5. CASE Crash
  <2>1. /\ UNCHANGED treeVars /\ UNCHANGED diskVars /\ raceOnDisk' = raceOnDisk
        /\ watcher' = Off /\ indexer' = [p \in Indexers |-> Idle]
    BY <1>5 DEF Crash, historyVars
  <2>2. ASSUME NEW p \in Indexers PROVE RunTrue(p)' /\ Decided(p)'
    <3>1. ~Parsed(p)' /\ indexer'[p].pc = "idle"
      BY <2>1 DEF Parsed, Idle
    <3> QED
      BY <3>1, RunOver, DecidedElse DEF Undecided
  <2> QED
    BY <1>0, <2>1, <2>2, DiskStands, StampsStand DEF TInv, Unwatched, Off
<1> QED
  BY <1>1, <1>2, <1>3, <1>4, <1>5, <1>6 DEF Next, Tree

LEMMA InitTInv == Init /\ ~WatchEnabled => TInv
<1> SUFFICES ASSUME Init, ~WatchEnabled PROVE TInv
  OBVIOUS
<1>1. TypeOK
  BY InitIInv DEF IInv
<1>2. PastStamps /\ Unwatched
  BY DEF Init, PastStamps, Unwatched, Off
<1>3. ASSUME NEW p \in Indexers PROVE RunTrue(p) /\ Decided(p)
  BY DEF Init, RunTrue, Undisturbed, Parsed, Saved, Statted, Idle, Decided
<1>4. DiskTrue
  BY DEF Init, DiskTrue, MetaRecords, DiskAgrees, NewMeta
<1> QED
  BY <1>1, <1>2, <1>3, <1>4 DEF TInv

-----------------------------------------------------------------------------
(* The flushes of a watcher that is alone with the project: nobody runs    *)
(* index_project, so the index clients know is its own (Reports), and the  *)
(* entry of a flush covers what they do not know yet.                      *)

WatchAlone == /\ ~ReindexWhileWatching
              /\ ~WatchIsAt("off") => \A p \in Indexers : At(p, "idle")

FlushSaves == watcher.pc \in {"save_index", "invalidate", "load_meta", "save_meta"}

Reports ==
  /\ watcher.pc \in {"starting", "idle", "rebuild", "load_stamps", "save_stamps"}
       => served = watcher.idx
  /\ WatchIsAt("rebuild") => watcher.old = Symbols(served) /\ watcher.todo = Files
  /\ FlushSaves => /\ watcher.old = Symbols(served) \cap watcher.todo
                   /\ \A f \in Files \ watcher.todo : watcher.idx[f] = served[f]

(* Where index_project stays away from a watched project, a step of one of *)
(* its runs means that nobody watches.                                     *)
LEMMA IndexWhileOff ==
  ASSUME WatchAlone, NEW p \in Indexers, Index(p)
  PROVE  watcher.pc = "off" /\ UNCHANGED watchVars
<1>1. UNCHANGED watchVars
  BY DEF Index, IndexStart, IndexReadMeta, IndexCompare, IndexReadFails, IndexLoadCached, IndexInsertCached, IndexParse, IndexSaveIndex,
         IndexSnapshot, IndexLoadMeta, IndexSaveMeta, IndexPublish, IndexFail
<1>2. CASE \E policy \in Policies, force \in BOOLEAN : IndexStart(p, policy, force)
  BY <1>1, <1>2 DEF IndexStart, WatchAlone
<1>3. CASE ~\E policy \in Policies, force \in BOOLEAN : IndexStart(p, policy, force)
  <2>1. ~At(p, "idle")
    BY <1>3 DEF Index, IndexReadMeta, IndexCompare, IndexReadFails, IndexLoadCached, IndexInsertCached, IndexParse, IndexSaveIndex,
                IndexSnapshot, IndexLoadMeta, IndexSaveMeta, IndexPublish, IndexFail, At
  <2> QED
    BY <1>1, <2>1 DEF WatchAlone, WatchIsAt
<1> QED
  BY <1>2, <1>3

LEMMA WatchAloneKept ==
  ASSUME TypeOK, WatchAlone, [Next]_vars PROVE WatchAlone'
<1>1. CASE Tree
  <2>1. watcher'.pc = watcher.pc /\ indexer' = indexer
    BY <1>1 DEF Tree, Write, Delete, Change, Notify, watchVars, TypeOK, Watcher
  <2> QED
    BY <2>1 DEF WatchAlone, WatchIsAt, At
<1>2. CASE \E p \in Indexers : Index(p)
  BY <1>2, IndexWhileOff DEF WatchAlone, WatchIsAt, watchVars
<1>3. CASE (\E r \in Readers : Read(r)) \/ UNCHANGED vars
  BY <1>3 DEF Read, ReadLoadIndex, ReadLoadMeta, ReadInsert, vars, watchVars,
              WatchAlone, WatchIsAt, At
<1>4. CASE WatchLoad
  BY <1>4 DEF WatchLoad, WatchAlone, At
<1>5. CASE WatchStep
  <2>1. ~WatchIsAt("off") /\ indexer' = indexer
    BY <1>5 DEF WatchStep, WatchIsAt, WatchRegister, Flush, FlushBatch, FlushResync, WatchRebuild,
       WatchRebuildFails, WatchSaveIndex, WatchInvalidate, WatchLoadMeta, WatchSaveMeta,
       WatchLoadStamps, WatchSaveStamps
  <2> QED
    BY <2>1 DEF WatchAlone, At
<1>6. CASE Crash
  BY <1>6 DEF Crash, WatchAlone, At, Idle
<1> QED
  BY <1>1, <1>2, <1>3, <1>4, <1>5, <1>6 DEF Next

(* The newest entry is the one just recorded, for LogMax is at least 1.    *)
LEMMA NewestRecorded ==
  ASSUME NEW meta \in Meta, NEW added \in SUBSET Files, NEW removed \in SUBSET Files,
         NEW modified \in SUBSET Files
  PROVE  NewestEntry(RecordChange(meta, added, removed, modified)) =
           [FromDiff(added, removed, modified) EXCEPT !.revision = NextRevision(meta.revision)]
<1> DEFINE entry == [FromDiff(added, removed, modified)
                       EXCEPT !.revision = NextRevision(meta.revision)]
           log == Append(meta.changeLog, entry)
           next == RecordChange(meta, added, removed, modified)
<1>1. meta.changeLog \in Seq(RevisionChange) /\ meta.revision \in Nat
  BY DEF Meta
<1>2. entry \in RevisionChange
  <2>1. /\ Capped(added) \in SUBSET Files /\ Capped(removed) \in SUBSET Files
        /\ Capped(modified) \in SUBSET Files
    BY CappedType
  <2>2. FromDiff(added, removed, modified) \in RevisionChange
    BY <2>1 DEF FromDiff, RevisionChange
  <2>3. NextRevision(meta.revision) \in Nat
    BY <1>1 DEF NextRevision
  <2> QED
    BY <2>2, <2>3 DEF RevisionChange
<1>3. next.changeLog = KeepNewest(log)
  BY DEF RecordChange, Meta
<1> HIDE DEF entry, next
<1>4. /\ log \in Seq(RevisionChange) /\ log[Len(log)] = entry
      /\ Len(log) \in Nat /\ Len(log) >= 1
  BY <1>1, <1>2
<1> HIDE DEF log
<1>5. /\ Len(KeepNewest(log)) \in Nat
      /\ KeepNewest(log)[Len(KeepNewest(log))] = entry
  <2>1. LogMax \in Nat /\ LogMax >= 1
    BY LogAssumption
  <2>2. CASE Len(log) > LogMax
    <3> DEFINE kept == SubSeq(log, Len(log) - LogMax + 1, Len(log))
    <3>1. Len(kept) = LogMax /\ kept[LogMax] = log[Len(log)]
      BY <1>4, <2>1, <2>2
    <3> QED
      BY <1>4, <2>1, <2>2, <3>1 DEF KeepNewest
  <2>3. CASE ~(Len(log) > LogMax)
    BY <1>4, <2>3 DEF KeepNewest
  <2> QED
    BY <2>2, <2>3
<1> QED
  BY <1>3, <1>5 DEF NewestEntry, entry, next

(* An entry that is not marked truncated names every id of the diff.       *)
LEMMA UntruncatedNamesAll ==
  ASSUME NEW added \in SUBSET Files, NEW removed \in SUBSET Files, NEW modified \in SUBSET Files,
         ~FromDiff(added, removed, modified).truncated
  PROVE  Mentioned(FromDiff(added, removed, modified)) = added \cup removed \cup modified
<1>1. ASSUME NEW ids \in {added, removed, modified} PROVE Capped(ids) = ids
  <2>1. Cardinality(ids) \in Nat /\ ListCap \in Nat
    BY LogAssumption, FS_Subset, FS_CardinalityType
  <2>2. ~(Cardinality(ids) > ListCap)
    BY DEF FromDiff
  <2> QED
    BY <2>1, <2>2 DEF Capped
<1> QED
  BY <1>1 DEF FromDiff, Mentioned

(* A batch that starts from what clients know reports all it changes.      *)
LEMMA FlushCovers ==
  ASSUME NEW w \in Watcher, NEW before \in Content, w.old = Symbols(before) \cap w.todo,
         \A f \in Files \ w.todo : w.idx[f] = before[f]
  PROVE  EntryCovers(before, w.idx, NewestEntry(FlushMeta(w)))
<1> DEFINE added == (Symbols(w.idx) \cap w.todo) \ w.old
           removed == w.old \ Symbols(w.idx)
           modified == Symbols(w.idx) \cap w.old
           diff == FromDiff(added, removed, modified)
<1>1. /\ added \in SUBSET Files /\ removed \in SUBSET Files /\ modified \in SUBSET Files
  BY DEF Symbols
<1>2. {f \in Files : before[f] # w.idx[f]} \subseteq added \cup removed \cup modified
  BY DEF Symbols
<1>3. [w.base EXCEPT !.exists = TRUE] \in Meta
  BY DEF Watcher, Meta
<1> HIDE DEF added, removed, modified
<1>4. NewestEntry(FlushMeta(w)) =
        [diff EXCEPT !.revision = NextRevision([w.base EXCEPT !.exists = TRUE].revision)]
  <2> DEFINE base == [w.base EXCEPT !.exists = TRUE]
  <2>1. FlushMeta(w) = RecordChange(base, added, removed, modified)
    BY DEF FlushMeta, added, removed, modified
  <2>2. base \in Meta
    BY <1>3
  <2> HIDE DEF base
  <2>3. NewestEntry(RecordChange(base, added, removed, modified)) =
          [diff EXCEPT !.revision = NextRevision(base.revision)]
    BY <1>1, <2>2, NewestRecorded
  <2> QED
    BY <2>1, <2>3 DEF base
<1>5. /\ NewestEntry(FlushMeta(w)).truncated = diff.truncated
      /\ Mentioned(NewestEntry(FlushMeta(w))) = Mentioned(diff)
  BY <1>4 DEF FromDiff, Mentioned
<1>6. ~diff.truncated => Mentioned(diff) = added \cup removed \cup modified
  BY <1>1, UntruncatedNamesAll
<1> QED
  BY <1>2, <1>5, <1>6 DEF EntryCovers

LEMMA WatchKeepsReports ==
  ASSUME TypeOK, Reports, WatchLoad \/ WatchStep PROVE Reports'
<1> USE DEF Reports, FlushSaves, WatchIsAt
<1>1. watcher \in Watcher
  BY DEF TypeOK
<1>2. CASE WatchLoad
  <2>1. watcher'.pc = "starting" /\ served' = watcher'.idx
    BY <1>2 DEF WatchLoad, Off
  <2> QED
    BY <2>1
<1>3. CASE WatchRegister \/ WatchRebuildFails
  <2>1. /\ watcher'.pc = "idle" /\ watcher'.idx = watcher.idx
        /\ served' = served /\ watcher.pc \in {"starting", "rebuild"}
    BY <1>1, <1>3, ZenonT(60) DEF WatchRegister, WatchRebuildFails, historyVars, Watcher, Off
  <2> QED
    BY <2>1
<1>4. ASSUME NEW todo \in SUBSET Files, FlushBatch(todo) PROVE Reports'
  <2> DEFINE policy == EffectivePolicy(metaJson)
  <2>1. /\ watcher'.pc = "save_index" /\ watcher'.todo = todo
        /\ watcher'.old = Symbols(watcher.idx) \cap todo
        /\ watcher'.idx = Reindexed(watcher.idx, todo, policy)
        /\ served' = served /\ served = watcher.idx
    BY <1>1, <1>4 DEF FlushBatch, historyVars, Watcher
  <2>2. \A f \in Files \ todo : watcher'.idx[f] = watcher.idx[f]
    BY <2>1 DEF Reindexed
  <2> QED
    BY <2>1, <2>2 DEF Symbols
<1>5. ASSUME NEW todo \in SUBSET Files, FlushResync(todo) PROVE Reports'
  <2>1. /\ watcher'.pc = "rebuild" /\ watcher'.todo = Files
        /\ watcher'.old = Symbols(watcher.idx) /\ watcher'.idx = watcher.idx
        /\ served' = served /\ served = watcher.idx
    BY <1>1, <1>5 DEF FlushResync, historyVars, Watcher
  <2> QED
    BY <2>1 DEF Symbols
<1>6. CASE WatchRebuild
  <2>1. /\ watcher'.pc = "save_index" /\ watcher'.todo = watcher.todo
        /\ watcher'.old = watcher.old /\ served' = served
        /\ watcher.old = Symbols(served) /\ watcher.todo = Files
    BY <1>1, <1>6 DEF WatchRebuild, historyVars, Watcher
  <2> QED
    BY <2>1 DEF Symbols
<1>7. CASE WatchSaveIndex \/ WatchInvalidate \/ WatchLoadMeta
  <2>1. /\ watcher'.pc \in {"invalidate", "load_meta", "save_meta"}
        /\ watcher'.todo = watcher.todo /\ watcher'.old = watcher.old
        /\ watcher'.idx = watcher.idx /\ served' = served /\ FlushSaves
    BY <1>1, <1>7 DEF WatchSaveIndex, WatchInvalidate, WatchLoadMeta, historyVars, Watcher
  <2> QED
    BY <2>1 DEF Symbols
<1>8. CASE WatchSaveMeta
  <2>1. watcher'.pc = "load_stamps" /\ served' = watcher'.idx
    BY <1>1, <1>8 DEF WatchSaveMeta, Watcher
  <2> QED
    BY <2>1
<1>9. CASE WatchLoadStamps \/ WatchSaveStamps
  <2>1. /\ watcher'.pc \in {"idle", "save_stamps"} /\ watcher'.idx = watcher.idx
        /\ served' = served /\ served = watcher.idx
    BY <1>1, <1>9 DEF WatchLoadStamps, WatchSaveStamps, historyVars, Watcher, Off
  <2> QED
    BY <2>1
<1> QED
  BY <1>2, <1>3, <1>4, <1>5, <1>6, <1>7, <1>8, <1>9 DEF WatchStep, Flush

LEMMA NextKeepsReports ==
  ASSUME TypeOK, WatchAlone, Reports, [Next]_vars PROVE Reports'
<1>1. CASE Tree
  <2>1. /\ served' = served
        /\ watcher' = watcher \/ \E seen : watcher' = [watcher EXCEPT !.seen = seen]
    BY <1>1 DEF Tree, Write, Delete, Change, Notify, historyVars
  <2>2. /\ watcher'.pc = watcher.pc /\ watcher'.idx = watcher.idx
        /\ watcher'.old = watcher.old /\ watcher'.todo = watcher.todo
    BY <2>1 DEF TypeOK, Watcher
  <2> QED
    BY <2>1, <2>2 DEF Reports, FlushSaves, WatchIsAt, Symbols
<1>2. CASE \E p \in Indexers : Index(p)
  <2>1. watcher'.pc = "off"
    BY <1>2, IndexWhileOff DEF watchVars
  <2> QED
    BY <2>1 DEF Reports, FlushSaves, WatchIsAt
<1>3. CASE (\E r \in Readers : Read(r)) \/ UNCHANGED vars
  BY <1>3 DEF Read, ReadLoadIndex, ReadLoadMeta, ReadInsert, vars, watchVars, historyVars,
              Reports, FlushSaves, WatchIsAt, Symbols
<1>4. CASE WatchLoad \/ WatchStep
  BY <1>4, WatchKeepsReports
<1>5. CASE Crash
  BY <1>5 DEF Crash, Off, Reports, FlushSaves, WatchIsAt
<1> QED
  BY <1>1, <1>2, <1>3, <1>4, <1>5 DEF Next

LEMMA InitReports == ~ReindexWhileWatching /\ Init => WatchAlone /\ Reports
  BY DEF Init, Off, WatchAlone, Reports, FlushSaves, WatchIsAt

(* Only the flush itself writes meta.json while it stands at that save.    *)
LEMMA OnlyFlushSaves ==
  ASSUME WatchAlone, Next, WatchIsAt("save_meta"), metaJson' # metaJson
  PROVE  WatchSaveMeta
<1>1. ~\E p \in Indexers : Index(p)
  BY IndexWhileOff DEF WatchIsAt
<1>2. ~Tree /\ ~(\E r \in Readers : Read(r)) /\ ~WatchLoad /\ ~Crash
  BY DEF Tree, Write, Delete, Change, Notify, Read, ReadLoadIndex, ReadLoadMeta, ReadInsert, WatchLoad,
         Crash, diskVars
<1>3. WatchStep
  BY <1>1, <1>2 DEF Next
<1> QED
  BY <1>3 DEF WatchStep, WatchIsAt, WatchRegister, Flush, FlushBatch, FlushResync, WatchRebuild,
     WatchRebuildFails, WatchSaveIndex, WatchInvalidate, WatchLoadMeta, WatchLoadStamps,
     WatchSaveStamps

-----------------------------------------------------------------------------
(* What becomes of the changes the watcher is told of.  A change that is   *)
(* told and not in the channel is in the watcher's index, as the policy in *)
(* force shows it; from the end of its flush it is in index.bin and its    *)
(* mtime in meta.json, or lost to a failed stat.  A resync forgets the     *)
(* exclusions, so where the channel may overflow there must be none but    *)
(* the default.                                                            *)

WatchFaithful == /\ ~IoFailEnabled
                 /\ OverflowEnabled => Policies = {DefaultPolicy}

Flushing == watcher.pc \notin {"off", "starting", "idle"}

PolicyKept ==
  /\ WatchFaithful
  /\ Flushing => watcher.policy = EffectivePolicy(metaJson)
  /\ watcher.pc \in {"save_meta", "save_stamps"}
       => EffectivePolicy(watcher.base) = EffectivePolicy(metaJson)
  /\ ~OverflowEnabled => ~overflowed /\ (Flushing => ~watcher.resync)

InWatcher(f) == watcher.idx[f] = Visible(EffectivePolicy(metaJson))[f]
ToStamp == {"save_index", "invalidate", "load_meta", "save_meta", "load_stamps"}

Caught(f) ==
  /\ WatchIsAt("idle") => InWatcher(f) /\ OnDisk(f)
  /\ watcher.pc \in ToStamp
       => InWatcher(f) /\ (f \in watcher.todo \cup lost \/ metaJson.files[f] = source[f])
  /\ WatchIsAt("save_stamps")
       => InWatcher(f) /\ (f \in LostThen(watcher) \/ watcher.base.files[f] = source[f])

FlushOrder ==
  /\ watcher.pc \in {"off", "starting"} => watcher.seen = {} /\ untold = {}
  /\ WatchIsAt("rebuild") \/ (Flushing /\ watcher.resync) => watcher.todo = Files
  /\ watcher.pc \in {"invalidate", "load_meta", "save_meta", "load_stamps", "save_stamps"}
       => indexBin.idx = watcher.idx
  /\ WatchIsAt("save_meta") => watcher.base.files = metaJson.files

NoneMissed == ~overflowed => \A f \in watcher.seen \ (events \cup untold) : Caught(f)

WInv == WatchAlone /\ PolicyKept /\ FlushOrder /\ NoneMissed

LEMMA FlushMetaFields ==
  ASSUME NEW w \in Watcher
  PROVE  FlushMeta(w).policy = w.base.policy /\ FlushMeta(w).files = w.base.files
<1>1. w.base \in Meta
  BY DEF Watcher
<1> QED
  BY <1>1 DEF FlushMeta, RecordChange, Meta

LEMMA OnePolicy ==
  ASSUME NEW meta \in Meta, Policies = {DefaultPolicy}
  PROVE  EffectivePolicy(meta) = DefaultPolicy
  BY EffectivePolicyType

(* A change of the tree disturbs what is known of the file it changes, and *)
(* that is one the watcher is yet to be told of.                           *)
LEMMA TreeKeepsWInv ==
  ASSUME TypeOK, WInv, NEW f \in Files, NEW version \in Nat, Change(f, version), WatchAlone'
  PROVE  WInv'
<1>1. /\ UNCHANGED <<indexBin, metaJson, indexer, watcher, events, overflowed, lost>>
      /\ untold' = IF Registered THEN untold \cup {f} ELSE untold
      /\ \A g \in Files : g # f => source'[g] = source[g]
  BY DEF Change, diskVars, TypeOK, Content
<1>2. PolicyKept' /\ FlushOrder'
  BY <1>1 DEF WInv, PolicyKept, WatchFaithful, FlushOrder, Flushing, WatchIsAt,
              EffectivePolicy, Registered
<1>3. ASSUME ~overflowed, NEW g \in watcher.seen \ (events \cup untold') PROVE Caught(g)'
  <2>1. Registered
    BY <1>3 DEF WInv, FlushOrder, Registered
  <2>2. g # f /\ g \in watcher.seen \ (events \cup untold) /\ g \in Files
    BY <1>1, <1>3, <2>1 DEF TypeOK, Watcher
  <2>3. Caught(g) /\ source'[g] = source[g]
    BY <1>1, <1>3, <2>2 DEF WInv, NoneMissed
  <2>4. LostThen(watcher)' = LostThen(watcher)
    BY <1>1 DEF LostThen, LostBy, Blank, Nothing
  <2> QED
    BY <1>1, <2>2, <2>3, <2>4 DEF Caught, InWatcher, OnDisk, Visible, EffectivePolicy, WatchIsAt, ToStamp
<1> QED
  BY <1>1, <1>2, <1>3 DEF WInv, NoneMissed

(* Being told, it has the file in the channel or the flag raised.          *)
LEMMA NotifyKeepsWInv ==
  ASSUME TypeOK, WInv, NEW f \in Files, Notify(f), WatchAlone'
  PROVE  WInv'
<1>1. /\ UNCHANGED <<source, indexBin, metaJson, indexer, lost>>
      /\ f \in untold /\ untold' = untold \ {f}
      /\ \/ events' = events \cup {f} /\ overflowed' = overflowed
         \/ OverflowEnabled /\ overflowed' = TRUE
  BY DEF Notify, treeVars, diskVars, historyVars
<1>2. /\ watcher'.pc = watcher.pc /\ watcher'.policy = watcher.policy
      /\ watcher'.idx = watcher.idx /\ watcher'.todo = watcher.todo
      /\ watcher'.resync = watcher.resync /\ watcher'.base = watcher.base
      /\ watcher'.seen = watcher.seen \cup {f}
  BY DEF Notify, TypeOK, Watcher
<1>3. watcher.pc \notin {"off", "starting"}
  BY <1>1 DEF WInv, FlushOrder
<1>4. PolicyKept' /\ FlushOrder'
  BY <1>1, <1>2, <1>3 DEF WInv, PolicyKept, WatchFaithful, FlushOrder, Flushing, WatchIsAt,
              EffectivePolicy
<1>5. ASSUME ~overflowed', NEW g \in watcher'.seen \ (events' \cup untold') PROVE Caught(g)'
  <2>1. ~overflowed /\ g \in watcher.seen \ (events \cup untold)
    BY <1>1, <1>2, <1>5
  <2>2. Caught(g)
    BY <2>1 DEF WInv, NoneMissed
  <2>3. LostThen(watcher)' = LostThen(watcher)
    BY <1>1, <1>2 DEF LostThen, LostBy, Blank, Nothing
  <2> QED
    BY <1>1, <1>2, <2>2, <2>3 DEF Caught, InWatcher, OnDisk, Visible, EffectivePolicy, WatchIsAt, ToStamp
<1> QED
  BY <1>4, <1>5 DEF WInv, NoneMissed

(* The policy of a flush is that of the metadata, up to its end.           *)
LEMMA WatchKeepsPolicy ==
  ASSUME TypeOK, PolicyKept, WatchLoad \/ WatchStep PROVE PolicyKept'
<1> USE DEF PolicyKept, Flushing, WatchIsAt
<1>1. watcher \in Watcher /\ metaJson \in Meta /\ WatchFaithful /\ WatchFaithful'
  BY DEF TypeOK, WatchFaithful
<1>2. CASE WatchLoad \/ WatchRegister
  <2>1. watcher'.pc \in {"starting", "idle"} /\ overflowed' = overflowed
    BY <1>1, <1>2 DEF WatchLoad, WatchRegister, Off, Watcher
  <2> QED
    BY <1>1, <2>1
<1>3. ASSUME NEW todo \in SUBSET Files, FlushBatch(todo) \/ FlushResync(todo) PROVE PolicyKept'
  <2>1. /\ watcher'.pc \in {"save_index", "rebuild"} /\ metaJson' = metaJson
        /\ watcher'.policy = EffectivePolicy(metaJson)
        /\ overflowed \/ ~watcher'.resync
        /\ overflowed' => overflowed
    <3>1. CASE FlushBatch(todo)
      BY <1>1, <3>1 DEF FlushBatch, diskVars, Watcher
    <3>2. CASE FlushResync(todo)
      BY <1>1, <3>2 DEF FlushResync, diskVars, Watcher
    <3> QED
      BY <1>3, <3>1, <3>2
  <2>2. EffectivePolicy(metaJson)' = EffectivePolicy(metaJson)
    BY <2>1 DEF EffectivePolicy
  <2> QED
    BY <1>1, <2>1, <2>2
<1>4. CASE WatchRebuild \/ WatchSaveIndex \/ WatchInvalidate \/ WatchLoadMeta
  <2>1. /\ watcher.pc \in {"rebuild", "save_index", "invalidate", "load_meta"}
        /\ watcher'.pc \in {"save_index", "invalidate", "load_meta", "save_meta"}
        /\ watcher'.pc = "save_meta" => watcher'.base = metaJson
        /\ metaJson' = metaJson /\ overflowed' = overflowed
        /\ watcher'.policy = watcher.policy /\ watcher'.resync = watcher.resync
    BY <1>1, <1>4 DEF WatchRebuild, WatchSaveIndex, WatchInvalidate, WatchLoadMeta, diskVars, Watcher
  <2>2. EffectivePolicy(metaJson)' = EffectivePolicy(metaJson)
    BY <2>1 DEF EffectivePolicy
  <2>3. watcher'.pc = "save_meta" => EffectivePolicy(watcher.base)' = EffectivePolicy(metaJson)
    BY <2>1 DEF EffectivePolicy
  <2> QED
    BY <1>1, <2>1, <2>2, <2>3
<1>5. CASE WatchSaveMeta
  <2>1. /\ watcher.pc = "save_meta" /\ watcher'.pc = "load_stamps" /\ overflowed' = overflowed
        /\ watcher'.policy = watcher.policy /\ watcher'.resync = watcher.resync
        /\ metaJson' = FlushMeta(watcher)
    BY <1>1, <1>5 DEF WatchSaveMeta, Watcher, WatchFaithful
  <2>2. metaJson'.policy = watcher.base.policy
    BY <1>1, <2>1, FlushMetaFields
  <2>3. EffectivePolicy(metaJson)' = EffectivePolicy(watcher.base)
    BY <2>2 DEF EffectivePolicy
  <2> QED
    BY <1>1, <2>1, <2>3
<1>6. CASE WatchLoadStamps
  <2>1. /\ watcher.pc = "load_stamps" /\ watcher'.pc = "save_stamps" /\ overflowed' = overflowed
        /\ watcher'.policy = watcher.policy /\ watcher'.resync = watcher.resync
        /\ \E s \in Snapshots(NoPolicy) :
             watcher'.base = (IF watcher.resync THEN ResyncMeta(s)
                              ELSE Stamped(metaJson, watcher.todo))
        /\ metaJson' = metaJson
    BY <1>1, <1>6 DEF WatchLoadStamps, Watcher, diskVars
  <2>2. EffectivePolicy(metaJson)' = EffectivePolicy(metaJson)
    BY <2>1 DEF EffectivePolicy
  <2>3. EffectivePolicy(watcher.base)' = EffectivePolicy(metaJson)
    <3>1. CASE watcher.resync
      <4>1. Policies = {DefaultPolicy}
        BY <1>1, <2>1, <3>1 DEF WatchFaithful
      <4>2. EffectivePolicy(metaJson) = DefaultPolicy
        BY <1>1, <4>1, OnePolicy
      <4>3. watcher'.base.policy = NoPolicy
        BY <2>1, <3>1 DEF ResyncMeta, NewMeta
      <4> QED
        BY <4>2, <4>3 DEF EffectivePolicy
    <3>2. CASE ~watcher.resync
      <4>1. watcher'.base.policy = metaJson.policy
        BY <1>1, <2>1, <3>2 DEF Stamped, Meta
      <4> QED
        BY <4>1 DEF EffectivePolicy
    <3> QED
      BY <3>1, <3>2
  <2> QED
    BY <1>1, <2>1, <2>2, <2>3
<1>7. CASE WatchSaveStamps \/ WatchRebuildFails
  <2>1. watcher'.pc = "idle" /\ overflowed' = overflowed
    BY <1>1, <1>7 DEF WatchSaveStamps, WatchRebuildFails, Off
  <2> QED
    BY <1>1, <2>1
<1> QED
  BY <1>2, <1>3, <1>4, <1>5, <1>6, <1>7 DEF WatchStep, Flush

(* A step of the watcher that is not the start of a flush, over a channel  *)
(* that stays as it is.                                                    *)
LEMMA ChannelStands ==
  ASSUME WInv, UNCHANGED <<untold, events, overflowed>>, watcher'.seen = watcher.seen,
         ~overflowed => \A f \in watcher.seen \ (events \cup untold) : Caught(f) => Caught(f)'
  PROVE  NoneMissed'
  BY DEF WInv, NoneMissed

LEMMA WatchKeepsCaught ==
  ASSUME TypeOK, WInv, PolicyKept', WatchLoad \/ WatchStep PROVE FlushOrder' /\ NoneMissed'
<1> USE DEF FlushOrder, Flushing, WatchIsAt, ToStamp
<1>1. /\ watcher \in Watcher /\ metaJson \in Meta /\ WatchFaithful
      /\ watcher.seen \in SUBSET Files /\ PolicyKept /\ FlushOrder /\ source \in Content
  BY DEF TypeOK, WInv, PolicyKept, Watcher
<1>2. CASE WatchLoad
  <2>1. watcher'.pc = "starting" /\ watcher'.seen = {} /\ untold' = {}
    BY <1>1, <1>2 DEF WatchLoad, Off
  <2> QED
    BY <2>1 DEF NoneMissed
<1>3. CASE WatchRegister
  <2>1. watcher'.pc = "idle" /\ watcher'.seen = {}
    BY <1>1, <1>3 DEF WatchRegister, Watcher
  <2> QED
    BY <2>1 DEF NoneMissed
<1>4. ASSUME NEW todo \in SUBSET Files, FlushBatch(todo) PROVE FlushOrder' /\ NoneMissed'
  <2> DEFINE policy == EffectivePolicy(metaJson)
  <2>1. /\ watcher.pc = "idle" /\ ~overflowed /\ events' = events \ todo
        /\ watcher'.pc = "save_index" /\ watcher'.todo = todo /\ ~watcher'.resync
        /\ watcher'.idx = Reindexed(watcher.idx, todo, policy)
        /\ watcher'.seen = watcher.seen
        /\ UNCHANGED <<source, indexBin, metaJson, untold, lost>>
    BY <1>1, <1>4 DEF FlushBatch, EventsLeft, treeVars, diskVars, historyVars, Watcher
  <2>2. ASSUME NEW f \in watcher.seen \ ((events \ todo) \cup untold)
        PROVE  /\ watcher'.idx[f] = Visible(policy)[f]
               /\ f \in todo \cup lost \/ metaJson.files[f] = source[f]
    <3>1. f \in Files
      BY <1>1
    <3>2. CASE f \in todo
      BY <2>1, <3>1, <3>2 DEF Reindexed
    <3>3. CASE f \notin todo
      <4>1. Caught(f)
        BY <2>1, <2>2, <3>3 DEF WInv, NoneMissed
      <4> QED
        BY <2>1, <3>1, <3>3, <4>1 DEF Caught, InWatcher, OnDisk, Reindexed
    <3> QED
      BY <3>2, <3>3
  <2>3. \A f \in Files : InWatcher(f)' <=> watcher'.idx[f] = Visible(policy)[f]
    BY <2>1 DEF InWatcher, Visible, EffectivePolicy
  <2>4. NoneMissed'
    BY <1>1, <2>1, <2>2, <2>3 DEF NoneMissed, Caught
  <2> QED
    BY <2>1, <2>4
<1>5. ASSUME NEW todo \in SUBSET Files, FlushResync(todo) PROVE FlushOrder' /\ NoneMissed'
  <2>1. watcher'.pc = "rebuild" /\ watcher'.todo = Files
    BY <1>1, <1>5 DEF FlushResync, Watcher
  <2> QED
    BY <2>1 DEF NoneMissed, Caught
<1>6. CASE WatchRebuild
  <2>1. /\ watcher.pc = "rebuild" /\ watcher'.pc = "save_index"
        /\ watcher'.todo = watcher.todo /\ watcher'.resync = watcher.resync
        /\ watcher'.idx = Visible(watcher.policy) /\ watcher'.seen = watcher.seen
        /\ UNCHANGED <<source, indexBin, metaJson, untold, events, overflowed>>
    BY <1>1, <1>6 DEF WatchRebuild, treeVars, diskVars, Watcher
  <2>2. watcher.policy = EffectivePolicy(metaJson)
    BY <1>1, <2>1 DEF PolicyKept
  <2>3. \A f \in Files : InWatcher(f)'
    BY <2>1, <2>2 DEF InWatcher, Visible, EffectivePolicy
  <2>4. watcher.todo = Files
    BY <1>1, <2>1
  <2>5. NoneMissed'
    BY <1>1, <2>1, <2>3, <2>4 DEF NoneMissed, Caught
  <2> QED
    BY <1>1, <2>1, <2>5
<1>7. CASE WatchRebuildFails
  BY <1>1, <1>7 DEF WatchRebuildFails, WatchFaithful
<1>8. CASE WatchSaveIndex \/ WatchInvalidate \/ WatchLoadMeta
  <2>1. /\ watcher.pc \in {"save_index", "invalidate", "load_meta"}
        /\ watcher'.pc \in {"invalidate", "load_meta", "save_meta"}
        /\ watcher'.todo = watcher.todo /\ watcher'.resync = watcher.resync
        /\ watcher'.idx = watcher.idx /\ watcher'.seen = watcher.seen
        /\ watcher'.pc = "save_meta" => watcher'.base = metaJson
        /\ indexBin'.idx = watcher.idx
        /\ UNCHANGED <<source, metaJson, untold, events, overflowed, lost>>
    <3>1. CASE WatchSaveIndex
      BY <1>1, <3>1 DEF WatchSaveIndex, WatchFaithful, treeVars, Watcher
    <3>2. CASE WatchInvalidate \/ WatchLoadMeta
      BY <1>1, <3>2 DEF WatchInvalidate, WatchLoadMeta, treeVars, diskVars, historyVars, Watcher
    <3> QED
      BY <1>8, <3>1, <3>2
  <2>2. \A f \in Files : Caught(f) => Caught(f)'
    BY <2>1 DEF Caught, InWatcher, Visible, EffectivePolicy
  <2>3. NoneMissed'
    BY <1>1, <2>1, <2>2, ChannelStands
  <2> QED
    BY <1>1, <2>1, <2>3
<1>9. CASE WatchSaveMeta
  <2>1. /\ watcher.pc = "save_meta" /\ watcher'.pc = "load_stamps"
        /\ watcher'.todo = watcher.todo /\ watcher'.resync = watcher.resync
        /\ watcher'.idx = watcher.idx /\ watcher'.seen = watcher.seen
        /\ metaJson' = FlushMeta(watcher)
        /\ UNCHANGED <<source, indexBin, untold, events, overflowed, lost>>
    BY <1>1, <1>9 DEF WatchSaveMeta, WatchFaithful, treeVars, Watcher
  <2>2. metaJson'.policy = watcher.base.policy /\ metaJson'.files = metaJson.files
    BY <1>1, <2>1, FlushMetaFields
  <2>3. EffectivePolicy(metaJson)' = EffectivePolicy(metaJson)
    BY <1>1, <2>1, <2>2 DEF PolicyKept, EffectivePolicy
  <2>4. \A f \in Files : Caught(f) => Caught(f)'
    BY <2>1, <2>2, <2>3 DEF Caught, InWatcher, Visible
  <2>5. NoneMissed'
    BY <1>1, <2>1, <2>4, ChannelStands
  <2> QED
    BY <1>1, <2>1, <2>5
<1>10. CASE WatchLoadStamps
  <2>0. PICK s \in Snapshots(NoPolicy) :
           watcher' = [watcher EXCEPT !.pc = "save_stamps",
                                      !.base = IF watcher.resync THEN ResyncMeta(s)
                                               ELSE Stamped(metaJson, watcher.todo)]
    BY <1>10 DEF WatchLoadStamps
  <2>1. /\ watcher.pc = "load_stamps" /\ watcher'.pc = "save_stamps"
        /\ watcher'.todo = watcher.todo /\ watcher'.resync = watcher.resync
        /\ watcher'.idx = watcher.idx /\ watcher'.seen = watcher.seen
        /\ watcher'.base = (IF watcher.resync THEN ResyncMeta(s)
                            ELSE Stamped(metaJson, watcher.todo))
        /\ UNCHANGED <<source, indexBin, metaJson, untold, events, overflowed, lost>>
    BY <1>1, <1>10, <2>0 DEF WatchLoadStamps, treeVars, diskVars, historyVars, Watcher
  <2>2. ASSUME NEW f \in Files, f \in watcher.todo \cup lost \/ metaJson.files[f] = source[f]
        PROVE  f \in LostThen(watcher)' \/ watcher'.base.files[f] = source[f]
    <3>1. CASE watcher.resync
      <4>1. watcher'.base.files = s.files /\ watcher'.base.dir = s.dir
        BY <2>1, <3>1 DEF ResyncMeta, NewMeta
      <4>2. s = Blank \/ s = [files |-> Visible(NoPolicy), dir |-> dirStamp]
        BY DEF Snapshots
      <4>3. CASE s = Blank
        <5>1. [files |-> s.files, dir |-> s.dir] = Blank
          BY <4>3 DEF Blank
        <5>2. Blank' = Blank
          BY DEF Blank, Nothing
        <5>3. LostThen(watcher)' = Files
          BY <2>1, <3>1, <4>1, <5>1, <5>2 DEF LostThen, LostBy
        <5> QED
          BY <5>3
      <4>4. CASE s = [files |-> Visible(NoPolicy), dir |-> dirStamp]
        BY <4>1, <4>4 DEF Visible, Hidden
      <4> QED
        BY <4>2, <4>3, <4>4
    <3>2. CASE ~watcher.resync
      <4>1. LostThen(watcher)' = lost \ watcher.todo
        BY <2>1, <3>2 DEF LostThen
      <4>2. watcher'.base.files[f] = IF f \in watcher.todo THEN source[f] ELSE metaJson.files[f]
        BY <1>1, <2>1, <3>2 DEF Stamped, Meta
      <4> QED
        BY <2>2, <4>1, <4>2
    <3> QED
      BY <3>1, <3>2
  <2>3. \A f \in Files : Caught(f) => Caught(f)'
    BY <2>1, <2>2 DEF Caught, InWatcher, Visible, EffectivePolicy
  <2>4. NoneMissed'
    BY <1>1, <2>1, <2>3, ChannelStands
  <2> QED
    BY <1>1, <2>1, <2>4
<1>11. CASE WatchSaveStamps
  <2>1. /\ watcher.pc = "save_stamps" /\ watcher'.pc = "idle"
        /\ watcher'.idx = watcher.idx /\ watcher'.seen = watcher.seen
        /\ metaJson' = watcher.base /\ lost' = LostThen(watcher)
        /\ UNCHANGED <<source, indexBin, untold, events, overflowed>>
    BY <1>1, <1>11 DEF WatchSaveStamps, WatchFaithful, treeVars, Watcher
  <2>2. EffectivePolicy(metaJson)' = EffectivePolicy(metaJson)
    BY <1>1, <2>1 DEF PolicyKept, EffectivePolicy
  <2>3. indexBin.idx = watcher.idx
    BY <1>1, <2>1
  <2>4. \A f \in Files : Caught(f) => Caught(f)'
    BY <2>1, <2>2, <2>3 DEF Caught, InWatcher, OnDisk, Visible
  <2>5. NoneMissed'
    BY <1>1, <2>1, <2>4, ChannelStands
  <2> QED
    BY <2>1, <2>5
<1> QED
  BY <1>2, <1>3, <1>4, <1>5, <1>6, <1>7, <1>8, <1>9, <1>10, <1>11 DEF WatchStep, Flush

LEMMA NextKeepsWInv == ASSUME TypeOK, WInv, [Next]_vars PROVE WInv'
<1>1. WatchAlone'
  BY WatchAloneKept DEF WInv
<1>2. CASE \E f \in Files : Write(f) \/ Delete(f)
  <2>1. PICK f \in Files : Write(f) \/ Delete(f)
    BY <1>2
  <2>2. clock + 1 \in Nat
    BY StoreAssumption DEF TypeOK, Stamps
  <2> QED
    BY <1>1, <2>1, <2>2, TreeKeepsWInv DEF Write, Delete
<1>7. CASE \E f \in Files : Notify(f)
  BY <1>1, <1>7, NotifyKeepsWInv
<1>3. CASE \E p \in Indexers : Index(p)
  <2>1. watcher.pc = "off" /\ UNCHANGED watchVars
    BY <1>3, IndexWhileOff DEF WInv
  <2> QED
    BY <1>1, <2>1 DEF WInv, PolicyKept, WatchFaithful, FlushOrder, NoneMissed, Flushing, WatchIsAt,
       watchVars
<1>4. CASE (\E r \in Readers : Read(r)) \/ UNCHANGED vars
  <2>1. UNCHANGED <<source, indexBin, metaJson, watcher, untold, events, overflowed, lost>>
    BY <1>4 DEF Read, ReadLoadIndex, ReadLoadMeta, ReadInsert, vars, treeVars, diskVars, watchVars,
                historyVars
  <2>2. \A f : Caught(f) => Caught(f)'
    <3>1. LostThen(watcher)' = LostThen(watcher)
      BY <2>1 DEF LostThen, LostBy, Blank, Nothing
    <3> QED
      BY <2>1, <3>1 DEF Caught, InWatcher, OnDisk, Visible, EffectivePolicy, WatchIsAt, ToStamp
  <2>3. NoneMissed'
    BY <2>1, <2>2, ChannelStands
  <2>4. PolicyKept' /\ FlushOrder'
    BY <2>1 DEF WInv, PolicyKept, WatchFaithful, FlushOrder, Flushing, WatchIsAt, EffectivePolicy
  <2> QED
    BY <1>1, <2>3, <2>4 DEF WInv
<1>5. CASE WatchLoad \/ WatchStep
  <2>1. PolicyKept'
    BY <1>5, WatchKeepsPolicy DEF WInv
  <2> QED
    BY <1>1, <1>5, <2>1, WatchKeepsCaught DEF WInv
<1>6. CASE Crash
  <2>1. watcher' = Off /\ overflowed' = FALSE /\ untold' = {}
    BY <1>6 DEF Crash
  <2> QED
    BY <1>1, <2>1 DEF Off, WInv, PolicyKept, WatchFaithful, FlushOrder, NoneMissed, Flushing, WatchIsAt
<1> QED
  BY <1>2, <1>3, <1>4, <1>5, <1>6, <1>7 DEF Next, Tree

-----------------------------------------------------------------------------
(* THEOREMS                                                                *)

(* Every variable keeps its type and meta.json stays bounded, for any      *)
(* number of files, runs and readers.                                      *)
THEOREM TypeCorrect == Spec => []TypeOK
<1>1. IInv => TypeOK
  BY DEF IInv
<1> QED
  BY <1>1, AlwaysIInv, PTL

(* Whatever runs of index_project and flushes of the watcher overlap,      *)
(* whatever fails, and wherever the process dies: meta.json holds exactly  *)
(* the newest LogMax entries of its change log, in order.                  *)
THEOREM JournalAlwaysIntact == Spec => []JournalIntact
<1>1. IInv => JournalIntact
  BY DEF IInv, Journals, JournalIntact
<1> QED
  BY <1>1, AlwaysIInv, PTL

(* Hence get_index_changes never calls a feed complete that misses a       *)
(* revision, whatever revision the client knows, as long as the snapshot   *)
(* it answers from is not ahead of the persisted metadata.                 *)
THEOREM FeedAlwaysHonest == Spec => []FeedHonest
<1>1. ASSUME IInv, cache.revision <= metaJson.revision,
             NEW since \in 0 .. CurrentRevision,
             FeedIsComplete(metaJson, CurrentRevision, since)
      PROVE  FeedCovers(metaJson, CurrentRevision, since)
  <2>1. cache.revision \in Nat /\ metaJson \in Meta /\ metaJson.revision \in Nat
    BY <1>1 DEF IInv, TypeOK, Cached, Meta
  <2>2. CurrentRevision = metaJson.revision
    BY <1>1, <2>1 DEF CurrentRevision
  <2>3. since \in Nat /\ JournalOK(metaJson)
    BY <1>1, <2>1, <2>2 DEF IInv, Journals
  <2> QED
    BY <1>1, <2>1, <2>2, <2>3, CompleteFeedCovers
<1>2. IInv => FeedHonest
  BY <1>1 DEF FeedHonest
<1> QED
  BY <1>2, AlwaysIInv, PTL

(* A snapshot that agreed with index.bin when it was inserted still does,  *)
(* whenever no writer stands between its save of index.bin and its update  *)
(* of the cache: for any number of runs, readers and flushes, and through  *)
(* crashes and failed writes, nobody leaves a superseded snapshot behind   *)
(* but by losing a race he could have been seen to lose.                   *)
THEOREM CacheAlwaysCoherent == Spec => []CacheCoherent
<1>1. Init => CacheCoherent
  BY DEF Init, CacheCoherent, NoSnapshot
<1>2. TypeOK /\ CacheCoherent /\ [Next]_vars => CacheCoherent'
  BY NextKeepsCoherent
<1> QED
  BY <1>1, <1>2, TypeCorrect, PTL DEF Spec

(* Where no watcher runs, an index_project run that answers "cached" has    *)
(* loaded the index of the tree it compared with, under the exclusions     *)
(* asked for, but for the runs a race or a failed stat misled: for any     *)
(* number of files, processes, exclude lists and crashes.                  *)
THEOREM CachedAnswersSound == ~WatchEnabled /\ Spec => []TrustSound
<1>1. TInv => TrustSound
  BY DEF TInv, TrustSound, Decided, At
<1>2. Init /\ ~WatchEnabled => TInv
  BY InitTInv
<1>3. TInv /\ TypeOK' /\ [Next]_vars => TInv'
  BY NextKeepsTInv
<1> QED
  BY <1>1, <1>2, <1>3, TypeCorrect, PTL DEF Spec

(* A client that reads the feed after a flush of the watcher is told of    *)
(* every symbol that changed since the revision before, or that the entry  *)
(* was cut: for any files, any batches and resyncs, through failed saves   *)
(* and crashes, where index_project does not write beside the watcher.  A  *)
(* flush that fails to save meta.json enters nothing in the feed, and the  *)
(* property says nothing of it.                                            *)
THEOREM FlushesReported == ~ReindexWhileWatching /\ Spec => FlushReported
<1>1. ASSUME TypeOK, WatchAlone, Reports, [Next]_vars,
             WatchIsAt("save_meta"), metaJson' # metaJson
      PROVE  EntryCovers(served, served', NewestEntry(metaJson'))
  <2>1. WatchSaveMeta
    BY <1>1, OnlyFlushSaves DEF vars, diskVars
  <2>2. metaJson' = FlushMeta(watcher) /\ served' = watcher.idx
    BY <1>1, <2>1 DEF WatchSaveMeta
  <2>3. /\ watcher.old = Symbols(served) \cap watcher.todo
        /\ \A f \in Files \ watcher.todo : watcher.idx[f] = served[f]
    BY <1>1 DEF Reports, FlushSaves, WatchIsAt
  <2> QED
    BY <1>1, <2>2, <2>3, FlushCovers DEF TypeOK
<1>2. TypeOK /\ WatchAlone /\ Reports /\ [Next]_vars
        => WatchAlone' /\ Reports'
  BY WatchAloneKept, NextKeepsReports
<1>3. ~ReindexWhileWatching /\ Init => WatchAlone /\ Reports
  BY InitReports
<1>4. TypeOK /\ WatchAlone /\ Reports /\ [Next]_vars
        => [WatchIsAt("save_meta") /\ metaJson' # metaJson
              => EntryCovers(served, served', NewestEntry(metaJson'))]_vars
  BY <1>1
<1> QED
  BY <1>2, <1>3, <1>4, TypeCorrect, PTL DEF Spec, FlushReported

(* No change the watcher is told of is lost: once it is done with a file,  *)
(* index.bin and, where no stat failed, the mtime in meta.json are those   *)
(* of the tree, however changes, batches, late notices, overflows and      *)
(* crashes fall.  It takes saves that succeed (a failed one is logged and  *)
(* forgotten), no index_project beside the watcher and, where the channel  *)
(* can overflow, no exclusions of one's own: a resync goes on without them.*)
THEOREM NoChangeLost ==
  ~ReindexWhileWatching /\ WatchFaithful /\ Spec => []NoSilentDivergence
<1>1. ~ReindexWhileWatching /\ WatchFaithful /\ Init => WInv
  BY DEF Init, Off, WInv, WatchAlone, PolicyKept, FlushOrder, NoneMissed, Flushing, WatchIsAt
<1>2. TypeOK /\ WInv /\ [Next]_vars => WInv'
  BY NextKeepsWInv
<1>3. WInv => NoSilentDivergence
  BY DEF WInv, NoneMissed, NoSilentDivergence, Caught, OnDisk
<1> QED
  BY <1>1, <1>2, <1>3, TypeCorrect, PTL DEF Spec
=============================================================================
