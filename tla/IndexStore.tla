----------------------------- MODULE IndexStore -----------------------------
(***************************************************************************)
(* The persisted symbol index of one project and everyone who touches it:  *)
(*                                                                         *)
(*   indexBin   index.bin: the indexed version of every file               *)
(*   metaJson   meta.json: exclusions, mtimes, revision and change log     *)
(*   cache      the in-memory snapshot of cache.rs                         *)
(*   indexer    runs of index_project (tools/index_project.rs)             *)
(*   watcher    the flushes of the file watcher (watcher.rs), with the     *)
(*              watcher's own copy of the index                            *)
(*   reader     cache misses of load_project_index                         *)
(*                                                                         *)
(* None of the writers takes a lock that another one honours, so a step    *)
(* here is one read or one write of a shared file or of the cache.  Every  *)
(* file is written to a temporary name and renamed: a crash keeps or loses *)
(* a whole write.                                                          *)
(*                                                                         *)
(* A version of a file is its mtime; 0 stands for "no such file" in the    *)
(* source tree and "no symbols" in an index.  Mtimes are taken from a      *)
(* clock that ticks with every change, so none repeats.  The tree is one   *)
(* directory, whose mtime moves when a file appears or disappears.         *)
(***************************************************************************)
EXTENDS ChangeLog

CONSTANTS Indexers, Readers,
          Policies,       \* effective exclusion lists a caller can ask for
          DefaultPolicy,  \* default_exclude_patterns plus .gitignore
          NoPolicy,       \* the empty list
          Hides,          \* Hides[policy]: the files the policy excludes
          MaxStamp,       \* bound: the clock, so MaxStamp - 1 changes to the tree
          MaxRevision,    \* bound: no index_project run indexes again at this revision
          WatchEnabled,   \* bound: a watcher may be started
          ReindexWhileWatching, \* bound: index_project may run next to a watcher
          OverflowEnabled,      \* bound: the event channel may be full
          CrashEnabled,         \* bound: the process may die
          IoFailEnabled,        \* bound: a read, a write or a walk may fail
          StatFailEnabled       \* bound: a stat of a file just walked may fail

ASSUME StoreAssumption ==
  /\ DefaultPolicy \in Policies
  /\ NoPolicy \notin Policies
  /\ Hides \in [Policies -> SUBSET Files]
  /\ MaxStamp \in Nat \ {0}
  /\ MaxRevision \in Nat
  /\ {WatchEnabled, ReindexWhileWatching, OverflowEnabled,
      CrashEnabled, IoFailEnabled, StatFailEnabled} \subseteq BOOLEAN

VARIABLES source, clock, dirStamp,       \* the source tree
          indexBin, metaJson,            \* the disk
          cache, indexer, reader,        \* the process
          watcher, untold, events, overflowed,  \* its watcher; the changes it is not
                                         \* told of yet, the event channel
          \* History variables: they record, and steer nothing.
          overlapped,      \* runs during which the tree or the disk changed
          raceOnDisk,      \* an overlapped run wrote to the disk, or index.bin is
                           \* of another policy; no clean run finished since
          misled,          \* runs that met a race on the disk or a failed stat
                           \* between their decision and their load
          lost,            \* files whose mtimes meta.json lacks by a failed stat
          served           \* index content clients know at the last revision

treeVars == <<source, clock, dirStamp>>
diskVars == <<indexBin, metaJson>>
watchVars == <<watcher, untold, events, overflowed>>
historyVars == <<overlapped, raceOnDisk, misled, lost, served>>
vars == <<treeVars, diskVars, cache, indexer, reader, watchVars, historyVars>>

-----------------------------------------------------------------------------
Stamps == 0 .. MaxStamp
Content == [Files -> Stamps]
Nothing == [f \in Files |-> 0]
Symbols(content) == {f \in Files : content[f] # 0}

(* meta.json; IndexMeta::new and an unreadable file are both NewMeta. *)
Meta == [exists : BOOLEAN, policy : Policies \cup {NoPolicy},
         files : Content, dir : Stamps,
         revision : Nat, changeLog : Seq(RevisionChange)]

NewMeta == [exists |-> FALSE, policy |-> NoPolicy, files |-> Nothing, dir |-> 0,
            revision |-> 0, changeLog |-> << >>]

Hidden(policy) == IF policy = NoPolicy THEN {} ELSE Hides[policy]

(* What a walk of the tree under a policy finds and parses. *)
Visible(policy) == [f \in Files |-> IF f \in Hidden(policy) THEN 0 ELSE source[f]]

(* current_source_snapshot: the mtimes of what the walk finds, and of the  *)
(* directory; or, when a file it found is gone before its stat, nothing,   *)
(* and no error.                                                           *)
Blank == [files |-> Nothing, dir |-> 0]
Snapshots(policy) == {[files |-> Visible(policy), dir |-> dirStamp]}
                       \cup (IF StatFailEnabled THEN {Blank} ELSE {})
LostBy(snapshot) == IF snapshot = Blank THEN Files ELSE {}

EffectivePolicy(meta) == IF meta.policy = NoPolicy THEN DefaultPolicy ELSE meta.policy

-----------------------------------------------------------------------------
(* is_index_up_to_date, with the snapshot it takes at its end; and the     *)
(* first half of the decision to answer "cached", cached_excludes_match.   *)

UpToDate(meta, current) ==
  /\ \A f \in Files : meta.files[f] # 0 => meta.files[f] = source[f]
  /\ \/ meta.dir # 0 /\ meta.dir = dirStamp
     \/ meta.files = current.files

FaultAnyPolicy(policy) == indexBin.exists /\ metaJson.exists
ExcludesMatch(policy) == /\ indexBin.exists /\ metaJson.exists
                         /\ metaJson.policy = policy

-----------------------------------------------------------------------------
(* cache.rs.  raced is history: the snapshot was no longer the disk's when *)
(* it was inserted, or a run that replaced index.bin failed before it got  *)
(* to the cache.  load_project_index drops the symbols of files that are   *)
(* gone, so a faithful snapshot may lack some.                             *)

NoSnapshot == [present |-> FALSE, idx |-> Nothing, revision |-> 0, raced |-> FALSE]
Agrees(idx) == \A f \in Files : idx[f] \in {0, indexBin.idx[f]}
Snapshot(idx, revision) == [present |-> TRUE, idx |-> idx, revision |-> revision,
                            raced |-> ~Agrees(idx)]

FaultKeepSnapshot == cache
Invalidated == NoSnapshot

-----------------------------------------------------------------------------
(* Types and the initial state *)

Idle == [pc |-> "idle", policy |-> NoPolicy, idx |-> Nothing, files |-> Nothing,
         dir |-> 0, base |-> NewMeta]
NoLoad == [pc |-> "idle", idx |-> Nothing, revision |-> 0]
Off == [pc |-> "off", policy |-> NoPolicy, idx |-> Nothing, old |-> {}, todo |-> {},
        resync |-> FALSE, base |-> NewMeta, seen |-> {}]

IndexerSteps == {"idle", "check", "compare", "load_cached", "insert_cached", "parse", "save_index",
                 "snapshot", "load_meta", "save_meta", "publish"}
Undecided == {"check", "compare", "load_cached"}
ReaderSteps == {"idle", "load_meta", "insert"}
WatcherSteps == {"off", "starting", "idle", "rebuild", "save_index", "invalidate",
                 "load_meta", "save_meta", "load_stamps", "save_stamps"}

Disk == [exists : BOOLEAN, idx : Content]
Cached == [present : BOOLEAN, idx : Content, revision : Nat, raced : BOOLEAN]
Run == [pc : IndexerSteps, policy : Policies \cup {NoPolicy}, idx : Content,
        files : Content, dir : Stamps, base : Meta]
Load == [pc : ReaderSteps, idx : Content, revision : Nat]
Watcher == [pc : WatcherSteps, policy : Policies \cup {NoPolicy}, idx : Content,
            old : SUBSET Files, todo : SUBSET Files, resync : BOOLEAN,
            base : Meta, seen : SUBSET Files]

(* Types; and meta.json stays bounded. *)
TypeOK ==
  /\ source \in Content /\ clock \in Stamps /\ dirStamp \in Stamps
  /\ indexBin \in Disk
  /\ metaJson \in Meta /\ Len(metaJson.changeLog) <= LogMax
  /\ cache \in Cached
  /\ indexer \in [Indexers -> Run]
  /\ reader \in [Readers -> Load]
  /\ watcher \in Watcher
  /\ untold \in SUBSET Files /\ events \in SUBSET Files /\ overflowed \in BOOLEAN
  /\ overlapped \in SUBSET Indexers /\ raceOnDisk \in BOOLEAN
  /\ misled \in SUBSET Indexers /\ lost \in SUBSET Files
  /\ served \in Content

Init ==
  /\ source \in [Files -> {0, 1}] /\ clock = 1 /\ dirStamp = 1
  /\ indexBin = [exists |-> FALSE, idx |-> Nothing] /\ metaJson = NewMeta
  /\ cache = NoSnapshot
  /\ indexer = [p \in Indexers |-> Idle] /\ reader = [r \in Readers |-> NoLoad]
  /\ watcher = Off /\ untold = {} /\ events = {} /\ overflowed = FALSE
  /\ overlapped = {} /\ raceOnDisk = FALSE /\ misled = {} /\ lost = {}
  /\ served = Nothing

-----------------------------------------------------------------------------
(* The source tree.  While the notify handler is registered, it is told of *)
(* a change some time later, in one event or several (created, modified):  *)
(* each is entered into the channel or, the channel being full, raises the *)
(* overflow flag.  By then the channel may have been emptied.              *)

Registered == watcher.pc \notin {"off", "starting"}

Change(f, version) ==
  /\ clock < MaxStamp
  /\ clock' = clock + 1
  /\ source' = [source EXCEPT ![f] = version]
  /\ dirStamp' = IF source[f] = 0 \/ version = 0 THEN clock' ELSE dirStamp
  /\ untold' = IF Registered THEN untold \cup {f} ELSE untold
  /\ overlapped' = Indexers
  /\ UNCHANGED <<diskVars, cache, indexer, reader, watcher, events, overflowed,
                 raceOnDisk, misled, lost, served>>

Write(f) == Change(f, clock + 1)
Delete(f) == source[f] # 0 /\ Change(f, 0)

Notify(f) ==
  /\ f \in untold
  /\ untold' = untold \ {f}
  /\ watcher' = [watcher EXCEPT !.seen = @ \cup {f}]
  /\ \/ events' = events \cup {f} /\ UNCHANGED overflowed
     \/ OverflowEnabled /\ overflowed' = TRUE /\ events' \in {events, events \cup {f}}
  /\ UNCHANGED <<treeVars, diskVars, cache, indexer, reader, historyVars>>

-----------------------------------------------------------------------------
(* index_project *)

At(p, step) == indexer[p].pc = step
Goto(p, step) == indexer' = [indexer EXCEPT ![p].pc = step]
Return(p) == indexer' = [indexer EXCEPT ![p] = Idle]

MayIndex == metaJson.revision < MaxRevision

(* The decision, answer from disk or index again: meta.json is read for    *)
(* its exclusions, read again for its mtimes, and index.bin after that.    *)
IndexStart(p, policy, force) ==
  /\ At(p, "idle")
  /\ ReindexWhileWatching \/ watcher.pc = "off"
  /\ MayIndex \/ (~force /\ ExcludesMatch(policy))
  /\ indexer' = [indexer EXCEPT
                   ![p].pc = IF ~force /\ ExcludesMatch(policy) THEN "check" ELSE "parse",
                   ![p].policy = policy]
  /\ misled' = misled \ {p}
  /\ UNCHANGED <<treeVars, diskVars, cache, reader, watchVars,
                 overlapped, raceOnDisk, lost, served>>

IndexReadMeta(p) ==
  /\ At(p, "check")
  /\ indexer' = [indexer EXCEPT ![p].pc = "compare", ![p].base = metaJson]
  /\ UNCHANGED <<treeVars, diskVars, cache, reader, watchVars, historyVars>>

(* A run that answers from disk notes, as history, the tree it compared.   *)
IndexCompare(p) ==
  /\ At(p, "compare")
  /\ \E current \in Snapshots(indexer[p].policy) :
       LET trusted == UpToDate(indexer[p].base, current)
       IN /\ MayIndex \/ trusted
          /\ indexer' = [indexer EXCEPT
                           ![p].pc = IF trusted THEN "load_cached" ELSE "parse",
                           ![p].files = IF trusted THEN source ELSE @,
                           ![p].base = NewMeta]
          /\ misled' = IF raceOnDisk \/ current = Blank THEN misled \cup {p} ELSE misled
  /\ UNCHANGED <<treeVars, diskVars, cache, reader, watchVars,
                 overlapped, raceOnDisk, lost, served>>

IndexLoadCached(p) ==
  /\ At(p, "load_cached")
  /\ indexer' = [indexer EXCEPT ![p].pc = "insert_cached", ![p].idx = indexBin.idx]
  /\ UNCHANGED <<treeVars, diskVars, cache, reader, watchVars, historyVars>>

(* A file that cannot be read is no reason to fail. *)
IndexReadFails(p) ==
  /\ IoFailEnabled
  /\ indexer[p].pc \in {"check", "load_cached"}
  /\ indexer' = [indexer EXCEPT ![p] = [Idle EXCEPT !.pc = "parse",
                                               !.policy = indexer[p].policy]]
  /\ UNCHANGED <<treeVars, diskVars, cache, reader, watchVars, historyVars>>

IndexInsertCached(p) ==
  /\ At(p, "insert_cached")
  /\ cache' = Snapshot(indexer[p].idx, 0)
  /\ Return(p)
  /\ UNCHANGED <<treeVars, diskVars, reader, watchVars, historyVars>>

(* do_index_project, one step per access to shared state. *)
IndexParse(p) ==
  /\ At(p, "parse") /\ MayIndex
  /\ indexer' = [indexer EXCEPT ![p].pc = "save_index",
                                ![p].idx = Visible(indexer[p].policy)]
  /\ overlapped' = overlapped \ {p}
  /\ UNCHANGED <<treeVars, diskVars, cache, reader, watchVars,
                 raceOnDisk, misled, lost, served>>

(* History: the other runs between their decision and their load, which    *)
(* find another index or other mtimes than the ones they decided on.       *)
Deciding == {q \in Indexers : indexer[q].pc \in Undecided}
DecidingOn(p) == Deciding \ {p}

(* History: until this run saves its metadata, those of another exclude    *)
(* list stand beside its index.                                            *)
SwitchesPolicy(p) == metaJson.exists /\ metaJson.policy # indexer[p].policy

IndexSaveIndex(p) ==
  /\ At(p, "save_index")
  /\ indexBin' = [exists |-> TRUE, idx |-> indexer[p].idx]
  /\ Goto(p, "snapshot")
  /\ overlapped' = overlapped \cup (Indexers \ {p})
  /\ raceOnDisk' = (raceOnDisk \/ p \in overlapped \/ SwitchesPolicy(p))
  /\ misled' = misled \cup DecidingOn(p)
  /\ UNCHANGED <<treeVars, metaJson, cache, reader, watchVars, lost, served>>

IndexSnapshot(p) ==
  /\ At(p, "snapshot")
  /\ \E snapshot \in Snapshots(indexer[p].policy) :
       indexer' = [indexer EXCEPT ![p].pc = "load_meta",
                                  ![p].files = snapshot.files, ![p].dir = snapshot.dir]
  /\ UNCHANGED <<treeVars, diskVars, cache, reader, watchVars, historyVars>>

IndexLoadMeta(p) ==
  /\ At(p, "load_meta")
  /\ indexer' = [indexer EXCEPT ![p].pc = "save_meta", ![p].base = metaJson]
  /\ UNCHANGED <<treeVars, diskVars, cache, reader, watchVars, historyVars>>

(* The rebuilt metadata: fresh mtimes and exclusions, the previous         *)
(* revision and change log carried over, every symbol recorded as added.   *)
FaultForgetJournal(run) ==
  RecordChange([exists |-> TRUE, policy |-> run.policy, files |-> run.files,
                dir |-> run.dir, revision |-> run.base.revision, changeLog |-> << >>],
               Symbols(run.idx), {}, {})
FreshMeta(run) ==
  RecordChange([exists |-> TRUE, policy |-> run.policy, files |-> run.files,
                dir |-> run.dir, revision |-> run.base.revision,
                changeLog |-> run.base.changeLog],
               Symbols(run.idx), {}, {})

IndexSaveMeta(p) ==
  /\ At(p, "save_meta")
  /\ metaJson' = FreshMeta(indexer[p])
  /\ indexer' = [indexer EXCEPT ![p].pc = "publish", ![p].base = metaJson']
  /\ overlapped' = overlapped \cup (Indexers \ {p})
  /\ raceOnDisk' = (p \in overlapped)
  /\ misled' = misled \cup DecidingOn(p)
  /\ lost' = LostBy([files |-> indexer[p].files, dir |-> indexer[p].dir])
  /\ served' = indexer[p].idx
  /\ UNCHANGED <<treeVars, indexBin, cache, reader, watchVars>>

IndexPublish(p) ==
  /\ At(p, "publish")
  /\ cache' = Snapshot(indexer[p].idx, indexer[p].base.revision)
  /\ Return(p)
  /\ UNCHANGED <<treeVars, diskVars, reader, watchVars, historyVars>>

(* The walk or one of the two saves fails: the `?` returns at once, and    *)
(* after a failed save of meta.json the cache is not what index.bin is.    *)
IndexFail(p) ==
  /\ IoFailEnabled
  /\ indexer[p].pc \in {"parse", "save_index", "save_meta"}
  /\ cache' = [cache EXCEPT !.raced = @ \/ (cache.present /\ At(p, "save_meta"))]
  /\ Return(p)
  /\ UNCHANGED <<treeVars, diskVars, reader, watchVars, historyVars>>

-----------------------------------------------------------------------------
(* load_project_index on a cache miss.  A hit changes nothing.             *)

FilesThatExist(idx) == [f \in Files |-> IF source[f] = 0 THEN 0 ELSE idx[f]]

ReadLoadIndex(r) ==
  /\ reader[r].pc = "idle" /\ ~cache.present /\ indexBin.exists
  /\ reader' = [reader EXCEPT ![r].pc = "load_meta", ![r].idx = indexBin.idx]
  /\ UNCHANGED <<treeVars, diskVars, cache, indexer, watchVars, historyVars>>

ReadLoadMeta(r) ==
  /\ reader[r].pc = "load_meta"
  /\ reader' = [reader EXCEPT ![r].pc = "insert", ![r].revision = metaJson.revision,
                              ![r].idx = FilesThatExist(@)]
  /\ UNCHANGED <<treeVars, diskVars, cache, indexer, watchVars, historyVars>>

ReadInsert(r) ==
  /\ reader[r].pc = "insert"
  /\ cache' = Snapshot(reader[r].idx, reader[r].revision)
  /\ reader' = [reader EXCEPT ![r] = NoLoad]
  /\ UNCHANGED <<treeVars, diskVars, indexer, watchVars, historyVars>>

-----------------------------------------------------------------------------
(* The watcher.  It clones the index that load_project_index serves, then  *)
(* registers with notify; from then on it never reads index.bin again.     *)

WatchIsAt(step) == watcher.pc = step

WatchLoad ==
  /\ WatchEnabled /\ WatchIsAt("off")
  /\ indexBin.exists
  /\ ReindexWhileWatching \/ \A p \in Indexers : At(p, "idle")
  /\ cache' = IF cache.present THEN cache
              ELSE Snapshot(FilesThatExist(indexBin.idx), metaJson.revision)
  /\ watcher' = [Off EXCEPT !.pc = "starting", !.idx = cache'.idx]
  /\ served' = cache'.idx
  /\ UNCHANGED <<treeVars, diskVars, indexer, reader, events, overflowed,
                 overlapped, raceOnDisk, misled, lost, untold>>

WatchRegister ==
  /\ WatchIsAt("starting")
  /\ watcher' = [watcher EXCEPT !.pc = "idle"]
  /\ UNCHANGED <<treeVars, diskVars, cache, indexer, reader, untold, events, overflowed,
                 historyVars>>

(* flush_pending without overflow: reindex_batch under the index lock.  A  *)
(* path the policy excludes is dropped, the others are parsed again.       *)
FaultDropNewEvents(todo) == {}
EventsLeft(todo) == events \ todo

Reindexed(content, todo, policy) ==
  [f \in Files |-> IF f \in todo THEN Visible(policy)[f] ELSE content[f]]

FlushBatch(todo) ==
  /\ WatchIsAt("idle") /\ ~overflowed
  /\ todo # {} /\ todo \subseteq events
  /\ events' = EventsLeft(todo)
  /\ LET policy == EffectivePolicy(metaJson)
     IN  watcher' = [watcher EXCEPT
                       !.pc = "save_index", !.todo = todo, !.resync = FALSE,
                       !.policy = policy,
                       !.old = Symbols(watcher.idx) \cap todo,
                       !.idx = Reindexed(watcher.idx, todo, policy)]
  /\ UNCHANGED <<treeVars, diskVars, cache, indexer, reader, untold, overflowed, historyVars>>

(* flush_pending after an overflow: full_resync.  Only a received path     *)
(* arms the deadline that gets there.  The flag is cleared first; the      *)
(* pending paths are cleared whether or not the walk succeeds.             *)
FlushResync(todo) ==
  /\ WatchIsAt("idle") /\ overflowed
  /\ todo # {} /\ todo \subseteq events
  /\ overflowed' = FALSE
  /\ events' = EventsLeft(todo)
  /\ watcher' = [watcher EXCEPT !.pc = "rebuild", !.todo = Files, !.resync = TRUE,
                                !.policy = EffectivePolicy(metaJson),
                                !.old = Symbols(watcher.idx)]
  /\ UNCHANGED <<treeVars, diskVars, cache, indexer, reader, untold, historyVars>>

WatchRebuild ==
  /\ WatchIsAt("rebuild")
  /\ watcher' = [watcher EXCEPT !.pc = "save_index", !.idx = Visible(watcher.policy)]
  /\ UNCHANGED <<treeVars, diskVars, cache, indexer, reader, untold, events, overflowed,
                 historyVars>>

WatchRebuildFails ==
  /\ IoFailEnabled /\ WatchIsAt("rebuild")
  /\ watcher' = [Off EXCEPT !.pc = "idle", !.idx = watcher.idx, !.seen = watcher.seen]
  /\ UNCHANGED <<treeVars, diskVars, cache, indexer, reader, untold, events, overflowed,
                 historyVars>>

(* A save that fails is logged, and the flush goes on. *)
WatchSaveIndex ==
  /\ WatchIsAt("save_index")
  /\ watcher' = [watcher EXCEPT !.pc = "invalidate"]
  /\ \/ indexBin' = [exists |-> TRUE, idx |-> watcher.idx]
     \/ IoFailEnabled /\ UNCHANGED indexBin
  /\ overlapped' = Indexers /\ misled' = misled \cup Deciding
  /\ UNCHANGED <<treeVars, metaJson, cache, indexer, reader, untold, events, overflowed,
                 raceOnDisk, lost, served>>

WatchInvalidate ==
  /\ WatchIsAt("invalidate")
  /\ cache' = Invalidated
  /\ watcher' = [watcher EXCEPT !.pc = "load_meta"]
  /\ UNCHANGED <<treeVars, diskVars, indexer, reader, untold, events, overflowed,
                 historyVars>>

WatchLoadMeta ==
  /\ WatchIsAt("load_meta")
  /\ watcher' = [watcher EXCEPT !.pc = "save_meta", !.base = metaJson]
  /\ UNCHANGED <<treeVars, diskVars, cache, indexer, reader, untold, events, overflowed,
                 historyVars>>

(* The flush as a revision: the affected symbols, by whether they were     *)
(* there before and are there now.                                         *)
FaultUnreportedRemovals(w) ==
  RecordChange([w.base EXCEPT !.exists = TRUE],
               (Symbols(w.idx) \cap w.todo) \ w.old, {}, Symbols(w.idx) \cap w.old)

FlushMeta(w) ==
  RecordChange([w.base EXCEPT !.exists = TRUE],
               (Symbols(w.idx) \cap w.todo) \ w.old,   \* added
               w.old \ Symbols(w.idx),                 \* removed
               Symbols(w.idx) \cap w.old)              \* modified

WatchSaveMeta ==
  /\ WatchIsAt("save_meta")
  /\ watcher' = [watcher EXCEPT !.pc = "load_stamps"]
  /\ \/ metaJson' = FlushMeta(watcher)
     \/ IoFailEnabled /\ UNCHANGED metaJson
  /\ served' = watcher.idx
  /\ overlapped' = Indexers /\ misled' = misled \cup Deciding
  /\ UNCHANGED <<treeVars, indexBin, cache, indexer, reader, untold, events, overflowed,
                 raceOnDisk, lost>>

(* After the embeddings are updated, the mtimes.  A batch stamps its paths *)
(* (excluded ones too) and their directory as they are by then; a resync   *)
(* starts from IndexMeta::new and a snapshot without exclusions, which may *)
(* be blank: the walk that rebuilt the index is another one.               *)
FaultKeepStampOfGone(meta, todo) ==
  [meta EXCEPT !.exists = TRUE, !.dir = dirStamp,
               !.files = [f \in Files |-> IF f \in todo /\ source[f] # 0
                                          THEN source[f] ELSE @[f]]]

Stamped(meta, todo) ==
  [meta EXCEPT !.exists = TRUE, !.dir = dirStamp,
               !.files = [f \in Files |-> IF f \in todo THEN source[f] ELSE meta.files[f]]]

FaultNoStamps(snapshot) == [NewMeta EXCEPT !.exists = TRUE, !.dir = snapshot.dir]
ResyncMeta(snapshot) ==
  [NewMeta EXCEPT !.exists = TRUE, !.files = snapshot.files, !.dir = snapshot.dir]

WatchLoadStamps ==
  /\ WatchIsAt("load_stamps")
  /\ \E snapshot \in Snapshots(NoPolicy) :
       watcher' = [watcher EXCEPT
                     !.pc = "save_stamps",
                     !.base = IF watcher.resync THEN ResyncMeta(snapshot)
                              ELSE Stamped(metaJson, watcher.todo)]
  /\ UNCHANGED <<treeVars, diskVars, cache, indexer, reader, untold, events, overflowed,
                 historyVars>>

(* History: what these mtimes lack. *)
LostThen(w) == IF w.resync THEN LostBy([files |-> w.base.files, dir |-> w.base.dir])
                           ELSE lost \ w.todo

WatchSaveStamps ==
  /\ WatchIsAt("save_stamps")
  /\ watcher' = [Off EXCEPT !.pc = "idle", !.idx = watcher.idx, !.seen = watcher.seen]
  /\ \/ /\ metaJson' = watcher.base
        /\ lost' = LostThen(watcher)
     \/ IoFailEnabled /\ UNCHANGED <<metaJson, lost>>
  /\ overlapped' = Indexers /\ misled' = misled \cup Deciding
  /\ UNCHANGED <<treeVars, indexBin, cache, indexer, reader, untold, events, overflowed,
                 raceOnDisk, served>>

-----------------------------------------------------------------------------
(* The process dies: the disk is all that is left. *)
Crash ==
  /\ CrashEnabled
  /\ cache' = NoSnapshot
  /\ indexer' = [p \in Indexers |-> Idle] /\ reader' = [r \in Readers |-> NoLoad]
  /\ watcher' = Off /\ untold' = {} /\ events' = {} /\ overflowed' = FALSE
  /\ UNCHANGED <<treeVars, diskVars, historyVars>>

Tree == \E f \in Files : Write(f) \/ Delete(f) \/ Notify(f)

Index(p) ==
  \/ \E policy \in Policies, force \in BOOLEAN : IndexStart(p, policy, force)
  \/ IndexReadMeta(p) \/ IndexCompare(p) \/ IndexLoadCached(p) \/ IndexReadFails(p)
  \/ IndexInsertCached(p)
  \/ IndexParse(p) \/ IndexSaveIndex(p) \/ IndexSnapshot(p)
  \/ IndexLoadMeta(p) \/ IndexSaveMeta(p) \/ IndexPublish(p)
  \/ IndexFail(p)

Read(r) == ReadLoadIndex(r) \/ ReadLoadMeta(r) \/ ReadInsert(r)

Flush == \E todo \in SUBSET Files : FlushBatch(todo) \/ FlushResync(todo)

WatchStep ==
  \/ WatchRegister \/ Flush
  \/ WatchRebuild \/ WatchRebuildFails \/ WatchSaveIndex \/ WatchInvalidate
  \/ WatchLoadMeta \/ WatchSaveMeta \/ WatchLoadStamps \/ WatchSaveStamps

Next == \/ Tree
        \/ \E p \in Indexers : Index(p)
        \/ \E r \in Readers : Read(r)
        \/ WatchLoad \/ WatchStep
        \/ Crash

Spec == Init /\ [][Next]_vars

(* The debounce loop is a spawned task: it runs on when it can.  Nobody is *)
(* obliged to edit, index, query or crash.                                 *)
FairSpec == Spec /\ WF_vars(WatchStep)

-----------------------------------------------------------------------------
(* PROPERTIES                                                              *)

(* The change log always holds exactly the newest LogMax revisions, one    *)
(* entry each, in order, whatever writers overlap, fail or crash           *)
(* (IndexMeta::record_change, and every caller that carries a journal over). *)
JournalIntact == JournalOK(metaJson)

(* get_index_changes calls a feed complete only when every revision after  *)
(* the client's, up to the one it reports as current, has an entry.  (A     *)
(* resync, or a run that saves over a revision it has not read, takes the  *)
(* persisted revision back below the snapshot's: then it may.)             *)
CurrentRevision == IF cache.revision > metaJson.revision
                   THEN cache.revision ELSE metaJson.revision

FeedHonest ==
  cache.revision <= metaJson.revision =>
    \A since \in 0 .. CurrentRevision :
       FeedIsComplete(metaJson, CurrentRevision, since)
         => FeedCovers(metaJson, CurrentRevision, since)

(* No writer stands between its save of index.bin and its update of the    *)
(* cache.                                                                  *)
NoWriterInBetween ==
  /\ \A p \in Indexers :
        indexer[p].pc \notin {"snapshot", "load_meta", "save_meta", "publish"}
  /\ ~WatchIsAt("invalidate")

(* A snapshot that was faithful when it was inserted is replaced or        *)
(* dropped by whoever changes index.bin: queries are never answered from a *)
(* superseded index, but for the fill that loses a race                    *)
(* and the run that fails between index.bin and the cache.                 *)
CacheCoherent == cache.present /\ ~cache.raced /\ NoWriterInBetween => Agrees(cache.idx)

(* An index_project run that answers "cached" has loaded an index that     *)
(* matches, under the exclusions asked for, the tree it compared with,     *)
(* whatever a crash has left in the two files.  Not so when the run met a  *)
(* race: another writer saved between its first read and its load, the     *)
(* files stand there from a run under which the tree or the disk changed,  *)
(* or by one with other exclusions that saved the first and not the        *)
(* second; or a stat failed as it compared.  Symbols of files that are     *)
(* gone are let through.                                                   *)
(* (For projects without a watcher: it stamps the files it flushes, see    *)
(* NoSilentDivergence.)                                                    *)
Shows(idx, policy, tree) ==
  \A f \in Files : tree[f] # 0 => idx[f] = IF f \in Hidden(policy) THEN 0 ELSE tree[f]

TrustSound ==
  \A p \in Indexers : At(p, "insert_cached") /\ p \notin misled =>
    Shows(indexer[p].idx, indexer[p].policy, indexer[p].files)

(* The disk agrees with the tree on a file, and so does the mtime that a   *)
(* restart will compare, unless a stat failed when it was to be saved and  *)
(* the file has not been flushed since.                                    *)
OnDisk(f) == /\ indexBin.idx[f] = Visible(EffectivePolicy(metaJson))[f]
             /\ f \notin lost => metaJson.files[f] = source[f]

(* Once the watcher has been told of every change to a file and is done    *)
(* with it, the disk agrees with the tree: no change is dropped by         *)
(* overflow, by a batch that was already running, or by a change that      *)
(* arrives while one is flushed.                                           *)
NoSilentDivergence ==
  WatchIsAt("idle") /\ ~overflowed =>
    \A f \in watcher.seen \ (events \cup untold) : OnDisk(f)

(* The entry of a watcher flush names every symbol that differs between    *)
(* the index clients knew and the one they get, or says it was truncated.  *)
EntryCovers(before, after, change) ==
  change.truncated \/ {f \in Files : before[f] # after[f]} \subseteq Mentioned(change)

NewestEntry(meta) == meta.changeLog[Len(meta.changeLog)]

FlushReported ==
  [][WatchIsAt("save_meta") /\ metaJson' # metaJson
       => EntryCovers(served, served', NewestEntry(metaJson'))]_vars

(* Every change the watcher is told of reaches the disk, together with the *)
(* mtime that will let a restart trust it; unless the file changes again,  *)
(* and the watcher is not told, or is left with the flag and no path.      *)
LateFlag == overflowed /\ events = {}
EventsReachDisk == \A f \in Files : f \in events ~> (OnDisk(f) \/ f \in untold \/ LateFlag)

(* So does everything the channel could not take, once a path arrives that *)
(* arms the deadline.                                                      *)
OverflowRepaired ==
  overflowed /\ events # {} ~>
    (LateFlag \/ \A f \in Files : f \in events \cup untold \/ OnDisk(f))
=============================================================================
