----------------------------- MODULE TextIndex ------------------------------
(***************************************************************************)
(* The tantivy index of the symbols of a project, and who builds it.       *)
(*                                                                         *)
(*   disk     index.bin, as the number of the save that wrote it           *)
(*   cache    the snapshot of cache.rs                                     *)
(*   bm25     the tantivy directory and its sentinel (index/bm25.rs)       *)
(*   reader   READER_CACHE: what the cached reader sees                    *)
(*                                                                         *)
(* Indexers run index_project, the Flusher is the watcher's flush,         *)
(* Searchers call search_symbols in mode "bm25".  Nobody holds a lock from *)
(* one step to the next: a step is one access to shared state.             *)
(*                                                                         *)
(* Building the index has four steps, and the first removes the files of   *)
(* the directory one by one, so that two builders in one directory, and a  *)
(* death in between, do what they do.  What the library does then is       *)
(* external: a commit writes the segments its own writer knows and         *)
(* replaces the directory's list of segments.                              *)
(***************************************************************************)
EXTENDS Naturals, FiniteSets

CONSTANTS Indexers, Flusher, Searchers,
          MaxSaves,           \* bound: saves of index.bin
          MaxCrashes,         \* bound: deaths of the process
          IoFails             \* bound: a file operation may fail

Writers == Indexers \cup {Flusher}
Processes == Writers \cup Searchers

ASSUME TextIndexAssumption ==
  /\ Flusher \notin Indexers /\ Writers \cap Searchers = {}
  /\ MaxSaves \in Nat \ {0} /\ MaxCrashes \in Nat
  /\ IoFails \in BOOLEAN

VARIABLES disk, cache, bm25, reader, local,
          crashes,      \* counts against MaxCrashes
          \* History: they record, and steer nothing.
          quiet,        \* the writer that has been alone since it started
          settled,      \* a writer that was alone finished, and none started since
          buildRace     \* since then, someone rebuilt what another had built or was building

sharedVars == <<disk, cache, bm25, reader>>
historyVars == <<quiet, settled, buildRace>>
textVars == <<sharedVars, local, crashes, historyVars>>

-----------------------------------------------------------------------------
Saves == 1 .. MaxSaves
NoSnapshot == [present |-> FALSE, idx |-> 1]
NoReader == [present |-> FALSE, sees |-> {}]
(* The directory; torn: files of it are removed, and it is not.            *)
NoDir == [exists |-> FALSE, content |-> {}, torn |-> FALSE, ready |-> FALSE]
EmptyDir == [NoDir EXCEPT !.exists = TRUE]

(* What a process holds.  own: the snapshot it loaded or saved; sees: the  *)
(* segments its builder or reader knows; fresh: a run of index_project     *)
(* that saved, as against one that answers "cached".                       *)
Idle == [pc |-> "idle", own |-> 1, sees |-> {}, fresh |-> FALSE]

pc(p) == local[p].pc
Go(p, next) == local' = [local EXCEPT ![p].pc = next]
Rest(p) == local' = [local EXCEPT ![p] = Idle]

(* cache.rs *)
Snapshot(v) == [present |-> TRUE, idx |-> v]

(* A step of one process ends the solitude of every other.                 *)
Steps(p) == /\ quiet' = quiet \cap {p}
            /\ UNCHANGED <<crashes, settled>>
Starts(w) == /\ quiet' = IF \A p \in Processes \ {w} : pc(p) = "idle" THEN {w} ELSE {}
             /\ settled' = FALSE
             /\ UNCHANGED crashes
Finishes(w) == /\ settled' = (w \in quiet)
               /\ buildRace' = (buildRace /\ w \notin quiet)
               /\ quiet' = {}
               /\ UNCHANGED crashes
Fails == /\ IoFails
         /\ quiet' = {}
         /\ UNCHANGED <<crashes, settled>>

(* A process starts over an index that an earlier one saved.               *)
TextInit ==
  /\ disk = 1 /\ cache = NoSnapshot /\ reader = NoReader
  /\ bm25 \in {NoDir, [EmptyDir EXCEPT !.content = {1}, !.ready = TRUE]}
  /\ local = [p \in Processes |-> Idle]
  /\ crashes = 0
  /\ quiet = {} /\ settled = FALSE /\ buildRace = FALSE

-----------------------------------------------------------------------------
(* do_index_project from its first save on.                                *)
IndexSave(w) ==
  /\ w \in Indexers /\ pc(w) = "idle" /\ disk < MaxSaves
  /\ disk' = disk + 1
  /\ local' = [local EXCEPT ![w] = [pc |-> "drop_reader", own |-> disk + 1,
                                    sees |-> {}, fresh |-> TRUE]]
  /\ Starts(w)
  /\ UNCHANGED <<cache, bm25, reader, buildRace>>

(* The source snapshot or save_meta fails: the run ends with what it saved. *)
Abandon(w) ==
  /\ w \in Indexers /\ pc(w) = "drop_reader"
  /\ Rest(w)
  /\ Fails
  /\ UNCHANGED <<sharedVars, buildRace>>

(* bm25::invalidate; a flush ends with it, a run goes on to bm25::build.   *)
DropReader(w) ==
  /\ w \in Writers /\ pc(w) = "drop_reader"
  /\ reader' = NoReader
  /\ IF w = Flusher
     THEN Rest(w) /\ Finishes(w)
     ELSE Go(w, "remove") /\ Steps(w) /\ UNCHANGED buildRace
  /\ UNCHANGED <<disk, cache, bm25>>

(* cache::insert, of a run and of the "cached" answer.                     *)
Publish(w) ==
  /\ w \in Indexers /\ pc(w) = "publish"
  /\ cache' = Snapshot(local[w].own)
  /\ Rest(w)
  /\ IF local[w].fresh THEN Finishes(w) ELSE Steps(w) /\ UNCHANGED buildRace
  /\ UNCHANGED <<disk, bm25, reader>>

(* The cached answer of index_project loads the index it found.            *)
IndexCached(w) ==
  /\ w \in Indexers /\ pc(w) = "idle"
  /\ local' = [local EXCEPT ![w] = [Idle EXCEPT !.pc = "ensure", !.own = disk]]
  /\ Steps(w)
  /\ UNCHANGED <<sharedVars, buildRace>>

-----------------------------------------------------------------------------
(* The watcher's flush: reindex_batch and full_resync.  A save that fails  *)
(* is logged, and the flush goes on.                                       *)
FlushSave ==
  /\ pc(Flusher) = "idle"
  /\ disk' \in (IF disk < MaxSaves THEN {disk + 1} ELSE {})
               \cup (IF IoFails THEN {disk} ELSE {})
  /\ Go(Flusher, "drop_cache")
  /\ Starts(Flusher)
  /\ UNCHANGED <<cache, bm25, reader, buildRace>>

DropCache ==
  /\ pc(Flusher) = "drop_cache"
  /\ cache' = NoSnapshot
  /\ Go(Flusher, "mark_stale")
  /\ Steps(Flusher)
  /\ UNCHANGED <<disk, bm25, reader, buildRace>>

(* mark_stale removes the sentinel; its error is dropped.                  *)
FaultKeepSentinel ==
  /\ pc(Flusher) = "mark_stale"
  /\ Go(Flusher, "drop_reader")
  /\ Steps(Flusher)
  /\ UNCHANGED <<sharedVars, buildRace>>
MarkStale ==
  /\ pc(Flusher) = "mark_stale"
  /\ \/ bm25' = [bm25 EXCEPT !.ready = FALSE] /\ Steps(Flusher)
     \/ bm25' = bm25 /\ Fails
  /\ Go(Flusher, "drop_reader")
  /\ UNCHANGED <<disk, cache, reader, buildRace>>

-----------------------------------------------------------------------------
(* bm25.rs: ensure and build.                                              *)

(* Where a builder goes on, and where it goes when building failed: a      *)
(* writer logs the error, a search answers with it.                        *)
Built(p) == IF p \in Searchers THEN "open" ELSE "publish"
Broken(p) == IF p \in Searchers THEN "idle" ELSE "publish"

Ensure(p) ==
  /\ p \in Indexers \cup Searchers /\ pc(p) = "ensure"
  /\ Go(p, IF bm25.ready THEN Built(p) ELSE "remove")
  /\ Steps(p)
  /\ UNCHANGED <<sharedVars, buildRace>>

(* What p is about to remove is being built by another, or was built since *)
(* p found no sentinel.                                                    *)
Meets(p) == \/ \E q \in Processes \ {p} : pc(q) \in {"create", "commit", "sentinel"}
            \/ bm25.ready /\ ~local[p].fresh

(* remove_dir_all takes the files in the order of the directory, the       *)
(* sentinel somewhere among them: dying or failing, it leaves the rest.    *)
BuildErase(p) ==
  /\ pc(p) = "remove" /\ bm25.exists
  /\ \E left \in SUBSET bm25.content, ready \in {bm25.ready, FALSE} :
       bm25' = [exists |-> TRUE, content |-> left, torn |-> TRUE, ready |-> ready]
  /\ buildRace' = (buildRace \/ Meets(p))
  /\ Steps(p)
  /\ UNCHANGED <<disk, cache, reader, local>>

BuildRemove(p) ==
  /\ pc(p) = "remove"
  /\ bm25' = NoDir
  /\ Go(p, "create")
  /\ buildRace' = (buildRace \/ Meets(p))
  /\ Steps(p)
  /\ UNCHANGED <<disk, cache, reader>>

(* create_dir_all and open_or_create: an index found there is opened.      *)
BuildCreate(p) ==
  /\ pc(p) = "create"
  /\ bm25' = IF bm25.exists THEN bm25 ELSE EmptyDir
  /\ local' = [local EXCEPT ![p].pc = "commit", ![p].sees = bm25.content]
  /\ Steps(p)
  /\ UNCHANGED <<disk, cache, reader, buildRace>>

FaultSentinelFirst(p) ==
  /\ pc(p) = "commit" /\ bm25.exists
  /\ bm25' = [bm25 EXCEPT !.ready = TRUE]
  /\ Go(p, "sentinel")
  /\ Steps(p)
  /\ UNCHANGED <<disk, cache, reader, buildRace>>
BuildCommit(p) ==
  /\ pc(p) = "commit" /\ bm25.exists
  /\ bm25' = [bm25 EXCEPT !.content = local[p].sees \cup {local[p].own}]
  /\ Go(p, "sentinel")
  /\ Steps(p)
  /\ UNCHANGED <<disk, cache, reader, buildRace>>

BuildSentinel(p) ==
  /\ pc(p) = "sentinel" /\ bm25.exists
  /\ bm25' = [bm25 EXCEPT !.ready = TRUE]
  /\ local' = [local EXCEPT ![p].pc = Built(p), ![p].sees = {}]
  /\ Steps(p)
  /\ UNCHANGED <<disk, cache, reader, buildRace>>

(* Any step of a build may fail, and must when the directory is gone.      *)
BuildFails(p) ==
  /\ pc(p) \in {"remove", "create", "commit", "sentinel"}
  /\ \/ Fails
     \/ pc(p) \in {"commit", "sentinel"} /\ ~bm25.exists /\ Steps(p)
  /\ local' = [local EXCEPT ![p] = IF Broken(p) = "idle" THEN Idle
                                   ELSE [@ EXCEPT !.pc = Broken(p), !.sees = {}]]
  /\ UNCHANGED <<sharedVars, buildRace>>

-----------------------------------------------------------------------------
(* search_symbols in mode "bm25"                                           *)

(* load_project_index; SearchFill is its cache::insert.                    *)
Search(c) ==
  /\ c \in Searchers /\ pc(c) = "idle"
  /\ local' = [local EXCEPT ![c].pc = IF cache.present THEN "ensure" ELSE "search_fill",
                            ![c].own = IF cache.present THEN cache.idx ELSE disk]
  /\ Steps(c)
  /\ UNCHANGED <<sharedVars, buildRace>>

SearchFill(c) ==
  /\ pc(c) = "search_fill"
  /\ cache' = Snapshot(local[c].own)
  /\ Go(c, "ensure")
  /\ Steps(c)
  /\ UNCHANGED <<disk, bm25, reader, buildRace>>

(* get_or_open_reader: the cached reader serves, or one is opened and then *)
(* put into the cache; an index that lacks files may not open.             *)
OpenReader(c) ==
  /\ pc(c) = "open"
  /\ \/ /\ reader.present \/ ~bm25.exists \/ bm25.torn
        /\ Rest(c)
     \/ /\ ~reader.present /\ bm25.exists
        /\ local' = [local EXCEPT ![c] = [Idle EXCEPT !.pc = "keep_reader", !.sees = bm25.content]]
  /\ Steps(c)
  /\ UNCHANGED <<sharedVars, buildRace>>

KeepReader(c) ==
  /\ pc(c) = "keep_reader"
  /\ reader' = [present |-> TRUE, sees |-> local[c].sees]
  /\ Rest(c)
  /\ Steps(c)
  /\ UNCHANGED <<disk, cache, bm25, buildRace>>

(* The process dies; only the disk survives.                               *)
Crash ==
  /\ crashes < MaxCrashes
  /\ crashes' = crashes + 1
  /\ cache' = NoSnapshot /\ reader' = NoReader
  /\ local' = [p \in Processes |-> Idle]
  /\ quiet' = {}
  /\ UNCHANGED <<disk, bm25, settled, buildRace>>

TextNext ==
  \/ FlushSave \/ DropCache \/ MarkStale
  \/ \E w \in Writers : DropReader(w)
  \/ \E w \in Indexers : IndexSave(w) \/ Abandon(w) \/ Publish(w) \/ IndexCached(w)
  \/ \E p \in Processes : \/ Ensure(p) \/ BuildErase(p) \/ BuildRemove(p) \/ BuildCreate(p)
                          \/ BuildCommit(p) \/ BuildSentinel(p) \/ BuildFails(p)
  \/ \E c \in Searchers : Search(c) \/ SearchFill(c) \/ OpenReader(c) \/ KeepReader(c)
  \/ Crash

TextSpec == TextInit /\ [][TextNext]_textVars

-----------------------------------------------------------------------------
Stages == {"idle", "drop_reader", "remove", "create", "commit", "sentinel", "publish",
           "ensure", "drop_cache", "mark_stale", "open", "search_fill", "keep_reader"}

(* Types of the disk, of what is cached and of what a process holds; the   *)
(* segments and the sentinel lie in the directory and go with it.          *)
TypeOK ==
  /\ disk \in Saves
  /\ cache \in [present : BOOLEAN, idx : Saves]
  /\ bm25 \in [exists : BOOLEAN, content : SUBSET Saves, torn : BOOLEAN, ready : BOOLEAN]
  /\ bm25.ready \/ bm25.torn \/ bm25.content # {} => bm25.exists
  /\ reader \in [present : BOOLEAN, sees : SUBSET Saves]
  /\ local \in [Processes -> [pc : Stages, own : Saves, sees : SUBSET Saves, fresh : BOOLEAN]]
  /\ crashes \in 0 .. MaxCrashes
  /\ quiet \in SUBSET Writers /\ settled \in BOOLEAN /\ buildRace \in BOOLEAN

(* The sentinel vouches for the segments of one build and of no other,     *)
(* whatever died or failed, as long as no two builders met in the          *)
(* directory (bm25.rs, build).  A removal under way or cut short is         *)
(* excepted: it may have taken segments and left the sentinel, and then    *)
(* ensure builds nothing until a writer does.                              *)
OneBuild == \E s \in Saves : bm25.content = {s}
SentinelVouches == bm25.ready /\ ~bm25.torn /\ ~buildRace => OneBuild

(* A run or a flush that has the process to itself repairs whatever crashes, *)
(* failures and races left: afterwards snapshot, text index and reader are   *)
(* those of index.bin, and stay so while only searches run that do not build *)
(* the text index twice (do_index_project; watcher.rs, reindex_batch).       *)
AloneRepairs ==
  settled /\ ~buildRace =>
    /\ cache.present => cache.idx = disk
    /\ bm25.ready => bm25.content = {disk} /\ ~bm25.torn
    /\ reader.present => reader.sees = {disk}
=============================================================================
