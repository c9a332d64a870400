----------------------------- MODULE AnswerCache -----------------------------
(***************************************************************************)
(* The answers of investigate that a session keeps, and who invalidates    *)
(* them.                                                                   *)
(*                                                                         *)
(*   disk     index.bin, as the number of the save that wrote it           *)
(*   cache    the snapshot of cache.rs                                     *)
(*   table,   the sessions of all projects by last use, and the session    *)
(*   session  of the project served (session.rs)                           *)
(*                                                                         *)
(* Indexers run index_project, the Flusher is the watcher's flush,         *)
(* Investigators call investigate.  Nobody holds a lock from one step to   *)
(* the next: a step is one access to shared state.                         *)
(***************************************************************************)
EXTENDS SessionTable, FiniteSets

CONSTANTS Indexers, Flusher, Investigators,
          Project, Others,    \* the project served; other projects in use
          Queries,
          MaxSaves,           \* bound: saves of index.bin
          MaxFlushes,         \* bound: flushes, as epochs of one session
          IoFails             \* bound: a file operation may fail

Writers == Indexers \cup {Flusher}
Processes == Writers \cup Investigators

ASSUME AnswerAssumption ==
  /\ Flusher \notin Indexers /\ Writers \cap Investigators = {}
  /\ Project \notin Others /\ "none" \notin Queries
  /\ MaxSaves \in Nat \ {0} /\ MaxFlushes \in Nat
  /\ IoFails \in BOOLEAN

VARIABLES disk, cache, table, session, local,
          served        \* history: the last answer served from the session, and
                        \* whether an invalidation made it stale before it was asked for

vars == <<disk, cache, table, session, local, served>>

-----------------------------------------------------------------------------
Saves == 1 .. MaxSaves
NoSnapshot == [present |-> FALSE, idx |-> 1, raced |-> FALSE]
NoKey == [query |-> "none", epoch |-> 0]

(* What a process holds: the snapshot it loaded and the key of its call.   *)
(* raced, stale and evicted are history: the snapshot was superseded when  *)
(* it was cached; since the call read the epoch, the answers were          *)
(* invalidated, or the session fell out of the table.                      *)
Idle == [pc |-> "idle", idx |-> 1, key |-> NoKey,
         raced |-> FALSE, stale |-> FALSE, evicted |-> FALSE]

pc(p) == local[p].pc
Go(p, next) == local' = [local EXCEPT ![p].pc = next]
Rest(p) == local' = [local EXCEPT ![p] = Idle]

(* The calls under way, with a history field set.                          *)
Asking(p) == local[p].key # NoKey

(* cache.rs *)
Snapshot(v) == [present |-> TRUE, idx |-> v, raced |-> v # disk]

(* Every access to a session goes through with_state or with_state_mut.  A *)
(* project that fell out of the table comes back with a new session.       *)
Access(seq, s) == /\ table' = seq
                  /\ session' = IF Project \in ToSet(seq) THEN s ELSE NewSession

Init ==
  /\ disk = 1 /\ cache = NoSnapshot
  /\ table = << >> /\ session = NewSession
  /\ local = [p \in Processes |-> Idle]
  /\ served = [stale |-> FALSE, evicted |-> FALSE]

-----------------------------------------------------------------------------
(* index_project: a run saves, inserts its snapshot and bumps the epoch    *)
(* last.                                                                   *)
IndexSave(w) ==
  /\ w \in Indexers /\ pc(w) = "idle" /\ disk < MaxSaves
  /\ disk' = disk + 1
  /\ local' = [local EXCEPT ![w].pc = "publish", ![w].idx = disk + 1]
  /\ UNCHANGED <<cache, table, session, served>>

(* The source snapshot or save_meta fails: what was saved is never         *)
(* announced, and everything taken from the cache is out of date.          *)
Abandon(w) ==
  /\ w \in Indexers /\ pc(w) = "publish" /\ IoFails
  /\ local' = [p \in Processes |-> IF p = w THEN Idle
                                   ELSE [local[p] EXCEPT !.raced = @ \/ Asking(p)]]
  /\ cache' = [cache EXCEPT !.raced = cache.present]
  /\ session' = [session EXCEPT !.answers =
                   [i \in DOMAIN @ |-> [@[i] EXCEPT !.raced = TRUE]]]
  /\ UNCHANGED <<disk, table, served>>

Publish(w) ==
  /\ w \in Indexers /\ pc(w) = "publish"
  /\ cache' = Snapshot(local[w].idx)
  /\ local' = [local EXCEPT ![w] = [Idle EXCEPT !.pc = "bump"]]
  /\ UNCHANGED <<disk, table, session, served>>

(* The cached answer of index_project loads the index it found, and inserts *)
(* it after building what was missing of the text index.                    *)
IndexCached(w) ==
  /\ w \in Indexers /\ pc(w) = "idle"
  /\ local' = [local EXCEPT ![w].pc = "insert_cached", ![w].idx = disk]
  /\ UNCHANGED <<disk, cache, table, session, served>>

InsertCached(w) ==
  /\ w \in Indexers /\ pc(w) = "insert_cached"
  /\ cache' = Snapshot(local[w].idx)
  /\ Rest(w)
  /\ UNCHANGED <<disk, table, session, served>>

-----------------------------------------------------------------------------
(* The watcher's flush: reindex_batch and full_resync.  A save that fails  *)
(* is logged, and the flush goes on.                                       *)
FlushSave ==
  /\ pc(Flusher) = "idle" /\ session.epoch < MaxFlushes
  /\ disk' \in (IF disk < MaxSaves THEN {disk + 1} ELSE {})
               \cup (IF IoFails THEN {disk} ELSE {})
  /\ Go(Flusher, "drop_cache")
  /\ UNCHANGED <<cache, table, session, served>>

(* cache::invalidate has two parts under two locks.                        *)
FaultBumpFirst ==
  /\ pc(Flusher) = "drop_cache"
  /\ Go(Flusher, "bump")
  /\ UNCHANGED <<disk, cache, table, session, served>>
DropCache ==
  /\ pc(Flusher) = "drop_cache"
  /\ cache' = NoSnapshot
  /\ Go(Flusher, "bump")
  /\ UNCHANGED <<disk, table, session, served>>

(* invalidate_investigate_cache                                            *)
Bump(w) ==
  /\ w \in Writers /\ pc(w) = "bump"
  /\ Access(Entered(table, Project),
            DropAnswers([session EXCEPT !.answers =
                           [i \in DOMAIN @ |-> [@[i] EXCEPT !.stale = TRUE]]]))
  /\ local' = [p \in Processes |-> IF p = w THEN Idle
                                   ELSE [local[p] EXCEPT !.stale = @ \/ Asking(p)]]
  /\ UNCHANGED <<disk, cache, served>>

-----------------------------------------------------------------------------
(* investigate                                                             *)

FaultNoEpoch(query) == [query |-> query, epoch |-> 0]
CacheKey(query) == [query |-> query, epoch |-> session.epoch]

Ask(c) ==
  /\ c \in Investigators /\ pc(c) = "idle"
  /\ \E query \in Queries :
       local' = [local EXCEPT ![c] = [Idle EXCEPT !.pc = "lookup", !.key = CacheKey(query)]]
  /\ Access(Looked(table, Project), session)
  /\ UNCHANGED <<disk, cache, served>>

Lookup(c) ==
  /\ pc(c) = "lookup"
  /\ Access(Looked(table, Project), session)
  /\ LET hits == Answers(session, local[c].key)
     IN \/ /\ hits = {}
           /\ Go(c, "load")
           /\ UNCHANGED served
        \/ \E hit \in hits :
             /\ served' = [stale |-> hit.stale /\ ~local[c].stale,
                           evicted |-> hit.evicted \/ local[c].evicted]
             /\ Rest(c)
  /\ UNCHANGED <<disk, cache>>

(* load_project_index; Fill is its cache::insert.                          *)
Load(c) ==
  /\ pc(c) = "load"
  /\ local' = [local EXCEPT ![c].pc = IF cache.present THEN "store" ELSE "fill",
                            ![c].idx = IF cache.present THEN cache.idx ELSE disk,
                            ![c].raced = cache.raced]
  /\ UNCHANGED <<disk, cache, table, session, served>>

Fill(c) ==
  /\ pc(c) = "fill"
  /\ cache' = Snapshot(local[c].idx)
  /\ Go(c, "store")
  /\ UNCHANGED <<disk, table, session, served>>

(* The answer is stored under the key the call began with.                 *)
Answer(c) == [key |-> local[c].key, idx |-> local[c].idx, raced |-> local[c].raced,
              stale |-> local[c].stale, evicted |-> local[c].evicted]

Store(c) ==
  /\ pc(c) = "store"
  /\ Access(Entered(table, Project), StoreAnswer(session, Answer(c)))
  /\ Rest(c)
  /\ UNCHANGED <<disk, cache, served>>

-----------------------------------------------------------------------------
(* Another project is used: it may push this one's session out.            *)
OtherProject ==
  /\ \E other \in Others :
       LET seq == Entered(table, other)
       IN /\ Access(seq, session)
          /\ local' = [p \in Processes |->
                         [local[p] EXCEPT !.evicted =
                            \/ @
                            \/ Asking(p) /\ Project \in ToSet(table) \ ToSet(seq)]]
  /\ UNCHANGED <<disk, cache, served>>

Next ==
  \/ FlushSave \/ DropCache
  \/ \E w \in Writers : Bump(w)
  \/ \E w \in Indexers : \/ IndexSave(w) \/ Abandon(w) \/ Publish(w)
                         \/ IndexCached(w) \/ InsertCached(w)
  \/ \E c \in Investigators : Ask(c) \/ Lookup(c) \/ Load(c) \/ Fill(c) \/ Store(c)
  \/ OtherProject

Spec == Init /\ [][Next]_vars

-----------------------------------------------------------------------------
Keys == [query : Queries, epoch : Nat] \cup {NoKey}
StoredAnswer == [key : Keys, idx : Saves, raced : BOOLEAN,
                 stale : BOOLEAN, evicted : BOOLEAN]
ProcessSteps == {"idle", "publish", "bump", "insert_cached", "drop_cache",
                 "lookup", "load", "fill", "store"}

(* Types; the session table and its answers stay within their capacities.  *)
TypeOK ==
  /\ disk \in Saves
  /\ cache \in [present : BOOLEAN, idx : Saves, raced : BOOLEAN]
  /\ Len(table) <= MaxSessions /\ table \in Seq(Others \cup {Project})
  /\ session \in [epoch : Nat, answers : Seq(StoredAnswer)]
  /\ Len(session.answers) <= MaxAnswers
  /\ local \in [Processes -> [pc : ProcessSteps, idx : Saves, key : Keys, raced : BOOLEAN,
                              stale : BOOLEAN, evicted : BOOLEAN]]
  /\ served \in [stale : BOOLEAN, evicted : BOOLEAN]

(* An answer computed before an invalidation is not served to a call that  *)
(* began after it, unless the session was evicted in between and counts    *)
(* its epochs from 0 again (session.rs: the epoch is part of the key, and  *)
(* the answers are dropped with it).                                       *)
NoStaleAnswer == served.stale => served.evicted

(* Between writers, an answer under the present epoch was computed from     *)
(* index.bin as it is, unless from a snapshot that was superseded when it   *)
(* was cached, or out of a session since evicted: cache::invalidate removes *)
(* the snapshot before it bumps the epoch, and a run inserts it before.     *)
CurrentAnswers ==
  (\A w \in Writers : pc(w) = "idle") =>
    \A i \in DOMAIN session.answers :
      LET a == session.answers[i]
      IN a.key.epoch = session.epoch => a.raced \/ a.evicted \/ a.idx = disk
=============================================================================
