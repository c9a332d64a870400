----------------------------- MODULE EmbedStore -----------------------------
(***************************************************************************)
(* The embedding store of one project (embed/mod.rs, embed/store.rs,       *)
(* embed/progress.rs): background generation started by index_project or   *)
(* doctor, incremental updates started by the watcher, the three files     *)
(* they share, and the progress registry.                                  *)
(*                                                                         *)
(* A writer loads the store, asks the endpoint for the vectors that are    *)
(* missing or out of date, and writes the whole store back: a temporary    *)
(* file, a rename, then the metadata that says which configuration the     *)
(* vectors belong to.  No lock spans the writers, and all of them use the  *)
(* same temporary file.  A file defines one symbol; its document is        *)
(* determined by the version that was parsed, the version whose text is on *)
(* disk when the document is built, and the form of its path.              *)
(***************************************************************************)
EXTENDS Integers, FiniteSets, Functions

CONSTANTS Files,
          Generators,     \* background tasks running generate_embeddings
          Updater,        \* the watcher's update_embeddings_for_files
          Configs,        \* endpoint, model and document settings
          NoConfig,
          Absent, Torn,   \* a file that is not there, or half written
          NoProgress,
          MaxEdits,       \* bound: changes to the tree
          MaxRuns,        \* bound: index_project and doctor calls
          MaxRestarts,    \* bound: restarts of the process
          EndpointFails,  \* bound: requests may fail
          IoFails         \* bound: saves may fail

Tasks == Generators \cup {Updater}

ASSUME EmbedAssumption ==
  /\ IsFiniteSet(Files)
  /\ Updater \notin Generators
  /\ NoConfig \notin Configs
  /\ MaxEdits \in Nat /\ MaxRuns \in Nat /\ MaxRestarts \in Nat
  /\ EndpointFails \in BOOLEAN /\ IoFails \in BOOLEAN

Versions == 0 .. MaxEdits + 1   \* 0: the file is not there
Live(versions) == {f \in Files : versions[f] # 0}

\* What build_symbol_document depends on, and so what its hash stands for.
Documents == [parsed : Versions, source : Versions, form : {"relative", "absolute"}]
\* A vector with the hash stored beside it, and the configuration it came from.
Entries == [doc : Documents, by : Configs]
Stores == UNION {[ids -> Entries] : ids \in SUBSET Files}
NewStore == [f \in {} |-> {}]

\* AbsentFile and TornFile are not stores: the values differ in kind.
ASSUME FileAssumption == Absent \notin Stores /\ Torn \notin Stores /\ Absent # Torn

Running == {"load", "plan", "embed", "open", "fill", "rename", "meta", "finish"}
Progress == [stored : 0 .. Cardinality(Files), total : 0 .. Cardinality(Files),
             finished : BOOLEAN]
ASSUME ProgressAssumption == NoProgress \notin Progress

VARIABLES
  tree,      \* the source files: version, 0 when absent
  index,     \* the index in force: version each file was parsed at
  stamps,    \* file_mtimes of meta.json, compared with the tree
  pending,   \* files the watcher has been told of and not flushed
  binFile,   \* embeddings.bin
  tmpFile,   \* embeddings.tmp
  metaFile,  \* embeddings.meta.json
  open,      \* which file each writer's handle refers to
  config,    \* the EmbedConfig of this process
  progress,  \* the registry's entry for the project
  task,      \* the tasks that write the store
  edits, runs, restarts,
  dirty,     \* history: work was lost since the last undisturbed generation
  orphan,    \* history: a save stopped between the two files, and
  overlapped \* history: two tasks ran at once, since the last mending generation

treeVars == <<tree, edits>>
indexVars == <<index, stamps, pending>>
fileVars == <<binFile, tmpFile, metaFile, open>>
processVars == <<config, restarts>>
history == <<dirty, orphan, overlapped>>
vars == <<treeVars, indexVars, fileVars, processVars, progress, task, runs, history>>

NoDocuments == [f \in {} |-> {}]
Idle == [pc |-> "idle", snapshot |-> [f \in Files |-> 0], force |-> FALSE,
         changed |-> {}, removed |-> {}, stamping |-> {}, store |-> NewStore,
         todo |-> NoDocuments, total |-> 0, stored |-> 0, alone |-> TRUE, failed |-> FALSE]

Todos == UNION {[ids -> Documents] : ids \in SUBSET Files}
TaskRecords ==
  [pc : Running \cup {"idle"}, snapshot : [Files -> Versions], force : BOOLEAN,
   changed : SUBSET Files, removed : SUBSET Files, stamping : SUBSET Files,
   store : Stores, todo : Todos,
   total : 0 .. Cardinality(Files), stored : 0 .. Cardinality(Files),
   alone : BOOLEAN, failed : BOOLEAN]

Active(t) == task[t].pc # "idle"
At(t, pc) == task[t].pc = pc
AllIdle == \A t \in Tasks : ~Active(t)

\* EmbedStore::load: an absent or undecodable file is an empty store.
Loaded(file) == IF file \in {Absent, Torn} THEN NewStore ELSE file

TypeOK ==
  /\ tree \in [Files -> Versions] /\ index \in [Files -> Versions]
  /\ stamps \in [Files -> Versions] /\ pending \in SUBSET Files
  /\ binFile \in Stores \cup {Absent, Torn} /\ tmpFile \in Stores \cup {Absent, Torn}
  /\ metaFile \in Configs \cup {NoConfig} /\ config \in Configs
  /\ open \in [Tasks -> {"none", "tmp", "bin", "gone"}]
  /\ progress \in Progress \cup {NoProgress}
  /\ task \in [Tasks -> TaskRecords]
  /\ edits \in 0 .. MaxEdits /\ runs \in 0 .. MaxRuns /\ restarts \in 0 .. MaxRestarts
  /\ dirty \in BOOLEAN /\ orphan \in BOOLEAN /\ overlapped \in BOOLEAN

-----------------------------------------------------------------------------
(* A project that was indexed before embeddings were configured.           *)

Init ==
  /\ tree = [f \in Files |-> 1] /\ index = tree /\ stamps = tree /\ pending = {}
  /\ binFile = Absent /\ tmpFile = Absent /\ metaFile = NoConfig
  /\ open = [t \in Tasks |-> "none"]
  /\ config \in Configs /\ progress = NoProgress
  /\ task = [t \in Tasks |-> Idle]
  /\ edits = 0 /\ runs = 0 /\ restarts = 0
  /\ dirty = FALSE /\ orphan = FALSE /\ overlapped = FALSE

(* The environment: an editor, and the end of the process.  Events of a    *)
(* process that dies before its watcher flushed them are gone.             *)

Edit(f) ==
  /\ edits < MaxEdits
  /\ edits' = edits + 1
  /\ \E v \in {0, edits'  + 1} : v # tree[f] /\ tree' = [tree EXCEPT ![f] = v]
  /\ pending' = pending \cup {f}
  /\ UNCHANGED <<index, stamps, fileVars, processVars, progress, task, runs, history>>

Restart ==
  /\ restarts < MaxRestarts
  /\ restarts' = restarts + 1
  /\ config' \in Configs
  /\ pending' = {} /\ progress' = NoProgress
  /\ task' = [t \in Tasks |-> Idle] /\ open' = [t \in Tasks |-> "none"]
  /\ dirty' = (dirty \/ ~AllIdle \/ \E f \in pending : stamps[f] = tree[f])
  /\ orphan' = (orphan \/ \E t \in Tasks : At(t, "meta"))
  /\ UNCHANGED <<treeVars, index, stamps, binFile, tmpFile, metaFile, runs, overlapped>>

-----------------------------------------------------------------------------
(* Starting a task.                                                        *)

\* Tasks that run at the same time disturb each other.
Disturbed == [t \in Tasks |-> [task[t] EXCEPT !.alone = @ /\ ~Active(t)]]
Started(t, new) == [Disturbed EXCEPT ![t] = [new EXCEPT !.alone = AllIdle]]

Generation(versions, force) ==
  [Idle EXCEPT !.pc = "load", !.snapshot = versions, !.force = force]

Spawn(g, versions, force) ==
  /\ ~Active(g)
  /\ task' = Started(g, Generation(versions, force))
  /\ overlapped' = (overlapped \/ ~AllIdle)

\* index_project answered from the index on disk starts a generation only
\* for a store that is missing or empty.
NeedsEmbed == binFile = Absent \/ Loaded(binFile) = NewStore

SpawnIfNeeded(g, versions, otherwise) ==
  IF NeedsEmbed THEN Spawn(g, versions, FALSE)
                ELSE task' = otherwise /\ UNCHANGED overlapped

\* is_index_up_to_date compares the recorded mtimes with the tree.
UpToDate == stamps = tree

IndexCached(g) ==
  /\ UpToDate
  /\ runs < MaxRuns /\ runs' = runs + 1
  /\ SpawnIfNeeded(g, index, task)
  /\ UNCHANGED <<treeVars, indexVars, fileVars, processVars, progress, dirty, orphan>>

IndexFresh(g) ==
  /\ runs < MaxRuns /\ runs' = runs + 1
  /\ index' = tree /\ stamps' = tree
  /\ \E force \in BOOLEAN : (force \/ ~UpToDate) /\ Spawn(g, tree, force)
  /\ UNCHANGED <<treeVars, pending, fileVars, processVars, progress, dirty, orphan>>

\* doctor: the embeddings check, and the two repairs in their order.  The
\* first indexes a stale tree with embeddings switched off.
EmbeddingsWarn == \/ metaFile # config
                  \/ Cardinality(DOMAIN Loaded(binFile)) < Cardinality(Live(index))

DoctorRepair(g) ==
  /\ EmbeddingsWarn \/ ~UpToDate
  /\ runs < MaxRuns /\ runs' = runs + 1
  /\ stamps' = tree
  /\ index' = IF UpToDate THEN index ELSE tree
  /\ dirty' = (dirty \/ ~UpToDate)
  /\ LET others == IF UpToDate THEN task ELSE Disturbed
     IN IF EmbeddingsWarn THEN SpawnIfNeeded(g, index', others)
                          ELSE task' = others /\ UNCHANGED overlapped
  /\ UNCHANGED <<treeVars, pending, fileVars, processVars, progress, orphan>>

\* A flush of the watcher: a batch of changed files, or a full resync.  The
\* ids handed over as removed are all the former ids of the files at hand.
Batch == [changed |-> pending, removed |-> pending \cap Live(index), stamping |-> pending]
Resync == [changed |-> Live(tree), removed |-> Live(index), stamping |-> Files]

Flush ==
  /\ pending # {} /\ ~Active(Updater)
  /\ \E flush \in {Batch, Resync} :
       /\ index' = [f \in Files |-> IF f \in flush.stamping THEN tree[f] ELSE index[f]]
       /\ task' = Started(Updater, [Idle EXCEPT !.pc = "load", !.snapshot = index',
                    !.changed = flush.changed, !.removed = flush.removed,
                    !.stamping = flush.stamping])
  /\ pending' = {}
  /\ overlapped' = (overlapped \/ ~AllIdle)
  /\ UNCHANGED <<treeVars, stamps, fileVars, processVars, progress, runs, dirty, orphan>>

-----------------------------------------------------------------------------
(* The steps of a task; generate_embeddings and update_embeddings_for_files*)
(* take the same ones and differ in what they plan.                        *)

Load(t) ==
  /\ At(t, "load")
  /\ task' = [task EXCEPT ![t].pc = "plan", ![t].store = Loaded(binFile)]
  /\ UNCHANGED <<treeVars, indexVars, fileVars, processVars, progress, runs, history>>

Compatible == metaFile = config

\* update_embeddings_for_files names a file by its absolute path, for want
\* of a project root.
Document(t, f) == [parsed |-> task[t].snapshot[f], source |-> tree[f],
                   form |-> IF t = Updater THEN "absolute" ELSE "relative"]

\* Fault: the metadata is not consulted.
FaultReuseAll(t) == IF task[t].force THEN NewStore ELSE task[t].store
Reusable(t) == IF task[t].force \/ ~Compatible THEN NewStore ELSE task[t].store

Kept(t) ==
  Restrict(Reusable(t), IF t = Updater THEN DOMAIN Reusable(t) \ task[t].removed
                        ELSE DOMAIN Reusable(t) \cap Live(task[t].snapshot))

Candidates(t) ==
  IF t = Updater /\ Compatible THEN task[t].changed \cap Live(task[t].snapshot)
                               ELSE Live(task[t].snapshot)

\* Fault: a known id proves that its vector is current.
FaultById(store, f, doc) == f \notin DOMAIN store
OutOfDate(store, f, doc) == f \notin DOMAIN store \/ store[f].doc # doc

ToEmbed(t) == {f \in Candidates(t) : OutOfDate(Kept(t), f, Document(t, f))}

Plan(t) ==
  /\ At(t, "plan")
  /\ task' = [task EXCEPT ![t].pc = IF ToEmbed(t) = {} THEN "open" ELSE "embed",
                          ![t].store = Kept(t),
                          ![t].todo = [f \in ToEmbed(t) |-> Document(t, f)],
                          ![t].total = Cardinality(ToEmbed(t)),
                          ![t].stored = 0]
  /\ progress' = IF t \in Generators /\ ToEmbed(t) # {}
                   THEN [stored |-> 0, total |-> Cardinality(ToEmbed(t)), finished |-> FALSE]
                   ELSE progress
  /\ UNCHANGED <<treeVars, indexVars, fileVars, processVars, runs, history>>

\* The answer for one document, in any order.  A failed request leaves the
\* store as it is.
Stored(store, f, doc) == [id \in DOMAIN store \cup {f} |->
                            IF id = f THEN [doc |-> doc, by |-> config] ELSE store[id]]
\* Fault: a failed request costs the vector at hand.
FaultDropFailed(store, f) == Restrict(store, DOMAIN store \ {f})
Skipped(store, f) == store

\* Fault: skipped documents count, and stored ones count again.
FaultCountTwice(n, ok) == n + 1 + IF ok THEN 1 ELSE 0
Counted(n, ok) == n + IF ok THEN 1 ELSE 0

EmbedOne(t, f, ok) ==
  LET me   == task[t]
      left == DOMAIN me.todo \ {f}
      done == Counted(me.stored, ok)
  IN /\ At(t, "embed")
     /\ f \in DOMAIN me.todo
     /\ task' = [task EXCEPT ![t] = [me EXCEPT
                   !.pc = IF left = {} THEN "open" ELSE "embed",
                   !.todo = Restrict(@, left),
                   !.stored = done,
                   !.failed = @ \/ ~ok,
                   !.store = IF ok THEN Stored(@, f, me.todo[f]) ELSE Skipped(@, f)]]
     /\ progress' = IF t \in Generators
                      THEN [stored |-> done, total |-> me.total, finished |-> FALSE]
                      ELSE progress
     /\ UNCHANGED <<treeVars, indexVars, fileVars, processVars, runs, history>>

Embed(t) == \E f \in Files, ok \in BOOLEAN : (ok \/ EndpointFails) /\ EmbedOne(t, f, ok)

\* Fault: the store is written in place.
FaultOpenInPlace(t) ==
  /\ At(t, "open")
  /\ task' = [task EXCEPT ![t].pc = "fill"]
  /\ binFile' = Torn /\ open' = [open EXCEPT ![t] = "bin"]
  /\ UNCHANGED <<treeVars, indexVars, tmpFile, metaFile, processVars, progress, runs, history>>

\* std::fs::write opens the temporary file and empties it ...
Open(t) ==
  /\ At(t, "open")
  /\ task' = [task EXCEPT ![t].pc = "fill"]
  /\ tmpFile' = Torn /\ open' = [open EXCEPT ![t] = "tmp"]
  /\ UNCHANGED <<treeVars, indexVars, binFile, metaFile, processVars, progress, runs, history>>

\* ... and writes to the file it opened, wherever that has been moved to.
Fill(t) ==
  /\ At(t, "fill")
  /\ task' = [task EXCEPT ![t].pc = "rename"]
  /\ tmpFile' = IF open[t] = "tmp" THEN task[t].store ELSE tmpFile
  /\ binFile' = IF open[t] = "bin" THEN task[t].store ELSE binFile
  /\ open' = [open EXCEPT ![t] = "none"]
  /\ UNCHANGED <<treeVars, indexVars, metaFile, processVars, progress, runs, history>>

\* Handles follow the file that was renamed; the file it replaced is gone.
Moved == [t \in Tasks |-> CASE open[t] = "tmp" -> "bin"
                            [] open[t] = "bin" -> "gone"
                            [] OTHER -> open[t]]

Rename(t) ==
  /\ At(t, "rename") /\ tmpFile # Absent
  /\ task' = [task EXCEPT ![t].pc = "meta"]
  /\ binFile' = tmpFile /\ tmpFile' = Absent
  /\ open' = Moved
  /\ UNCHANGED <<treeVars, indexVars, metaFile, processVars, progress, runs, history>>

\* The metadata has a temporary file of its own; its save is one step here.
SaveMeta(t) ==
  /\ At(t, "meta")
  /\ task' = [task EXCEPT ![t].pc = "finish"]
  /\ metaFile' = config
  /\ UNCHANGED <<treeVars, indexVars, binFile, tmpFile, open, processVars, progress, runs,
                 history>>

\* Fault: nobody expects the temporary file to be gone.
FaultNoErrorPath(t) ==
  /\ IoFails /\ task[t].pc \in {"open", "meta"}
  /\ task' = [task EXCEPT ![t].pc = "finish", ![t].failed = TRUE]
  /\ orphan' = (orphan \/ At(t, "meta"))
  /\ UNCHANGED <<treeVars, indexVars, fileVars, processVars, progress, runs, dirty, overlapped>>

\* A save fails: when another writer has renamed the temporary file away,
\* or for want of space.  The rest of the save is left out.
SaveFails(t) ==
  /\ \/ At(t, "rename") /\ tmpFile = Absent
     \/ IoFails /\ task[t].pc \in {"open", "meta"}
  /\ task' = [task EXCEPT ![t].pc = "finish", ![t].failed = TRUE]
  /\ orphan' = (orphan \/ At(t, "meta"))
  /\ UNCHANGED <<treeVars, indexVars, fileVars, processVars, progress, runs, dirty, overlapped>>

\* The end of a task.  The watcher goes on to record the mtimes of what it
\* flushed, whatever became of the vectors.  A forced generation that was
\* undisturbed has replaced every vector and the metadata.
Undisturbed(t) == task[t].alone /\ ~task[t].failed
Mends(t) == t \in Generators /\ task[t].force /\ Undisturbed(t)

StampsAfter(t) == [f \in Files |-> IF f \in task[t].stamping THEN tree[f] ELSE stamps[f]]

Finish(t) ==
  /\ At(t, "finish")
  /\ task' = [task EXCEPT ![t] = Idle]
  /\ stamps' = StampsAfter(t)
  /\ progress' = IF t \in Generators /\ progress # NoProgress
                   THEN [progress EXCEPT !.finished = TRUE] ELSE progress
  /\ dirty' = IF t \in Generators THEN ~Undisturbed(t) ELSE dirty \/ ~Undisturbed(t)
  /\ orphan' = (orphan /\ ~Mends(t)) /\ overlapped' = (overlapped /\ ~Mends(t))
  /\ UNCHANGED <<treeVars, index, pending, fileVars, processVars, runs>>

Step(t) == \/ Load(t) \/ Plan(t) \/ Embed(t) \/ Open(t) \/ Fill(t) \/ Rename(t)
           \/ SaveMeta(t) \/ SaveFails(t) \/ Finish(t)

Next == \/ \E f \in Files : Edit(f)
        \/ Restart
        \/ \E g \in Generators : IndexCached(g) \/ IndexFresh(g) \/ DoctorRepair(g)
        \/ Flush
        \/ \E t \in Tasks : Step(t)

Spec == Init /\ [][Next]_vars

\* Tasks are spawned on the runtime and the debounce loop keeps flushing.
Fairness == WF_vars(Flush) /\ \A t \in Tasks : WF_vars(Step(t))
FairSpec == Spec /\ Fairness

-----------------------------------------------------------------------------
(* Properties.                                                             *)

\* The store holds, for exactly the files of the index, vectors of what they
\* are now; and of the configuration its metadata names, unless a save was cut
\* short or writers ran at once and no forced generation has run since:
\* metadata may then vouch for vectors of another model, and later generations
\* keep them.
UpToDateVector(f) == /\ f \in DOMAIN binFile
                     /\ binFile[f].doc.parsed = index[f] /\ binFile[f].doc.source = tree[f]
StoreMatches ==
  /\ binFile \notin {Absent, Torn} /\ DOMAIN binFile = Live(index)
  /\ \A f \in Live(index) : UpToDateVector(f)
  /\ ~orphan /\ ~overlapped => \A f \in Live(index) : binFile[f].by = metaFile

\* When index_project would answer "cached" with embeddings "ok", the vectors
\* are those of the present tree, unless work was lost since the last
\* undisturbed generation: that one repairs everything.  Nothing there asks of
\* which model they are: after a restart with another one they are the former
\* model's, and embeddings.meta.json says so.
ReadyMeansEmbedded ==
  AllIdle /\ pending = {} /\ UpToDate /\ ~NeedsEmbed /\ ~dirty => StoreMatches

\* Metadata vouches for the vectors beside it: none of them comes from
\* another configuration, but while a save stands between the two files.
Vouched ==
  (/\ \A t \in Tasks : ~At(t, "meta")
   /\ metaFile # NoConfig /\ binFile \notin {Absent, Torn})
    => \A f \in DOMAIN binFile : binFile[f].by = metaFile

\* It does when no save was cut short there and no two writers ran at once
\* since every vector was last replaced by a forced generation that ran alone,
\* through restarts, failures and changes of configuration.
VouchedModel == ~orphan /\ ~overlapped => Vouched

\* A crash at any point leaves embeddings.bin readable as long as no two
\* writers ran at once since a forced generation last replaced it.
NeverTorn == binFile = Torn => overlapped

\* A generation that is neither forced nor disturbed loses no vector of a
\* symbol it knows, however many requests fail.
KeepsVectors ==
  [][\A g \in Generators :
       At(g, "rename") /\ task[g].alone /\ ~task[g].force /\ Compatible /\ binFile' # binFile
         => \A f \in DOMAIN Loaded(binFile) \cap Live(task[g].snapshot) :
              f \in DOMAIN binFile']_vars

\* Background work comes to an end: what was edited has been flushed and
\* every task has returned, whatever failed on the way.
WorkEnds == []<>(AllIdle /\ pending = {})
=============================================================================
