-------------------------- MODULE EmbedStore_proof --------------------------
(***************************************************************************)
(* Proofs about EmbedStore and Readiness, for every value of their         *)
(* constants.                                                              *)
(*                                                                         *)
(* The first invariant, IInv, follows a writer through its save while no   *)
(* two writers overlap.  What it loaded is what is on disk when it reads   *)
(* the metadata, so compatible vectors are vouched for; from then on its   *)
(* store holds vectors of the present configuration only, and that store   *)
(* is what it writes, renames and at last vouches for.                     *)
(*                                                                         *)
(* The second, RInv, follows the writer that runs alone, whatever happened *)
(* before it started: a generation repairs everything, an update repairs   *)
(* what it was told of in a store that is right for the rest, and both     *)
(* tell the registry no more than they hold.  So a project at rest, since  *)
(* whose last undisturbed generation no work was lost, has the vectors of  *)
(* its tree.                                                               *)
(***************************************************************************)
EXTENDS Readiness, FiniteSetTheorems, TLAPS

\* The registry never counts more than was asked for.
Tallies == \A t \in Tasks :
            task[t].stored + Cardinality(DOMAIN task[t].todo) <= task[t].total

Exclusive == \A t, u \in Tasks : Active(t) /\ Active(u) => t = u

\* One writer and its temporary file.
OwnFile == \A t \in Tasks : /\ At(t, "fill") => open[t] = "tmp"
                            /\ At(t, "rename") => tmpFile = task[t].store

ByConfig(store) == \A f \in DOMAIN store : store[f].by = config

\* The provenance of the vectors in a writer's hands.
OwnVectors ==
  \A t \in Tasks : /\ At(t, "plan") => task[t].store = Loaded(binFile)
                   /\ task[t].pc \in {"embed", "open", "fill", "rename"} => ByConfig(task[t].store)
                   /\ At(t, "meta") => ByConfig(binFile)

Orderly == ~overlapped => Exclusive /\ OwnFile /\ binFile # Torn
Truthful == ~overlapped /\ ~orphan => OwnVectors /\ Vouched

IInv == TypeOK /\ Tallies /\ Orderly /\ Truthful

-----------------------------------------------------------------------------
(* Stores and lists of documents are functions on sets of files.           *)

LEMMA StoreType ==
  ASSUME NEW s PROVE s \in Stores <=> s \in [DOMAIN s -> Entries] /\ DOMAIN s \in SUBSET Files
<1>1. ASSUME NEW ids \in SUBSET Files, s \in [ids -> Entries] PROVE DOMAIN s = ids
  BY <1>1
<1> QED
  BY <1>1 DEF Stores

LEMMA TodoType ==
  ASSUME NEW d PROVE d \in Todos <=> d \in [DOMAIN d -> Documents] /\ DOMAIN d \in SUBSET Files
<1>1. ASSUME NEW ids \in SUBSET Files, d \in [ids -> Documents] PROVE DOMAIN d = ids
  BY <1>1
<1> QED
  BY <1>1 DEF Todos

LEMMA EmptyTypes == NewStore \in Stores /\ NoDocuments \in Todos
<1>1. DOMAIN NewStore = {} /\ NewStore \in [{} -> Entries]
  BY DEF NewStore
<1>2. DOMAIN NoDocuments = {} /\ NoDocuments \in [{} -> Documents]
  BY DEF NoDocuments
<1> QED
  BY <1>1, <1>2, StoreType, TodoType

\* Restrict keeps what a store or a list of documents is.
LEMMA RestrictStore ==
  ASSUME NEW s \in Stores, NEW ids \in SUBSET (DOMAIN s)
  PROVE  /\ Restrict(s, ids) \in Stores /\ DOMAIN Restrict(s, ids) = ids
         /\ \A f \in ids : Restrict(s, ids)[f] = s[f]
<1>1. s \in [DOMAIN s -> Entries] /\ DOMAIN s \in SUBSET Files
  BY StoreType
<1>2. DOMAIN Restrict(s, ids) = ids /\ \A f \in ids : Restrict(s, ids)[f] = s[f]
  BY DEF Restrict
<1>3. Restrict(s, ids) \in [ids -> Entries] /\ ids \in SUBSET Files
  BY <1>1 DEF Restrict
<1> QED
  BY <1>2, <1>3, StoreType

LEMMA RestrictTodo ==
  ASSUME NEW d \in Todos, NEW ids \in SUBSET (DOMAIN d)
  PROVE  Restrict(d, ids) \in Todos /\ DOMAIN Restrict(d, ids) = ids
<1>1. d \in [DOMAIN d -> Documents] /\ DOMAIN d \in SUBSET Files
  BY TodoType
<1>2. DOMAIN Restrict(d, ids) = ids
  BY DEF Restrict
<1>3. Restrict(d, ids) \in [ids -> Documents] /\ ids \in SUBSET Files
  BY <1>1 DEF Restrict
<1> QED
  BY <1>2, <1>3, TodoType

\* EmbedStore::load always yields a store.
LEMMA LoadedType ==
  ASSUME NEW file \in Stores \cup {Absent, Torn} PROVE Loaded(file) \in Stores
  BY EmptyTypes DEF Loaded

\* Sets of files are finite, and counted within Files.
LEMMA FilesCounted ==
  ASSUME NEW ids \in SUBSET Files
  PROVE  IsFiniteSet(ids) /\ Cardinality(ids) \in 0 .. Cardinality(Files)
<1>1. IsFiniteSet(Files)
  BY EmbedAssumption
<1>2. Cardinality(Files) \in Nat
  BY <1>1, FS_CardinalityType
<1>3. IsFiniteSet(ids) /\ Cardinality(ids) <= Cardinality(Files)
  BY <1>1, FS_Subset
<1>4. Cardinality(ids) \in Nat
  BY <1>3, FS_CardinalityType
<1> QED
  BY <1>2, <1>3, <1>4

LEMMA ZeroCounts == 0 \in 0 .. Cardinality(Files)
  BY EmbedAssumption, FS_CardinalityType

LEMMA VersionsPositive == 0 \in Versions /\ 1 \in Versions
  BY EmbedAssumption DEF Versions

LEMMA NextVersion == ASSUME NEW n \in 0 .. MaxEdits PROVE n + 1 \in Versions
<1>1. MaxEdits \in Nat
  BY EmbedAssumption
<1> QED
  BY <1>1 DEF Versions

LEMMA IdleType == /\ Idle \in TaskRecords /\ Idle.pc = "idle"
                  /\ Idle.stored = 0 /\ Idle.total = 0 /\ DOMAIN Idle.todo = {}
<1>1. 0 \in 0 .. Cardinality(Files)
  BY ZeroCounts
<1>2. [f \in Files |-> 0] \in [Files -> Versions]
  BY VersionsPositive
<1>3. DOMAIN NoDocuments = {}
  BY DEF NoDocuments
<1> QED
  BY <1>1, <1>2, <1>3, EmptyTypes DEF Idle, TaskRecords, Running
-----------------------------------------------------------------------------
(* Changing one task, or starting one.                                     *)

LEMMA TaskUpdated ==
  ASSUME TypeOK, Tallies, NEW t \in Tasks, NEW r \in TaskRecords,
         r.stored + Cardinality(DOMAIN r.todo) <= r.total,
         task' = [task EXCEPT ![t] = r]
  PROVE  task' \in [Tasks -> TaskRecords] /\ Tallies'
<1>1. task \in [Tasks -> TaskRecords]
  BY DEF TypeOK
<1>2. task' \in [Tasks -> TaskRecords] /\ task'[t] = r
  BY <1>1
<1>3. \A u \in Tasks \ {t} : task'[u] = task[u]
  BY <1>1
<1>4. Tallies'
  BY <1>2, <1>3 DEF Tallies
<1> QED
  BY <1>2, <1>4

\* Being disturbed changes the history of a task, not its work.
SameWork(before, after) ==
  /\ after.pc = before.pc /\ after.store = before.store /\ after.todo = before.todo
  /\ after.stored = before.stored /\ after.total = before.total

LEMMA DisturbedWork ==
  ASSUME TypeOK
  PROVE  /\ Disturbed \in [Tasks -> TaskRecords]
         /\ \A u \in Tasks : SameWork(task[u], Disturbed[u])
<1>1. task \in [Tasks -> TaskRecords]
  BY DEF TypeOK
<1>2. ASSUME NEW u \in Tasks
      PROVE  /\ Disturbed[u] \in TaskRecords /\ SameWork(task[u], Disturbed[u])
  <2>1. Disturbed[u] = [task[u] EXCEPT !.alone = task[u].alone /\ ~Active(u)]
    BY DEF Disturbed
  <2>2. (task[u].alone /\ ~Active(u)) \in BOOLEAN
    OBVIOUS
  <2>3. task[u] \in TaskRecords
    BY <1>1
  <2> QED
    BY <2>1, <2>2, <2>3 DEF TaskRecords, SameWork
<1> QED
  BY <1>2 DEF Disturbed

LEMMA StartedWork ==
  ASSUME TypeOK, NEW t \in Tasks, NEW r \in TaskRecords
  PROVE  /\ Started(t, r) \in [Tasks -> TaskRecords]
         /\ SameWork(r, Started(t, r)[t])
         /\ \A u \in Tasks \ {t} : SameWork(task[u], Started(t, r)[u])
<1>1. /\ Disturbed \in [Tasks -> TaskRecords]
      /\ \A u \in Tasks : SameWork(task[u], Disturbed[u])
  BY DisturbedWork
<1>2. AllIdle \in BOOLEAN
  BY DEF AllIdle
<1>3. [r EXCEPT !.alone = AllIdle] \in TaskRecords /\ SameWork(r, [r EXCEPT !.alone = AllIdle])
  BY <1>2 DEF TaskRecords, SameWork
<1>4. Started(t, r)[t] = [r EXCEPT !.alone = AllIdle]
  BY <1>1 DEF Started
<1>5. \A u \in Tasks \ {t} : Started(t, r)[u] = Disturbed[u]
  BY <1>1 DEF Started
<1>6. Started(t, r) \in [Tasks -> TaskRecords]
  BY <1>1, <1>3 DEF Started
<1> QED
  BY <1>1, <1>3, <1>4, <1>5, <1>6

LEMMA SameTallies ==
  ASSUME Tallies, \A u \in Tasks : SameWork(task[u], task'[u])
  PROVE  Tallies'
  BY DEF Tallies, SameWork

LEMMA StartedTallies ==
  ASSUME TypeOK, Tallies, NEW t \in Tasks, NEW r \in TaskRecords,
         r.stored + Cardinality(DOMAIN r.todo) <= r.total, task' = Started(t, r)
  PROVE  Tallies'
<1>1. /\ SameWork(r, task'[t])
      /\ \A u \in Tasks \ {t} : SameWork(task[u], task'[u])
  BY StartedWork
<1>2. task'[t].stored + Cardinality(DOMAIN task'[t].todo) <= task'[t].total
  BY <1>1 DEF SameWork
<1>3. \A u \in Tasks \ {t} :
         task'[u].stored + Cardinality(DOMAIN task'[u].todo) <= task'[u].total
  BY <1>1 DEF SameWork, Tallies
<1> QED
  BY <1>2, <1>3 DEF Tallies

\* What the environment and the callers do leaves the order of things alone ...
LEMMA QuietSafe ==
  ASSUME Orderly, Truthful, \A u \in Tasks : SameWork(task[u], task'[u]),
         UNCHANGED <<binFile, tmpFile, metaFile, open, config, orphan, overlapped>>
  PROVE  Orderly' /\ Truthful'
<1>1. \A u \in Tasks : task'[u].pc = task[u].pc /\ task'[u].store = task[u].store
  BY DEF SameWork
<1>2. Orderly'
  BY <1>1 DEF Orderly, Exclusive, OwnFile, Active, At
<1>3. OwnVectors => OwnVectors'
  BY <1>1 DEF OwnVectors, At, ByConfig, Loaded, NewStore
<1>4. Vouched => Vouched'
  BY <1>1 DEF Vouched, At
<1> QED
  BY <1>2, <1>3, <1>4 DEF Truthful

\* ... and a task that is started while another runs is an overlap.
LEMMA StartSafe ==
  ASSUME Orderly, Truthful, NEW t \in Tasks, ~Active(t), task'[t].pc = "load",
         \A u \in Tasks \ {t} : SameWork(task[u], task'[u]),
         UNCHANGED <<binFile, tmpFile, metaFile, open, config, orphan>>,
         overlapped' = (overlapped \/ ~AllIdle)
  PROVE  Orderly' /\ Truthful'
<1> SUFFICES ASSUME ~overlapped' PROVE Exclusive' /\ OwnFile' /\ binFile' # Torn
                                       /\ (~orphan => OwnVectors' /\ Vouched')
  BY DEF Orderly, Truthful
<1>1. ~overlapped /\ AllIdle
  OBVIOUS
<1>2. \A u \in Tasks \ {t} : task'[u].pc = "idle"
  BY <1>1 DEF AllIdle, Active, SameWork
<1>3. Exclusive' /\ OwnFile' /\ OwnVectors'
  BY <1>2 DEF Exclusive, OwnFile, OwnVectors, Active, At
<1>4. binFile' # Torn
  BY <1>1 DEF Orderly
<1>5. ~orphan => Vouched'
  BY <1>1 DEF Truthful, Vouched, AllIdle, Active, At
<1> QED
  BY <1>3, <1>4, <1>5

\* A step of a task: without overlap all others are idle.
LEMMA StepSafe ==
  ASSUME Orderly, NEW t \in Tasks, Active(t),
         \A u \in Tasks \ {t} : task'[u] = task[u], overlapped' = overlapped,
         ~overlapped => /\ At(t, "fill")' => open'[t] = "tmp"
                        /\ At(t, "rename")' => tmpFile' = task'[t].store
                        /\ binFile' # Torn,
         ~overlapped /\ ~orphan' =>
           /\ At(t, "plan")' => task'[t].store = Loaded(binFile)'
           /\ task'[t].pc \in {"embed", "open", "fill", "rename"} => ByConfig(task[t].store)'
           /\ At(t, "meta")' => ByConfig(binFile)'
           /\ Vouched'
  PROVE  Orderly' /\ Truthful'
<1> SUFFICES ASSUME ~overlapped PROVE Exclusive' /\ OwnFile' /\ binFile' # Torn
                                      /\ (~orphan' => OwnVectors' /\ Vouched')
  BY DEF Orderly, Truthful
<1>1. \A u \in Tasks \ {t} : task'[u].pc = "idle"
  BY DEF Orderly, Exclusive, Active
<1>2. Exclusive' /\ OwnFile'
  BY <1>1 DEF Exclusive, OwnFile, Active, At
<1>3. ~orphan' => OwnVectors'
  BY <1>1 DEF OwnVectors, At
<1> QED
  BY <1>2, <1>3
-----------------------------------------------------------------------------
(* The initial states, the environment, and the callers.                   *)

LEMMA InitIInv == Init => IInv
<1> SUFFICES ASSUME Init PROVE IInv
  OBVIOUS
<1>1. task \in [Tasks -> TaskRecords] /\ \A t \in Tasks : task[t] = Idle
  BY IdleType DEF Init
<1>2. TypeOK
  <2>1. /\ tree \in [Files -> Versions] /\ index \in [Files -> Versions]
        /\ stamps \in [Files -> Versions] /\ pending \in SUBSET Files
    BY VersionsPositive DEF Init
  <2>2. /\ open \in [Tasks -> {"none", "tmp", "bin", "gone"}]
        /\ edits \in 0 .. MaxEdits /\ runs \in 0 .. MaxRuns /\ restarts \in 0 .. MaxRestarts
    BY EmbedAssumption DEF Init
  <2> QED
    BY <1>1, <2>1, <2>2 DEF Init, TypeOK
<1>3. Tallies
  <2>1. Cardinality({}) = 0
    BY FS_EmptySet
  <2> QED
    BY <1>1, <2>1, IdleType DEF Tallies
<1>4. \A t \in Tasks : task[t].pc = "idle"
  BY <1>1, IdleType
<1>5. Orderly
  BY <1>4, FileAssumption DEF Init, Orderly, Exclusive, OwnFile, Active, At
<1>6. Truthful
  BY <1>4 DEF Init, Truthful, OwnVectors, Vouched, At
<1> QED
  BY <1>2, <1>3, <1>5, <1>6 DEF IInv

LEMMA EditKeepsIInv == ASSUME IInv, NEW f \in Files, Edit(f) PROVE IInv'
<1>1. tree' \in [Files -> Versions] /\ edits' \in 0 .. MaxEdits
  <2>1. PICK v \in {0, edits' + 1} : tree' = [tree EXCEPT ![f] = v]
    BY DEF Edit
  <2>2. edits' \in 0 .. MaxEdits
    BY EmbedAssumption DEF Edit, IInv, TypeOK
  <2>3. v \in Versions
    <3>1. edits' + 1 \in Versions
      BY <2>2, NextVersion
    <3> QED
      BY <2>1, <3>1, VersionsPositive
  <2> QED
    BY <2>1, <2>2, <2>3 DEF IInv, TypeOK
<1>2. pending' \in SUBSET Files
  BY DEF Edit, IInv, TypeOK
<1>3. TypeOK'
  BY <1>1, <1>2 DEF Edit, IInv, TypeOK, fileVars, processVars, history
<1>4. \A u \in Tasks : SameWork(task[u], task'[u])
  BY DEF Edit, SameWork
<1>5. Tallies'
  BY <1>4, SameTallies DEF IInv
<1>6. UNCHANGED <<binFile, tmpFile, metaFile, open, config, orphan, overlapped>>
  BY DEF Edit, fileVars, processVars, history
<1> QED
  BY <1>3, <1>4, <1>5, <1>6, QuietSafe DEF IInv

\* After a restart nothing runs; what was saved is what is there.
LEMMA RestartKeepsIInv == ASSUME IInv, Restart PROVE IInv'
<1>1. task' \in [Tasks -> TaskRecords] /\ \A t \in Tasks : task'[t] = Idle
  BY IdleType DEF Restart
<1>2. TypeOK'
  <2>1. restarts' \in 0 .. MaxRestarts
    BY EmbedAssumption DEF Restart, IInv, TypeOK
  <2>2. /\ open' \in [Tasks -> {"none", "tmp", "bin", "gone"}]
        /\ config' \in Configs /\ pending' \in SUBSET Files
        /\ progress' \in Progress \cup {NoProgress}
    BY DEF Restart
  <2>3. dirty' \in BOOLEAN /\ orphan' \in BOOLEAN
    BY DEF Restart, IInv, TypeOK
  <2> QED
    BY <1>1, <2>1, <2>2, <2>3 DEF Restart, IInv, TypeOK, treeVars
<1>3. Tallies'
  <2>1. Cardinality({}) = 0
    BY FS_EmptySet
  <2> QED
    BY <1>1, <2>1, IdleType DEF Tallies
<1>4. \A t \in Tasks : task'[t].pc = "idle"
  BY <1>1, IdleType
<1>5. Orderly'
  BY <1>4 DEF Restart, IInv, Orderly, Exclusive, OwnFile, Active, At
<1>6. Truthful'
  <2> SUFFICES ASSUME ~overlapped', ~orphan' PROVE OwnVectors' /\ Vouched'
    BY DEF Truthful
  <2>1. Vouched /\ \A t \in Tasks : ~At(t, "meta")
    BY DEF Restart, IInv, Truthful
  <2>2. Vouched'
    BY <2>1 DEF Restart, Vouched
  <2> QED
    BY <1>4, <2>2 DEF OwnVectors, At
<1> QED
  BY <1>2, <1>3, <1>5, <1>6 DEF IInv

\* A record that a task is started with.
Fresh(r) == /\ r \in TaskRecords /\ r.pc = "load"
            /\ r.stored + Cardinality(DOMAIN r.todo) <= r.total

LEMMA GenerationFresh ==
  ASSUME NEW versions \in [Files -> Versions], NEW force \in BOOLEAN
  PROVE  Fresh(Generation(versions, force))
<1>1. Cardinality({}) = 0
  BY FS_EmptySet
<1> DEFINE r == Generation(versions, force)
<1>2. Idle \in TaskRecords
  BY IdleType
<1>3. r \in TaskRecords /\ r.pc = "load"
  BY <1>2 DEF Generation, TaskRecords, Running
<1>4. r.stored = 0 /\ r.total = 0 /\ DOMAIN r.todo = {}
  BY <1>2, IdleType DEF Generation, TaskRecords
<1> QED
  BY <1>1, <1>3, <1>4 DEF Fresh

LEMMA StartKeeps ==
  ASSUME IInv, NEW t \in Tasks, NEW r, Fresh(r), ~Active(t), task' = Started(t, r),
         overlapped' = (overlapped \/ ~AllIdle),
         UNCHANGED <<binFile, tmpFile, metaFile, open, config, orphan>>
  PROVE  /\ task' \in [Tasks -> TaskRecords] /\ overlapped' \in BOOLEAN
         /\ Tallies' /\ Orderly' /\ Truthful'
<1>1. TypeOK /\ Tallies /\ Orderly /\ Truthful
  BY DEF IInv
<1>2. r \in TaskRecords /\ r.pc = "load" /\ r.stored + Cardinality(DOMAIN r.todo) <= r.total
  BY DEF Fresh
<1>3. /\ task' \in [Tasks -> TaskRecords] /\ SameWork(r, task'[t])
      /\ \A u \in Tasks \ {t} : SameWork(task[u], task'[u])
  BY <1>1, <1>2, StartedWork
<1>4. Tallies'
  BY <1>1, <1>2, StartedTallies
<1>5. task'[t].pc = "load"
  BY <1>2, <1>3 DEF SameWork
<1>6. Orderly' /\ Truthful'
  BY <1>1, <1>3, <1>5, StartSafe
<1>7. overlapped' \in BOOLEAN
  BY <1>1 DEF TypeOK, AllIdle
<1> QED
  BY <1>3, <1>4, <1>6, <1>7

LEMMA SpawnKeeps ==
  ASSUME IInv, NEW g \in Generators, NEW versions \in [Files -> Versions],
         NEW force \in BOOLEAN, Spawn(g, versions, force),
         UNCHANGED <<binFile, tmpFile, metaFile, open, config, orphan>>
  PROVE  /\ task' \in [Tasks -> TaskRecords] /\ overlapped' \in BOOLEAN
         /\ Tallies' /\ Orderly' /\ Truthful'
<1>1. g \in Tasks
  BY DEF Tasks
<1> QED
  BY <1>1, GenerationFresh, StartKeeps DEF Spawn

LEMMA DisturbKeeps ==
  ASSUME IInv, task' \in {task, Disturbed},
         UNCHANGED <<binFile, tmpFile, metaFile, open, config, orphan, overlapped>>
  PROVE  /\ task' \in [Tasks -> TaskRecords] /\ overlapped' \in BOOLEAN
         /\ Tallies' /\ Orderly' /\ Truthful'
<1>1. TypeOK /\ Tallies /\ Orderly /\ Truthful
  BY DEF IInv
<1>2. /\ task' \in [Tasks -> TaskRecords]
      /\ \A u \in Tasks : SameWork(task[u], task'[u])
  <2>1. CASE task' = task
    BY <1>1, <2>1 DEF TypeOK, SameWork
  <2>2. CASE task' = Disturbed
    BY <1>1, <2>2, DisturbedWork
  <2> QED
    BY <2>1, <2>2
<1>3. Tallies'
  BY <1>1, <1>2, SameTallies
<1>4. Orderly' /\ Truthful'
  BY <1>1, <1>2, QuietSafe
<1> QED
  BY <1>1, <1>2, <1>3, <1>4 DEF TypeOK

LEMMA SpawnIfNeededKeeps ==
  ASSUME IInv, NEW g \in Generators, NEW versions \in [Files -> Versions],
         NEW otherwise \in {task, Disturbed}, SpawnIfNeeded(g, versions, otherwise),
         UNCHANGED <<binFile, tmpFile, metaFile, open, config, orphan>>
  PROVE  /\ task' \in [Tasks -> TaskRecords] /\ overlapped' \in BOOLEAN
         /\ Tallies' /\ Orderly' /\ Truthful'
<1>1. CASE NeedsEmbed
  BY <1>1, SpawnKeeps DEF SpawnIfNeeded
<1>2. CASE ~NeedsEmbed
  BY <1>2, DisturbKeeps DEF SpawnIfNeeded
<1> QED
  BY <1>1, <1>2
LEMMA IndexCachedKeepsIInv ==
  ASSUME IInv, NEW g \in Generators, IndexCached(g) PROVE IInv'
<1>1. UNCHANGED <<binFile, tmpFile, metaFile, open, config, orphan>>
  BY DEF IndexCached, fileVars, processVars
<1>2. index \in [Files -> Versions] /\ SpawnIfNeeded(g, index, task)
  BY DEF IndexCached, IInv, TypeOK
<1>3. /\ task' \in [Tasks -> TaskRecords] /\ overlapped' \in BOOLEAN
      /\ Tallies' /\ Orderly' /\ Truthful'
  BY <1>1, <1>2, SpawnIfNeededKeeps
<1>4. runs' \in 0 .. MaxRuns
  BY EmbedAssumption DEF IndexCached, IInv, TypeOK
<1>5. TypeOK'
  BY <1>3, <1>4 DEF IndexCached, IInv, TypeOK, treeVars, indexVars, fileVars, processVars
<1> QED
  BY <1>3, <1>5 DEF IInv

LEMMA IndexFreshKeepsIInv ==
  ASSUME IInv, NEW g \in Generators, IndexFresh(g) PROVE IInv'
<1>1. UNCHANGED <<binFile, tmpFile, metaFile, open, config, orphan>>
  BY DEF IndexFresh, fileVars, processVars
<1>2. PICK force \in BOOLEAN : Spawn(g, tree, force)
  BY DEF IndexFresh
<1>3. tree \in [Files -> Versions]
  BY DEF IInv, TypeOK
<1>4. /\ task' \in [Tasks -> TaskRecords] /\ overlapped' \in BOOLEAN
      /\ Tallies' /\ Orderly' /\ Truthful'
  BY <1>1, <1>2, <1>3, SpawnKeeps
<1>5. runs' \in 0 .. MaxRuns
  BY EmbedAssumption DEF IndexFresh, IInv, TypeOK
<1>6. TypeOK'
  BY <1>3, <1>4, <1>5 DEF IndexFresh, IInv, TypeOK, treeVars, fileVars, processVars
<1> QED
  BY <1>4, <1>6 DEF IInv

LEMMA DoctorKeepsIInv ==
  ASSUME IInv, NEW g \in Generators, DoctorRepair(g) PROVE IInv'
<1>1. UNCHANGED <<binFile, tmpFile, metaFile, open, config, orphan>>
  BY DEF DoctorRepair, fileVars, processVars
<1>2. index' \in [Files -> Versions] /\ stamps' \in [Files -> Versions]
  BY DEF DoctorRepair, IInv, TypeOK
<1>3. /\ task' \in [Tasks -> TaskRecords] /\ overlapped' \in BOOLEAN
      /\ Tallies' /\ Orderly' /\ Truthful'
  <2> DEFINE others == IF UpToDate THEN task ELSE Disturbed
  <2>1. others \in {task, Disturbed}
    OBVIOUS
  <2>2. CASE EmbeddingsWarn
    <3>1. SpawnIfNeeded(g, index', others)
      BY <2>2 DEF DoctorRepair
    <3> HIDE DEF others
    <3> QED
      BY <1>1, <1>2, <2>1, <3>1, SpawnIfNeededKeeps
  <2>3. CASE ~EmbeddingsWarn
    <3>1. task' = others /\ UNCHANGED overlapped
      BY <2>3 DEF DoctorRepair
    <3> HIDE DEF others
    <3> QED
      BY <1>1, <2>1, <3>1, DisturbKeeps
  <2> QED
    BY <2>2, <2>3
<1>4. runs' \in 0 .. MaxRuns /\ dirty' \in BOOLEAN
  BY EmbedAssumption DEF DoctorRepair, IInv, TypeOK
<1>5. TypeOK'
  BY <1>2, <1>3, <1>4 DEF DoctorRepair, IInv, TypeOK, treeVars, fileVars, processVars
<1> QED
  BY <1>3, <1>5 DEF IInv

LEMMA FlushKeepsIInv == ASSUME IInv, Flush PROVE IInv'
<1>1. UNCHANGED <<binFile, tmpFile, metaFile, open, config, orphan>>
  BY DEF Flush, fileVars, processVars
<1>2. PICK flush \in {Batch, Resync} :
        /\ index' = [f \in Files |-> IF f \in flush.stamping THEN tree[f] ELSE index[f]]
        /\ task' = Started(Updater, [Idle EXCEPT !.pc = "load", !.snapshot = index',
                     !.changed = flush.changed, !.removed = flush.removed,
                     !.stamping = flush.stamping])
  BY DEF Flush
<1>3. index' \in [Files -> Versions]
  BY <1>2 DEF IInv, TypeOK
<1>4. /\ flush.changed \in SUBSET Files /\ flush.removed \in SUBSET Files
      /\ flush.stamping \in SUBSET Files
  BY DEF Batch, Resync, Live, IInv, TypeOK
<1> DEFINE r == [Idle EXCEPT !.pc = "load", !.snapshot = index',
                             !.changed = flush.changed, !.removed = flush.removed,
                             !.stamping = flush.stamping]
<1>5. Fresh(r)
  <2>1. Idle \in TaskRecords
    BY IdleType
  <2>2. r \in TaskRecords /\ r.pc = "load"
    BY <1>3, <1>4, <2>1 DEF TaskRecords, Running
  <2>3. r.stored = 0 /\ r.total = 0 /\ DOMAIN r.todo = {}
    BY <2>1, IdleType DEF TaskRecords
  <2>4. Cardinality({}) = 0
    BY FS_EmptySet
  <2> HIDE DEF r
  <2> QED
    BY <2>2, <2>3, <2>4 DEF Fresh
<1>6. /\ task' \in [Tasks -> TaskRecords] /\ overlapped' \in BOOLEAN
      /\ Tallies' /\ Orderly' /\ Truthful'
  <2>1. /\ ~Active(Updater) /\ task' = Started(Updater, r) /\ Updater \in Tasks
        /\ overlapped' = (overlapped \/ ~AllIdle)
    BY <1>2 DEF Flush, Tasks
  <2> HIDE DEF r
  <2> QED
    BY <1>1, <1>5, <2>1, StartKeeps
<1>7. TypeOK'
  BY <1>3, <1>6 DEF Flush, IInv, TypeOK, treeVars, fileVars, processVars
<1> QED
  BY <1>6, <1>7 DEF IInv

-----------------------------------------------------------------------------
(* The steps of a task.                                                    *)

LEMMA LoadKeepsIInv == ASSUME IInv, NEW t \in Tasks, Load(t) PROVE IInv'
<1> DEFINE r == [task[t] EXCEPT !.pc = "plan", !.store = Loaded(binFile)]
<1>1. TypeOK /\ Tallies /\ Orderly /\ Truthful
  BY DEF IInv
<1>2. task \in [Tasks -> TaskRecords] /\ task[t] \in TaskRecords
  BY <1>1 DEF TypeOK
<1>3. task' = [task EXCEPT ![t] = r] /\ Active(t)
  BY <1>2 DEF Load, At, Active
<1>4. Loaded(binFile) \in Stores
  BY <1>1, LoadedType DEF TypeOK
<1>5. r \in TaskRecords /\ r.pc = "plan" /\ r.store = Loaded(binFile)
  BY <1>2, <1>4 DEF TaskRecords, Running
<1>6. r.stored + Cardinality(DOMAIN r.todo) <= r.total
  BY <1>1, <1>2 DEF Tallies, TaskRecords
<1> HIDE DEF r
<1>7. task' \in [Tasks -> TaskRecords] /\ Tallies'
  BY <1>1, <1>3, <1>5, <1>6, TaskUpdated
<1>8. task'[t] = r /\ \A u \in Tasks \ {t} : task'[u] = task[u]
  BY <1>2, <1>3
<1>9. UNCHANGED <<binFile, metaFile, config, orphan, overlapped>>
  BY DEF Load, fileVars, processVars, history
<1>10. TypeOK'
  BY <1>1, <1>7 DEF Load, TypeOK, treeVars, indexVars, fileVars, processVars, history
<1>11. ~overlapped /\ ~orphan' => Vouched'
  <2> SUFFICES ASSUME ~overlapped, ~orphan' PROVE Vouched'
    OBVIOUS
  <2>1. Vouched
    BY <1>1, <1>9 DEF Truthful
  <2>2. \A u \in Tasks : ~At(u, "meta")' => ~At(u, "meta")
    BY <1>8 DEF Load, At
  <2> QED
    BY <1>9, <2>1, <2>2 DEF Vouched
<1>12. Orderly' /\ Truthful'
  <2>1. ~overlapped => binFile' # Torn
    BY <1>1, <1>9 DEF Orderly
  <2>2. /\ ~At(t, "fill")' /\ ~At(t, "rename")' /\ ~At(t, "meta")'
        /\ task'[t].pc \notin {"embed", "open", "fill", "rename"}
    BY <1>5, <1>8 DEF At
  <2>3. task'[t].store = Loaded(binFile)'
    BY <1>5, <1>8, <1>9 DEF Loaded, NewStore
  <2> QED
    BY <1>1, <1>3, <1>8, <1>9, <1>11, <2>1, <2>2, <2>3, StepSafe
<1> QED
  BY <1>7, <1>10, <1>12 DEF IInv
\* What a plan keeps is part of the reusable store.
LEMMA KeptStore ==
  ASSUME TypeOK, NEW t \in Tasks
  PROVE  /\ Reusable(t) \in Stores /\ Kept(t) \in Stores
         /\ DOMAIN Kept(t) \subseteq DOMAIN Reusable(t)
         /\ \A f \in DOMAIN Kept(t) : Kept(t)[f] = Reusable(t)[f]
<1>1. task[t].store \in Stores
  BY DEF TypeOK, TaskRecords
<1>2. Reusable(t) \in Stores
  BY <1>1, EmptyTypes DEF Reusable
<1>3. PICK ids \in SUBSET (DOMAIN Reusable(t)) : Kept(t) = Restrict(Reusable(t), ids)
  BY DEF Kept
<1> QED
  BY <1>2, <1>3, RestrictStore

\* The heart of the matter: without overlap and without a save cut short, the
\* vectors a plan keeps belong to the present configuration.
LEMMA KeptByConfig ==
  ASSUME IInv, NEW t \in Tasks, At(t, "plan"), ~overlapped, ~orphan
  PROVE  ByConfig(Kept(t))
<1>1. TypeOK /\ Exclusive /\ OwnVectors /\ Vouched
  BY DEF IInv, Orderly, Truthful
<1>2. SUFFICES ByConfig(Reusable(t))
  BY <1>1, KeptStore DEF ByConfig
<1>3. CASE task[t].force \/ ~Compatible
  BY <1>3 DEF Reusable, NewStore, ByConfig
<1>4. CASE ~task[t].force /\ Compatible
  <2>1. Reusable(t) = Loaded(binFile)
    BY <1>1, <1>4 DEF Reusable, OwnVectors
  <2>2. metaFile = config /\ metaFile # NoConfig
    BY <1>1, <1>4, EmbedAssumption DEF Compatible, TypeOK
  <2>3. \A u \in Tasks : ~At(u, "meta")
    BY <1>1 DEF Exclusive, Active, At
  <2>4. CASE binFile \in {Absent, Torn}
    BY <2>1, <2>4 DEF Loaded, NewStore, ByConfig
  <2>5. CASE binFile \notin {Absent, Torn}
    BY <1>1, <2>1, <2>2, <2>3, <2>5 DEF Vouched, Loaded, ByConfig
  <2> QED
    BY <2>4, <2>5
<1> QED
  BY <1>3, <1>4

LEMMA PlanKeepsIInv == ASSUME IInv, NEW t \in Tasks, Plan(t) PROVE IInv'
<1> DEFINE pc == IF ToEmbed(t) = {} THEN "open" ELSE "embed"
           docs == [f \in ToEmbed(t) |-> Document(t, f)]
           n == Cardinality(ToEmbed(t))
           r == [task[t] EXCEPT !.pc = pc, !.store = Kept(t), !.todo = docs,
                                !.total = n, !.stored = 0]
<1>1. TypeOK /\ Tallies /\ Orderly /\ Truthful
  BY DEF IInv
<1>2. task \in [Tasks -> TaskRecords] /\ task[t] \in TaskRecords
  BY <1>1 DEF TypeOK
<1>3. task' = [task EXCEPT ![t] = r] /\ Active(t)
  BY <1>2 DEF Plan, At, Active
<1>4. ToEmbed(t) \in SUBSET Files
  BY DEF ToEmbed, Candidates, Live
<1>5. n \in 0 .. Cardinality(Files) /\ n \in Nat
  BY <1>4, FilesCounted
<1>6. docs \in Todos /\ DOMAIN docs = ToEmbed(t)
  <2>1. \A f \in Files : Document(t, f) \in Documents
    BY <1>1, <1>2 DEF Document, Documents, TypeOK, TaskRecords
  <2>2. docs \in [ToEmbed(t) -> Documents] /\ DOMAIN docs = ToEmbed(t)
    BY <1>4, <2>1
  <2> HIDE DEF docs
  <2> QED
    BY <1>4, <2>2, TodoType
<1>7. Kept(t) \in Stores
  BY <1>1, KeptStore
<1>8. pc \in {"open", "embed"}
  OBVIOUS
<1> HIDE DEF pc, docs, n
<1>9. /\ r \in TaskRecords /\ r.pc = pc /\ r.store = Kept(t)
      /\ r.todo = docs /\ r.total = n /\ r.stored = 0
  <2>1. 0 \in 0 .. Cardinality(Files)
    BY ZeroCounts
  <2> QED
    BY <1>2, <1>5, <1>6, <1>7, <1>8, <2>1 DEF TaskRecords, Running
<1>10. r.stored + Cardinality(DOMAIN r.todo) <= r.total
  BY <1>5, <1>6, <1>9 DEF n
<1> HIDE DEF r
<1>11. task' \in [Tasks -> TaskRecords] /\ Tallies'
  BY <1>1, <1>3, <1>9, <1>10, TaskUpdated
<1>12. task'[t] = r /\ \A u \in Tasks \ {t} : task'[u] = task[u]
  BY <1>2, <1>3
<1>13. UNCHANGED <<binFile, metaFile, config, orphan, overlapped>>
  BY DEF Plan, fileVars, processVars, history
<1>14. progress' \in Progress \cup {NoProgress}
  <2>1. 0 \in 0 .. Cardinality(Files)
    BY ZeroCounts
  <2>2. [stored |-> 0, total |-> n, finished |-> FALSE] \in Progress
    BY <1>5, <2>1 DEF Progress
  <2> QED
    BY <1>1, <2>2 DEF Plan, TypeOK, n
<1>15. TypeOK'
  BY <1>1, <1>11, <1>14 DEF Plan, TypeOK, treeVars, indexVars, fileVars, processVars, history
<1>16. ~overlapped /\ ~orphan' => Vouched'
  <2>1. ~At(t, "meta") /\ \A u \in Tasks \ {t} : At(u, "meta")' = At(u, "meta")
    BY <1>12 DEF Plan, At
  <2> QED
    BY <1>1, <1>13, <2>1 DEF Truthful, Vouched
<1>17. ~overlapped /\ ~orphan' => ByConfig(task[t].store)'
  <2>1. ~overlapped /\ ~orphan => ByConfig(Kept(t))
    BY KeptByConfig DEF Plan
  <2> QED
    BY <1>9, <1>12, <1>13, <2>1 DEF ByConfig
<1>18. Orderly' /\ Truthful'
  <2>1. ~overlapped => binFile' # Torn
    BY <1>1, <1>13 DEF Orderly
  <2>2. ~At(t, "fill")' /\ ~At(t, "rename")' /\ ~At(t, "meta")' /\ ~At(t, "plan")'
    BY <1>8, <1>9, <1>12 DEF At
  <2> QED
    BY <1>1, <1>3, <1>12, <1>13, <1>16, <1>17, <2>1, <2>2, StepSafe
<1> QED
  BY <1>11, <1>15, <1>18 DEF IInv
LEMMA StoredStore ==
  ASSUME NEW s \in Stores, NEW f \in Files, NEW doc \in Documents, config \in Configs
  PROVE  /\ Stored(s, f, doc) \in Stores
         /\ ByConfig(s) => ByConfig(Stored(s, f, doc))
<1>1. s \in [DOMAIN s -> Entries] /\ DOMAIN s \in SUBSET Files
  BY StoreType
<1>2. [doc |-> doc, by |-> config] \in Entries
  BY DEF Entries
<1>3. DOMAIN Stored(s, f, doc) = DOMAIN s \cup {f}
  BY DEF Stored
<1>4. \A id \in DOMAIN s \cup {f} :
        Stored(s, f, doc)[id] = IF id = f THEN [doc |-> doc, by |-> config] ELSE s[id]
  BY DEF Stored
<1>5. \A id \in DOMAIN s \cup {f} : Stored(s, f, doc)[id] \in Entries
  BY <1>1, <1>2, <1>4
<1>6. Stored(s, f, doc) \in [DOMAIN s \cup {f} -> Entries]
  BY <1>3, <1>5 DEF Stored
<1>7. ByConfig(s) => ByConfig(Stored(s, f, doc))
  BY <1>3, <1>4 DEF ByConfig
<1> QED
  BY <1>1, <1>3, <1>6, <1>7, StoreType

LEMMA EmbedKeepsIInv ==
  ASSUME IInv, NEW t \in Tasks, NEW f \in Files, NEW ok \in BOOLEAN, EmbedOne(t, f, ok)
  PROVE  IInv'
<1> DEFINE todo == task[t].todo
           left == DOMAIN todo \ {f}
           pc == IF left = {} THEN "open" ELSE "embed"
           done == Counted(task[t].stored, ok)
           store == IF ok THEN Stored(task[t].store, f, todo[f]) ELSE Skipped(task[t].store, f)
           r == [task[t] EXCEPT !.pc = pc, !.todo = Restrict(todo, left), !.stored = done,
                                !.failed = task[t].failed \/ ~ok, !.store = store]
<1>1. TypeOK /\ Tallies /\ Orderly /\ Truthful
  BY DEF IInv
<1>2. task \in [Tasks -> TaskRecords] /\ task[t] \in TaskRecords /\ config \in Configs
  BY <1>1 DEF TypeOK
<1>3. task' = [task EXCEPT ![t] = r] /\ Active(t)
  BY <1>2 DEF EmbedOne, At, Active
<1>4. todo \in Todos /\ f \in DOMAIN todo /\ todo[f] \in Documents /\ DOMAIN todo \in SUBSET Files
  BY <1>2, TodoType DEF EmbedOne, TaskRecords
<1>5. Restrict(todo, left) \in Todos /\ DOMAIN Restrict(todo, left) = left
  BY <1>4, RestrictTodo
<1>6. /\ task[t].stored \in Nat /\ task[t].total \in 0 .. Cardinality(Files)
      /\ task[t].stored + Cardinality(DOMAIN todo) <= task[t].total
  BY <1>1, <1>2 DEF Tallies, TaskRecords
<1>7. Cardinality(left) \in Nat /\ Cardinality(DOMAIN todo) = Cardinality(left) + 1
  <2>1. IsFiniteSet(DOMAIN todo)
    BY <1>4, FilesCounted
  <2>2. Cardinality(left) = Cardinality(DOMAIN todo) - 1
    BY <1>4, <2>1, FS_RemoveElement
  <2>3. Cardinality(left) \in Nat /\ Cardinality(DOMAIN todo) \in Nat
    BY <1>4, FilesCounted
  <2> QED
    BY <2>2, <2>3
<1>8. done \in 0 .. Cardinality(Files) /\ done + Cardinality(left) <= task[t].total
  <2>1. done \in Nat /\ done <= task[t].stored + 1
    BY <1>6 DEF Counted
  <2>2. Cardinality(Files) \in Nat
    BY EmbedAssumption, FS_CardinalityType
  <2> HIDE DEF done, left, todo
  <2> QED
    BY <1>6, <1>7, <2>1, <2>2
<1>9. store \in Stores /\ (ByConfig(task[t].store) => ByConfig(store))
  <2>1. task[t].store \in Stores
    BY <1>2 DEF TaskRecords
  <2> QED
    BY <1>2, <1>4, <2>1, StoredStore DEF Skipped
<1>10. pc \in {"open", "embed"} /\ (task[t].failed \/ ~ok) \in BOOLEAN
  OBVIOUS
<1> HIDE DEF pc, left, done, store
<1>11. /\ r \in TaskRecords /\ r.pc = pc /\ r.store = store
       /\ r.todo = Restrict(todo, left) /\ r.total = task[t].total /\ r.stored = done
  <2> HIDE DEF todo
  <2> QED
    BY <1>2, <1>5, <1>8, <1>9, <1>10 DEF TaskRecords, Running
<1>12. r.stored + Cardinality(DOMAIN r.todo) <= r.total
  BY <1>5, <1>8, <1>11
<1> HIDE DEF r
<1>13. task' \in [Tasks -> TaskRecords] /\ Tallies'
  BY <1>1, <1>3, <1>11, <1>12, TaskUpdated
<1>14. task'[t] = r /\ \A u \in Tasks \ {t} : task'[u] = task[u]
  BY <1>2, <1>3
<1>15. UNCHANGED <<binFile, metaFile, config, orphan, overlapped>>
  BY DEF EmbedOne, fileVars, processVars, history
<1>16. progress' \in Progress \cup {NoProgress}
  BY <1>1, <1>6, <1>8 DEF EmbedOne, TypeOK, Progress, done
<1>17. TypeOK'
  BY <1>1, <1>13, <1>16
     DEF EmbedOne, TypeOK, treeVars, indexVars, fileVars, processVars, history
<1>18. ~overlapped /\ ~orphan' => Vouched'
  <2>1. ~At(t, "meta") /\ \A u \in Tasks \ {t} : At(u, "meta")' = At(u, "meta")
    BY <1>14 DEF EmbedOne, At
  <2> QED
    BY <1>1, <1>15, <2>1 DEF Truthful, Vouched
<1>19. ~overlapped /\ ~orphan' => ByConfig(task[t].store)'
  <2>1. ~overlapped /\ ~orphan => ByConfig(task[t].store)
    BY <1>1 DEF EmbedOne, At, Truthful, OwnVectors
  <2> QED
    BY <1>9, <1>11, <1>14, <1>15, <2>1 DEF ByConfig
<1>20. Orderly' /\ Truthful'
  <2>1. ~overlapped => binFile' # Torn
    BY <1>1, <1>15 DEF Orderly
  <2>2. ~At(t, "fill")' /\ ~At(t, "rename")' /\ ~At(t, "meta")' /\ ~At(t, "plan")'
    BY <1>10, <1>11, <1>14 DEF At
  <2> QED
    BY <1>1, <1>3, <1>14, <1>15, <1>18, <1>19, <2>1, <2>2, StepSafe
<1> QED
  BY <1>13, <1>17, <1>20 DEF IInv
\* The steps of a save only move the task along.
LEMMA Advance ==
  ASSUME TypeOK, Tallies, NEW t \in Tasks, NEW pc \in Running, NEW failed \in BOOLEAN,
         task' = [task EXCEPT ![t].pc = pc, ![t].failed = failed]
  PROVE  /\ task' \in [Tasks -> TaskRecords] /\ Tallies'
         /\ task'[t].pc = pc /\ task'[t].store = task[t].store
         /\ \A u \in Tasks \ {t} : task'[u] = task[u]
<1> DEFINE r == [task[t] EXCEPT !.pc = pc, !.failed = failed]
<1>1. task \in [Tasks -> TaskRecords] /\ task[t] \in TaskRecords
  BY DEF TypeOK
<1>2. task' = [task EXCEPT ![t] = r]
  BY <1>1
<1>3. /\ r \in TaskRecords /\ r.pc = pc /\ r.store = task[t].store
      /\ r.todo = task[t].todo /\ r.total = task[t].total /\ r.stored = task[t].stored
  BY <1>1 DEF TaskRecords
<1>4. r.stored + Cardinality(DOMAIN r.todo) <= r.total
  BY <1>3 DEF Tallies
<1> HIDE DEF r
<1>5. task' \in [Tasks -> TaskRecords] /\ Tallies'
  BY <1>2, <1>3, <1>4, TaskUpdated
<1> QED
  BY <1>1, <1>2, <1>3, <1>5

LEMMA MoveOn ==
  ASSUME TypeOK, Tallies, NEW t \in Tasks, NEW pc \in Running,
         task' = [task EXCEPT ![t].pc = pc]
  PROVE  /\ task' \in [Tasks -> TaskRecords] /\ Tallies'
         /\ task'[t].pc = pc /\ task'[t].store = task[t].store
         /\ \A u \in Tasks \ {t} : task'[u] = task[u]
<1>1. task \in [Tasks -> TaskRecords] /\ task[t] \in TaskRecords
  BY DEF TypeOK
<1>2. task[t].failed \in BOOLEAN
  BY <1>1 DEF TaskRecords
<1>3. task' = [task EXCEPT ![t].pc = pc, ![t].failed = task[t].failed]
  BY <1>1 DEF TaskRecords
<1> QED
  BY <1>2, <1>3, Advance

LEMMA OpenKeepsIInv == ASSUME IInv, NEW t \in Tasks, Open(t) PROVE IInv'
<1>1. TypeOK /\ Tallies /\ Orderly /\ Truthful
  BY DEF IInv
<1>2. "fill" \in Running
  BY DEF Running
<1>3. task' = [task EXCEPT ![t].pc = "fill"] /\ At(t, "open") /\ Active(t)
  BY DEF Open, At, Active
<1>4. /\ task' \in [Tasks -> TaskRecords] /\ Tallies'
      /\ task'[t].pc = "fill" /\ task'[t].store = task[t].store
      /\ \A u \in Tasks \ {t} : task'[u] = task[u]
  BY <1>1, <1>2, <1>3, MoveOn
<1>5. UNCHANGED <<binFile, metaFile, config, orphan, overlapped>>
  BY DEF Open, processVars, history
<1>6. open' \in [Tasks -> {"none", "tmp", "bin", "gone"}] /\ open'[t] = "tmp"
  BY <1>1 DEF Open, TypeOK
<1>7. TypeOK'
  BY <1>1, <1>4, <1>6 DEF Open, TypeOK, treeVars, indexVars, processVars, history
<1>8. ~overlapped /\ ~orphan' => ByConfig(task[t].store)' /\ Vouched'
  <2>1. ~overlapped /\ ~orphan => ByConfig(task[t].store) /\ Vouched
    BY <1>1, <1>3 DEF At, Truthful, OwnVectors
  <2>2. \A u \in Tasks : At(u, "meta")' = At(u, "meta")
    BY <1>3, <1>4 DEF At
  <2> QED
    BY <1>4, <1>5, <2>1, <2>2 DEF ByConfig, Vouched
<1>9. Orderly' /\ Truthful'
  <2>1. ~overlapped => binFile' # Torn
    BY <1>1, <1>5 DEF Orderly
  <2>2. ~At(t, "rename")' /\ ~At(t, "meta")' /\ ~At(t, "plan")'
    BY <1>4 DEF At
  <2> QED
    BY <1>1, <1>3, <1>4, <1>5, <1>6, <1>8, <2>1, <2>2, StepSafe
<1> QED
  BY <1>4, <1>7, <1>9 DEF IInv

LEMMA FillKeepsIInv == ASSUME IInv, NEW t \in Tasks, Fill(t) PROVE IInv'
<1>1. TypeOK /\ Tallies /\ Orderly /\ Truthful
  BY DEF IInv
<1>2. "rename" \in Running
  BY DEF Running
<1>3. task' = [task EXCEPT ![t].pc = "rename"] /\ At(t, "fill") /\ Active(t)
  BY DEF Fill, At, Active
<1>4. /\ task' \in [Tasks -> TaskRecords] /\ Tallies'
      /\ task'[t].pc = "rename" /\ task'[t].store = task[t].store
      /\ \A u \in Tasks \ {t} : task'[u] = task[u]
  BY <1>1, <1>2, <1>3, MoveOn
<1>5. UNCHANGED <<metaFile, config, orphan, overlapped>>
  BY DEF Fill, processVars, history
<1>6. task[t].store \in Stores
  BY <1>1 DEF TypeOK, TaskRecords
<1>7. /\ open' \in [Tasks -> {"none", "tmp", "bin", "gone"}]
      /\ tmpFile' \in Stores \cup {Absent, Torn} /\ binFile' \in Stores \cup {Absent, Torn}
  BY <1>1, <1>6 DEF Fill, TypeOK
<1>8. TypeOK'
  BY <1>1, <1>4, <1>7 DEF Fill, TypeOK, treeVars, indexVars, processVars, history
<1>9. ~overlapped => tmpFile' = task'[t].store /\ binFile' = binFile /\ binFile # Torn
  BY <1>1, <1>3, <1>4 DEF Fill, Orderly, OwnFile
<1>10. ~overlapped /\ ~orphan' => ByConfig(task[t].store)' /\ Vouched'
  <2>1. ~overlapped /\ ~orphan => ByConfig(task[t].store) /\ Vouched
    BY <1>1, <1>3 DEF At, Truthful, OwnVectors
  <2>2. \A u \in Tasks : At(u, "meta")' = At(u, "meta")
    BY <1>3, <1>4 DEF At
  <2> QED
    BY <1>4, <1>5, <1>9, <2>1, <2>2 DEF ByConfig, Vouched
<1>11. Orderly' /\ Truthful'
  <2>1. ~At(t, "fill")' /\ ~At(t, "meta")' /\ ~At(t, "plan")'
    BY <1>4 DEF At
  <2> QED
    BY <1>1, <1>3, <1>4, <1>5, <1>9, <1>10, <2>1, StepSafe
<1> QED
  BY <1>4, <1>8, <1>11 DEF IInv

LEMMA RenameKeepsIInv == ASSUME IInv, NEW t \in Tasks, Rename(t) PROVE IInv'
<1>1. TypeOK /\ Tallies /\ Orderly /\ Truthful
  BY DEF IInv
<1>2. "meta" \in Running
  BY DEF Running
<1>3. task' = [task EXCEPT ![t].pc = "meta"] /\ At(t, "rename") /\ Active(t)
  BY DEF Rename, At, Active
<1>4. /\ task' \in [Tasks -> TaskRecords] /\ Tallies'
      /\ task'[t].pc = "meta" /\ task'[t].store = task[t].store
      /\ \A u \in Tasks \ {t} : task'[u] = task[u]
  BY <1>1, <1>2, <1>3, MoveOn
<1>5. UNCHANGED <<metaFile, config, orphan, overlapped>> /\ binFile' = tmpFile
  BY DEF Rename, processVars, history
<1>6. open' \in [Tasks -> {"none", "tmp", "bin", "gone"}]
  BY <1>1 DEF Rename, Moved, TypeOK
<1>7. TypeOK'
  BY <1>1, <1>4, <1>6 DEF Rename, TypeOK, treeVars, indexVars, processVars, history
<1>8. task[t].store \in Stores
  BY <1>1 DEF TypeOK, TaskRecords
<1>9. ~overlapped => binFile' = task[t].store /\ binFile' # Torn
  BY <1>1, <1>3, <1>5, <1>8, FileAssumption DEF Orderly, OwnFile
<1>10. ~overlapped /\ ~orphan' => ByConfig(binFile)' /\ Vouched'
  <2>1. ~overlapped /\ ~orphan => ByConfig(task[t].store)
    BY <1>1, <1>3 DEF At, Truthful, OwnVectors
  <2>2. ~overlapped /\ ~orphan' => ByConfig(binFile)'
    BY <1>5, <1>9, <2>1 DEF ByConfig
  <2>3. Vouched'
    BY <1>4 DEF Vouched, At
  <2> QED
    BY <2>2, <2>3
<1>11. Orderly' /\ Truthful'
  <2>1. /\ ~At(t, "fill")' /\ ~At(t, "rename")' /\ ~At(t, "plan")'
        /\ task'[t].pc \notin {"embed", "open", "fill", "rename"}
    BY <1>4 DEF At
  <2> QED
    BY <1>1, <1>3, <1>4, <1>5, <1>9, <1>10, <2>1, StepSafe
<1> QED
  BY <1>4, <1>7, <1>11 DEF IInv

LEMMA SaveMetaKeepsIInv == ASSUME IInv, NEW t \in Tasks, SaveMeta(t) PROVE IInv'
<1>1. TypeOK /\ Tallies /\ Orderly /\ Truthful
  BY DEF IInv
<1>2. "finish" \in Running
  BY DEF Running
<1>3. task' = [task EXCEPT ![t].pc = "finish"] /\ At(t, "meta") /\ Active(t)
  BY DEF SaveMeta, At, Active
<1>4. /\ task' \in [Tasks -> TaskRecords] /\ Tallies'
      /\ task'[t].pc = "finish" /\ task'[t].store = task[t].store
      /\ \A u \in Tasks \ {t} : task'[u] = task[u]
  BY <1>1, <1>2, <1>3, MoveOn
<1>5. UNCHANGED <<binFile, config, orphan, overlapped>> /\ metaFile' = config
  BY DEF SaveMeta, processVars, history
<1>6. TypeOK'
  BY <1>1, <1>4 DEF SaveMeta, TypeOK, treeVars, indexVars, processVars, history
<1>7. ~overlapped /\ ~orphan' => Vouched'
  <2>1. ~overlapped /\ ~orphan => ByConfig(binFile)
    BY <1>1, <1>3 DEF Truthful, OwnVectors
  <2> QED
    BY <1>5, <2>1 DEF ByConfig, Vouched
<1>8. Orderly' /\ Truthful'
  <2>1. ~overlapped => binFile' # Torn
    BY <1>1, <1>5 DEF Orderly
  <2>2. /\ ~At(t, "fill")' /\ ~At(t, "rename")' /\ ~At(t, "plan")' /\ ~At(t, "meta")'
        /\ task'[t].pc \notin {"embed", "open", "fill", "rename"}
    BY <1>4 DEF At
  <2> QED
    BY <1>1, <1>3, <1>4, <1>5, <1>7, <2>1, <2>2, StepSafe
<1> QED
  BY <1>4, <1>6, <1>8 DEF IInv

LEMMA SaveFailsKeepsIInv == ASSUME IInv, NEW t \in Tasks, SaveFails(t) PROVE IInv'
<1>1. TypeOK /\ Tallies /\ Orderly /\ Truthful
  BY DEF IInv
<1>2. "finish" \in Running /\ TRUE \in BOOLEAN
  BY DEF Running
<1>3. task' = [task EXCEPT ![t].pc = "finish", ![t].failed = TRUE] /\ Active(t)
  BY DEF SaveFails, At, Active
<1>4. /\ task' \in [Tasks -> TaskRecords] /\ Tallies'
      /\ task'[t].pc = "finish" /\ task'[t].store = task[t].store
      /\ \A u \in Tasks \ {t} : task'[u] = task[u]
  BY <1>1, <1>2, <1>3, Advance
<1>5. UNCHANGED <<binFile, metaFile, config, overlapped>> /\ orphan' = (orphan \/ At(t, "meta"))
  BY DEF SaveFails, fileVars, processVars
<1>6. TypeOK'
  BY <1>1, <1>4, <1>5 DEF SaveFails, TypeOK, treeVars, indexVars, fileVars, processVars, At
<1>7. ~overlapped /\ ~orphan' => Vouched'
  <2> SUFFICES ASSUME ~overlapped, ~orphan' PROVE Vouched'
    OBVIOUS
  <2>1. Vouched /\ ~At(t, "meta")
    BY <1>1, <1>5 DEF Truthful
  <2>2. \A u \in Tasks \ {t} : At(u, "meta")' = At(u, "meta")
    BY <1>4 DEF At
  <2> QED
    BY <1>5, <2>1, <2>2 DEF Vouched
<1>8. Orderly' /\ Truthful'
  <2>1. ~overlapped => binFile' # Torn
    BY <1>1, <1>5 DEF Orderly
  <2>2. /\ ~At(t, "fill")' /\ ~At(t, "rename")' /\ ~At(t, "plan")' /\ ~At(t, "meta")'
        /\ task'[t].pc \notin {"embed", "open", "fill", "rename"}
    BY <1>4 DEF At
  <2> QED
    BY <1>1, <1>3, <1>4, <1>5, <1>7, <2>1, <2>2, StepSafe
<1> QED
  BY <1>4, <1>6, <1>8 DEF IInv

-----------------------------------------------------------------------------
(* The writer that runs alone.  What it saves is complete: for every file  *)
(* of its snapshot it holds a vector, or has a document in hand, of what   *)
(* the file is now, unless an edit of the file waits to be flushed or the  *)
(* recorded mtime says so.  An update builds on what it finds, so it needs *)
(* a store of which that is true already: no work was lost before it.      *)

BeforeMeta == {"embed", "open", "fill", "rename"}

Solo(t) == Active(t) /\ task[t].alone =>
  /\ \A u \in Tasks : Active(u) => u = t
  /\ task[t].snapshot = index
  /\ At(t, "plan") => task[t].store = Loaded(binFile)
  /\ At(t, "fill") => open[t] = "tmp"
  /\ At(t, "rename") => tmpFile = task[t].store

\* No edit of the file is unseen, and its mtime is or will be recorded.
Seen(t, f) == f \notin pending /\ (f \in task[t].stamping \/ stamps[f] = tree[f])
Right(t, f, doc) == /\ doc.parsed = task[t].snapshot[f]
                    /\ Seen(t, f) => doc.source = tree[f]

Complete(t, store) ==
  /\ DOMAIN store \subseteq Live(task[t].snapshot)
  /\ DOMAIN task[t].todo \subseteq Live(task[t].snapshot)
  /\ \A f \in Live(task[t].snapshot) :
       /\ f \in DOMAIN task[t].todo => Right(t, f, task[t].todo[f])
       /\ f \notin DOMAIN task[t].todo => f \in DOMAIN store /\ Right(t, f, store[f].doc)

\* What an update keeps of the store it finds.
Groundwork(t, store) ==
  /\ DOMAIN store \ task[t].removed \subseteq Live(task[t].snapshot)
  /\ \A f \in Live(task[t].snapshot) \ task[t].changed :
       f \in DOMAIN store \ task[t].removed /\ Right(t, f, store[f].doc)

Readable(file) == file \notin {Absent, Torn}

Repairs(t) ==
  Active(t) /\ task[t].alone /\ ~task[t].failed /\ (t \in Generators \/ ~dirty) =>
    /\ t = Updater /\ metaFile # NoConfig /\ task[t].pc \in {"load", "plan"}
         => Readable(binFile) /\ Groundwork(t, binFile)
    /\ task[t].pc \in BeforeMeta => Complete(t, task[t].store)
    /\ task[t].pc \in {"meta", "finish"} => Readable(binFile) /\ Complete(t, binFile)
    /\ At(t, "finish") => metaFile = config

\* A generation that may reuse vectors has those of its snapshot.
Reuses(t) ==
  t \in Generators /\ task[t].pc \in BeforeMeta /\ task[t].alone /\ ~task[t].force /\ Compatible
    => DOMAIN Loaded(binFile) \cap Live(task[t].snapshot) \subseteq DOMAIN task[t].store

\* What it has told the registry.
Tells(t) ==
  t \in Generators /\ task[t].alone /\ task[t].pc \in Running \ {"load", "plan"} =>
    /\ \/ Live(task[t].snapshot) \subseteq DOMAIN task[t].store \cup DOMAIN task[t].todo
       \/ task[t].stored + Cardinality(DOMAIN task[t].todo) < task[t].total
    /\ task[t].total > 0 => /\ progress # NoProgress
                            /\ progress.stored = task[t].stored
                            /\ progress.total = task[t].total

Kinds(t) ==
  /\ task[t].pc \in {"open", "fill", "rename", "meta", "finish"} => DOMAIN task[t].todo = {}
  /\ At(t, "embed") => DOMAIN task[t].todo # {}
  /\ t \in Generators => task[t].stamping = {}
  /\ t = Updater => ~task[t].force

\* The store of a project at rest, once there is metadata for it.
Settled ==
  AllIdle /\ ~dirty /\ metaFile # NoConfig =>
    /\ Readable(binFile) /\ DOMAIN binFile = Live(index)
    /\ \A f \in Live(index) :
         /\ binFile[f].doc.parsed = index[f]
         /\ f \notin pending /\ stamps[f] = tree[f] => binFile[f].doc.source = tree[f]

\* The registry knows a project that was embedded in this process.
Known == progress # NoProgress =>
           metaFile = config \/ dirty \/ \E g \in Generators : Active(g)

RInv == /\ \A t \in Tasks : Solo(t) /\ Repairs(t) /\ Reuses(t) /\ Tells(t) /\ Kinds(t)
        /\ Settled /\ Known

\* Before any metadata was saved there is no store, or work was lost; and an
\* entry of the registry that is not finished is of a generation at work.
Untouched == AllIdle /\ ~dirty /\ metaFile = NoConfig => binFile = Absent
Telling(g) == task[g].pc \in Running \ {"load", "plan"}
Underway == progress # NoProgress /\ ~progress.finished => \E g \in Generators : Telling(g)

LEMMA InitRInv == Init => RInv
<1> SUFFICES ASSUME Init PROVE RInv
  OBVIOUS
<1>1. \A t \in Tasks : task[t].pc = "idle" /\ task[t].stamping = {} /\ ~task[t].force
  BY DEF Init, Idle
<1>2. ASSUME NEW t \in Tasks
      PROVE  Solo(t) /\ Repairs(t) /\ Reuses(t) /\ Tells(t) /\ Kinds(t)
  <2>1. task[t].pc = "idle" /\ ~Active(t)
    BY <1>1 DEF Active
  <2>2. Solo(t) /\ Repairs(t)
    BY <2>1 DEF Solo, Repairs
  <2>3. Reuses(t) /\ Tells(t) /\ Kinds(t)
    BY <1>1, <2>1 DEF Reuses, Tells, Kinds, At, BeforeMeta, Running
  <2> QED
    BY <2>2, <2>3
<1>3. Settled /\ Known
  BY DEF Init, Settled, Known
<1> QED
  BY <1>2, <1>3 DEF RInv

-----------------------------------------------------------------------------
(* Where nothing is started and no task moves.                             *)

\* What the claims about a task are made of, when all of it stands.
LEMMA TaskStands ==
  ASSUME NEW t \in Tasks, Solo(t) /\ Repairs(t) /\ Reuses(t) /\ Tells(t) /\ Kinds(t),
         UNCHANGED <<tree, index, stamps, pending, binFile, tmpFile, metaFile, open, config,
                     progress, task, dirty>>
  PROVE  (Solo(t) /\ Repairs(t) /\ Reuses(t) /\ Tells(t) /\ Kinds(t))'
<1>1. Solo(t)'
  BY DEF Solo, Active, At, Loaded, NewStore
<1>2. \A f, doc : Right(t, f, doc)' <=> Right(t, f, doc)
  BY DEF Right, Seen
<1>3. Repairs(t)'
  BY <1>2 DEF Repairs, Active, At, Readable, Complete, Groundwork, Live
<1>4. Reuses(t)' /\ Tells(t)' /\ Kinds(t)'
  BY DEF Reuses, Tells, Kinds, At, Compatible, Loaded, NewStore, Live
<1> QED
  BY <1>1, <1>3, <1>4

LEMMA AllStands ==
  ASSUME RInv,
         UNCHANGED <<tree, index, stamps, pending, binFile, tmpFile, metaFile, open, config,
                     progress, task, dirty>>
  PROVE  RInv'
<1>1. \A t \in Tasks : (Solo(t) /\ Repairs(t) /\ Reuses(t) /\ Tells(t) /\ Kinds(t))'
  BY TaskStands DEF RInv
<1>2. Settled' /\ Known'
  BY DEF RInv, Settled, Known, AllIdle, Active, Readable, Live
<1> QED
  BY <1>1, <1>2 DEF RInv

\* An edit concerns only what is said of the file it changes, and of that one
\* nothing is said while the edit waits.
LEMMA EditKeepsRInv == ASSUME TypeOK, RInv, NEW e \in Files, Edit(e) PROVE RInv'
<1>1. /\ UNCHANGED <<index, stamps, binFile, tmpFile, metaFile, open, config, progress, task, dirty>>
      /\ pending' = pending \cup {e}
      /\ \A f \in Files : f # e => tree'[f] = tree[f]
  BY DEF Edit, fileVars, processVars, history, TypeOK
<1>2. ASSUME NEW t \in Tasks
      PROVE  (Solo(t) /\ Repairs(t) /\ Reuses(t) /\ Tells(t) /\ Kinds(t))'
  <2>1. Solo(t) /\ Repairs(t) /\ Reuses(t) /\ Tells(t) /\ Kinds(t)
    BY DEF RInv
  <2>2. Solo(t)'
    BY <1>1, <2>1 DEF Solo, Active, At, Loaded, NewStore
  <2>3. \A f \in Files : \A doc : Right(t, f, doc) => Right(t, f, doc)'
    BY <1>1 DEF Right, Seen
  <2>4. Repairs(t)'
    BY <1>1, <2>1, <2>3 DEF Repairs, Active, At, Readable, Complete, Groundwork, Live
  <2>5. Reuses(t)' /\ Tells(t)' /\ Kinds(t)'
    BY <1>1, <2>1 DEF Reuses, Tells, Kinds, At, Compatible, Loaded, NewStore, Live
  <2> QED
    BY <2>2, <2>4, <2>5
<1>3. Settled' /\ Known'
  BY <1>1 DEF RInv, Settled, Known, AllIdle, Active, Readable, Live
<1> QED
  BY <1>2, <1>3 DEF RInv

\* After a restart nothing runs.  A change the watcher was told of and did not
\* flush is lost with the process; where the mtimes do not give it away, that
\* is lost work.
LEMMA RestartKeepsRInv == ASSUME RInv, Restart PROVE RInv'
<1>1. \A t \in Tasks : task'[t].pc = "idle" /\ task'[t].stamping = {} /\ ~task'[t].force
  BY DEF Restart, Idle
<1>2. ASSUME NEW t \in Tasks
      PROVE  (Solo(t) /\ Repairs(t) /\ Reuses(t) /\ Tells(t) /\ Kinds(t))'
  <2>1. task'[t].pc = "idle" /\ ~Active(t)'
    BY <1>1 DEF Active
  <2>2. Solo(t)' /\ Repairs(t)'
    BY <2>1 DEF Solo, Repairs
  <2>3. Reuses(t)' /\ Tells(t)' /\ Kinds(t)'
    BY <1>1, <2>1 DEF Reuses, Tells, Kinds, At, BeforeMeta, Running
  <2> QED
    BY <2>2, <2>3
<1>3. Settled'
  <2> SUFFICES ASSUME ~dirty', metaFile' # NoConfig
               PROVE  /\ Readable(binFile)' /\ DOMAIN binFile' = Live(index')
                      /\ \A f \in Live(index') :
                           /\ binFile'[f].doc.parsed = index'[f]
                           /\ f \notin pending' /\ stamps'[f] = tree'[f]
                                => binFile'[f].doc.source = tree'[f]
    BY DEF Settled, Live
  <2>1. /\ UNCHANGED <<tree, index, stamps, binFile, metaFile>>
        /\ ~dirty /\ AllIdle /\ \A f \in pending : stamps[f] # tree[f]
    BY DEF Restart, treeVars
  <2> QED
    BY <2>1 DEF RInv, Settled, Readable
<1>4. Known'
  BY DEF Restart, Known
<1> QED
  BY <1>2, <1>3, <1>4 DEF RInv

-----------------------------------------------------------------------------
(* Starting a task: of two tasks that run at once neither is alone.        *)

LEMMA DisturbedFields ==
  ASSUME TypeOK, NEW u \in Tasks
  PROVE  /\ Disturbed[u].pc = task[u].pc /\ Disturbed[u].todo = task[u].todo
         /\ Disturbed[u].stamping = task[u].stamping /\ Disturbed[u].force = task[u].force
         /\ Disturbed[u].alone = (task[u].alone /\ ~Active(u))
  BY DEF TypeOK, TaskRecords, Disturbed

LEMMA StartedFields ==
  ASSUME TypeOK, NEW t \in Tasks, NEW r \in TaskRecords, task' = Started(t, r)
  PROVE  /\ task'[t] = [r EXCEPT !.alone = AllIdle]
         /\ \A u \in Tasks \ {t} : task'[u] = Disturbed[u]
<1>1. Disturbed \in [Tasks -> TaskRecords]
  BY DisturbedWork
<1> QED
  BY <1>1 DEF Started

\* Of a task that runs beside another nothing is claimed.
LEMMA DisturbedStands ==
  ASSUME TypeOK, RInv, NEW u \in Tasks, task'[u] = Disturbed[u]
  PROVE  (Solo(u) /\ Repairs(u) /\ Reuses(u) /\ Tells(u) /\ Kinds(u))'
<1>1. /\ task'[u].pc = task[u].pc /\ task'[u].todo = task[u].todo
      /\ task'[u].stamping = task[u].stamping /\ task'[u].force = task[u].force
      /\ task'[u].alone = (task[u].alone /\ ~Active(u))
  BY DisturbedFields
<1>2. Kinds(u)'
  BY <1>1 DEF RInv, Kinds, At
<1>3. ~(Active(u)' /\ task'[u].alone)
  BY <1>1 DEF Active
<1>4. Solo(u)' /\ Repairs(u)'
  BY <1>3 DEF Solo, Repairs
<1>5. Reuses(u)' /\ Tells(u)'
  BY <1>3 DEF Reuses, Tells, Active, BeforeMeta, Running
<1> QED
  BY <1>2, <1>4, <1>5

LEMMA StartKeepsRInv ==
  ASSUME TypeOK, RInv, NEW t \in Tasks, NEW r \in TaskRecords, r.pc = "load", r.snapshot = index',
         t \in Generators => r.stamping = {}, t = Updater => ~r.force,
         ~Active(t), task' = Started(t, r), UNCHANGED <<metaFile, config, progress>>,
         dirty => dirty',
         t = Updater /\ AllIdle /\ ~dirty' /\ metaFile # NoConfig
           => (Readable(binFile) /\ Groundwork(t, binFile))'
  PROVE  RInv'
<1>1. /\ task'[t] = [r EXCEPT !.alone = AllIdle]
      /\ \A u \in Tasks \ {t} : task'[u] = Disturbed[u]
  BY StartedFields
<1>2. /\ task'[t].pc = "load" /\ task'[t].stamping = r.stamping /\ task'[t].force = r.force
      /\ task'[t].snapshot = index' /\ task'[t].alone = AllIdle
  BY <1>1 DEF TaskRecords
<1>3. \A u \in Tasks \ {t} :
         (Solo(u) /\ Repairs(u) /\ Reuses(u) /\ Tells(u) /\ Kinds(u))' /\ task'[u].pc = task[u].pc
  BY <1>1, DisturbedStands, DisturbedFields
<1>4. Solo(t)'
  <2>1. ASSUME AllIdle, NEW u \in Tasks, u # t PROVE ~Active(u)'
    BY <1>3, <2>1 DEF AllIdle, Active
  <2> QED
    BY <1>2, <2>1 DEF Solo, Active, At
<1>5. Repairs(t)'
  BY <1>2, EmbedAssumption DEF Repairs, At, BeforeMeta
<1>6. Reuses(t)' /\ Tells(t)' /\ Kinds(t)'
  BY <1>2 DEF Reuses, Tells, Kinds, At, BeforeMeta, Running
<1>7. Settled'
  BY <1>2 DEF Settled, AllIdle, Active
<1>8. Known'
  <2>1. ASSUME NEW g \in Generators, Active(g) PROVE Active(g)'
    BY <1>2, <1>3, <2>1 DEF Active, Tasks
  <2> QED
    BY <2>1 DEF RInv, Known
<1> QED
  BY <1>3, <1>4, <1>5, <1>6, <1>7, <1>8 DEF RInv

LEMMA SpawnKeepsRInv ==
  ASSUME TypeOK, RInv, NEW g \in Generators, NEW versions \in [Files -> Versions],
         NEW force \in BOOLEAN, Spawn(g, versions, force), versions = index',
         UNCHANGED <<metaFile, config, progress>>, dirty => dirty'
  PROVE  RInv'
<1> DEFINE r == Generation(versions, force)
<1>1. r \in TaskRecords
  BY GenerationFresh DEF Fresh
<1>2. r.pc = "load" /\ r.snapshot = index' /\ r.stamping = {}
  <2>1. Idle \in TaskRecords /\ Idle.stamping = {}
    BY IdleType DEF Idle
  <2> QED
    BY <2>1 DEF Generation, TaskRecords
<1>3. g \in Tasks /\ g # Updater /\ ~Active(g) /\ task' = Started(g, r)
  BY EmbedAssumption DEF Tasks, Spawn
<1> HIDE DEF r
<1> QED
  BY <1>1, <1>2, <1>3, StartKeepsRInv

\* Running tasks are disturbed by a call that leaves lost work behind.
LEMMA DisturbKeepsRInv ==
  ASSUME TypeOK, RInv, task' = Disturbed, dirty'
  PROVE  RInv'
<1>1. \A u \in Tasks : (Solo(u) /\ Repairs(u) /\ Reuses(u) /\ Tells(u) /\ Kinds(u))'
  BY DisturbedStands
<1> QED
  BY <1>1 DEF RInv, Settled, Known

LEMMA IndexCachedKeepsRInv ==
  ASSUME TypeOK, RInv, NEW g \in Generators, IndexCached(g) PROVE RInv'
<1>1. /\ UNCHANGED <<tree, index, stamps, pending, binFile, tmpFile, metaFile, open, config,
                     progress, dirty>>
      /\ SpawnIfNeeded(g, index, task) /\ index \in [Files -> Versions]
  BY DEF IndexCached, treeVars, indexVars, fileVars, processVars, TypeOK
<1>2. CASE NeedsEmbed
  <2>1. Spawn(g, index, FALSE)
    BY <1>1, <1>2 DEF SpawnIfNeeded
  <2> QED
    BY <1>1, <2>1, SpawnKeepsRInv
<1>3. CASE ~NeedsEmbed
  BY <1>1, <1>3, AllStands DEF SpawnIfNeeded
<1> QED
  BY <1>2, <1>3

LEMMA IndexFreshKeepsRInv ==
  ASSUME TypeOK, RInv, NEW g \in Generators, IndexFresh(g) PROVE RInv'
<1>1. PICK force \in BOOLEAN : Spawn(g, tree, force)
  BY DEF IndexFresh
<1>2. tree = index' /\ UNCHANGED <<metaFile, config, progress, dirty>> /\ tree \in [Files -> Versions]
  BY DEF IndexFresh, fileVars, processVars, TypeOK
<1> QED
  BY <1>1, <1>2, SpawnKeepsRInv

\* doctor either finds the index current and leaves it, or says that work is
\* lost.
LEMMA DoctorKeepsRInv ==
  ASSUME TypeOK, RInv, NEW g \in Generators, DoctorRepair(g) PROVE RInv'
<1>1. /\ UNCHANGED <<tree, pending, binFile, tmpFile, metaFile, open, config, progress>>
      /\ dirty' = (dirty \/ ~UpToDate) /\ stamps' = tree
      /\ index' = IF UpToDate THEN index ELSE tree
      /\ EmbeddingsWarn \/ ~UpToDate
  BY DEF DoctorRepair, treeVars, fileVars, processVars
<1>2. index' \in [Files -> Versions]
  BY <1>1 DEF TypeOK
<1>3. CASE EmbeddingsWarn /\ NeedsEmbed
  <2>1. Spawn(g, index', FALSE)
    BY <1>3 DEF DoctorRepair, SpawnIfNeeded
  <2> DEFINE versions == index'
  <2>2. versions \in [Files -> Versions] /\ Spawn(g, versions, FALSE) /\ versions = index'
    BY <1>2, <2>1
  <2> HIDE DEF versions
  <2> QED
    BY <1>1, <2>2, SpawnKeepsRInv
<1>4. CASE ~(EmbeddingsWarn /\ NeedsEmbed)
  <2>1. task' = IF UpToDate THEN task ELSE Disturbed
    BY <1>4 DEF DoctorRepair, SpawnIfNeeded
  <2>2. CASE UpToDate
    <3>1. UNCHANGED <<task, index, stamps, dirty>>
      BY <1>1, <2>1, <2>2 DEF UpToDate, TypeOK
    <3> QED
      BY <1>1, <3>1, AllStands
  <2>3. CASE ~UpToDate
    BY <1>1, <2>1, <2>3, DisturbKeepsRInv
  <2> QED
    BY <2>2, <2>3
<1> QED
  BY <1>3, <1>4

\* A flush hands over the files that changed; a project at rest has right
\* vectors for the others.
LEMMA FlushKeepsRInv == ASSUME TypeOK, RInv, Flush PROVE RInv'
<1>1. PICK flush \in {Batch, Resync} :
        /\ index' = [f \in Files |-> IF f \in flush.stamping THEN tree[f] ELSE index[f]]
        /\ task' = Started(Updater, [Idle EXCEPT !.pc = "load", !.snapshot = index',
                     !.changed = flush.changed, !.removed = flush.removed,
                     !.stamping = flush.stamping])
  BY DEF Flush
<1> DEFINE r == [Idle EXCEPT !.pc = "load", !.snapshot = index', !.changed = flush.changed,
                             !.removed = flush.removed, !.stamping = flush.stamping]
<1>2. /\ index' \in [Files -> Versions] /\ flush.changed \in SUBSET Files
      /\ flush.removed \in SUBSET Files /\ flush.stamping \in SUBSET Files
  BY <1>1 DEF Batch, Resync, Live, TypeOK
<1>3. /\ r \in TaskRecords /\ r.pc = "load" /\ r.snapshot = index' /\ ~r.force
      /\ r.changed = flush.changed /\ r.removed = flush.removed /\ r.stamping = flush.stamping
  <2>1. Idle \in TaskRecords /\ ~Idle.force
    BY IdleType DEF Idle
  <2> QED
    BY <1>2, <2>1 DEF TaskRecords, Running
<1>4. /\ ~Active(Updater) /\ Updater \in Tasks /\ Updater \notin Generators /\ task' = Started(Updater, r)
      /\ pending' = {} /\ UNCHANGED <<tree, stamps, binFile, metaFile, config, progress, dirty>>
  BY <1>1, EmbedAssumption DEF Flush, Tasks, treeVars, fileVars, processVars
<1> HIDE DEF r
<1>5. /\ task'[Updater].snapshot = index' /\ task'[Updater].changed = flush.changed
      /\ task'[Updater].removed = flush.removed /\ task'[Updater].stamping = flush.stamping
  <2>1. task'[Updater] = [r EXCEPT !.alone = AllIdle]
    BY <1>3, <1>4, StartedFields
  <2> QED
    BY <1>3, <2>1 DEF TaskRecords
<1>6. ASSUME AllIdle, ~dirty, metaFile # NoConfig
      PROVE  (Readable(binFile) /\ Groundwork(Updater, binFile))'
  <2>1. /\ Readable(binFile) /\ DOMAIN binFile = Live(index)
        /\ \A f \in Live(index) :
             /\ binFile[f].doc.parsed = index[f]
             /\ f \notin pending /\ stamps[f] = tree[f] => binFile[f].doc.source = tree[f]
    BY <1>6 DEF RInv, Settled
  <2>2. CASE flush = Resync
    <3>1. Live(index') = Live(tree)
      BY <1>1, <2>2 DEF Resync, Live
    <3>2. /\ DOMAIN binFile' \ task'[Updater].removed = {}
          /\ Live(index') \ task'[Updater].changed = {}
      BY <1>4, <1>5, <2>1, <2>2, <3>1 DEF Resync
    <3> QED
      BY <1>4, <1>5, <2>1, <3>2 DEF Readable, Groundwork, Live
  <2>3. CASE flush = Batch
    <3>1. \A f \in Files \ pending : index'[f] = index[f]
      BY <1>1, <2>3 DEF Batch
    <3>2. /\ task'[Updater].changed = pending /\ task'[Updater].stamping = pending
          /\ task'[Updater].removed = pending \cap Live(index)
      BY <1>5, <2>3 DEF Batch
    <3>3. DOMAIN binFile' \ task'[Updater].removed \subseteq Live(index')
      BY <1>4, <2>1, <3>1, <3>2 DEF Live
    <3>4. ASSUME NEW f \in Live(index') \ pending
          PROVE  /\ f \in DOMAIN binFile' \ task'[Updater].removed
                 /\ Right(Updater, f, binFile[f].doc)'
      <4>1. f \in Live(index) /\ index'[f] = index[f]
        BY <3>1 DEF Live
      <4> QED
        BY <1>4, <1>5, <2>1, <3>2, <4>1 DEF Right, Seen
    <3> QED
      BY <1>4, <1>5, <2>1, <3>2, <3>3, <3>4 DEF Readable, Groundwork, Live
  <2> QED
    BY <2>2, <2>3
<1> QED
  BY <1>3, <1>4, <1>6, StartKeepsRInv

-----------------------------------------------------------------------------
(* The steps of a task concern that task: while it runs, no other is alone.*)

\* One claim about a task at a time.
Claims(t) == Solo(t) /\ Repairs(t) /\ Reuses(t) /\ Tells(t) /\ Kinds(t)

LEMMA OthersStand ==
  ASSUME RInv, NEW t \in Tasks, Active(t), NEW u \in Tasks \ {t}, task'[u] = task[u]
  PROVE  Claims(u)'
<1>1. ~(Active(u) /\ task[u].alone)
  BY DEF RInv, Solo
<1>2. ~(Active(u)' /\ task'[u].alone)
  BY <1>1 DEF Active
<1>3. Solo(u)' /\ Repairs(u)'
  BY <1>2 DEF Solo, Repairs
<1>4. Reuses(u)' /\ Tells(u)'
  BY <1>2 DEF Reuses, Tells, Active, BeforeMeta, Running
<1>5. Kinds(u)'
  BY DEF RInv, Kinds, At
<1> QED
  BY <1>3, <1>4, <1>5 DEF Claims

\* While a task goes on nothing is said of a project at rest.
LEMMA StepOn ==
  ASSUME TypeOK, RInv, NEW t \in Tasks, Active(t), Active(t)',
         \A u \in Tasks \ {t} : task'[u] = task[u], Claims(t)',
         UNCHANGED <<config, dirty>>, metaFile' \in {metaFile, config},
         progress' = progress \/ t \in Generators
  PROVE  RInv'
<1>1. \A u \in Tasks : Claims(u)'
  BY OthersStand
<1>2. Settled'
  BY DEF Settled, AllIdle
<1>3. \A g \in Generators : Active(g) => Active(g)'
  BY DEF Active, Tasks
<1>4. Known'
  BY <1>3 DEF RInv, Known
<1> QED
  BY <1>1, <1>2, <1>4 DEF RInv, Claims

\* A step that only moves the task along, as far as its claims see it.
SameHands(t) ==
  /\ task'[t].snapshot = task[t].snapshot /\ task'[t].force = task[t].force
  /\ task'[t].changed = task[t].changed /\ task'[t].removed = task[t].removed
  /\ task'[t].stamping = task[t].stamping /\ task'[t].alone = task[t].alone
  /\ \A u \in Tasks \ {t} : task'[u] = task[u]
SameLoad(t) ==
  /\ task'[t].store = task[t].store /\ task'[t].todo = task[t].todo
  /\ task'[t].total = task[t].total /\ task'[t].stored = task[t].stored

\* The index, the tree and the recorded mtimes stand while a task works.
SameWorld == UNCHANGED <<tree, index, stamps, pending, config, dirty>>

LEMMA SoloGoesOn ==
  ASSUME NEW t \in Tasks, Active(t), Solo(t), SameHands(t), SameWorld,
         task[t].alone =>
           /\ At(t, "plan")' => task'[t].store = Loaded(binFile)'
           /\ At(t, "fill")' => open'[t] = "tmp"
           /\ At(t, "rename")' => tmpFile' = task'[t].store
  PROVE  Solo(t)'
<1>1. ASSUME task[t].alone, NEW u \in Tasks, Active(u)' PROVE u = t
  BY <1>1 DEF Solo, SameHands, Active
<1> QED
  BY <1>1 DEF Solo, SameHands, SameWorld

LEMMA RightStands ==
  ASSUME NEW t \in Tasks, SameHands(t), SameWorld
  PROVE  \A f, doc : Right(t, f, doc)' <=> Right(t, f, doc)
  BY DEF Right, Seen, SameHands, SameWorld

\* A task is moved along.
LEMMA MovedHands ==
  ASSUME TypeOK, NEW t \in Tasks, NEW pc \in Running, NEW failed \in BOOLEAN,
         task' = [task EXCEPT ![t].pc = pc, ![t].failed = failed]
  PROVE  SameHands(t) /\ SameLoad(t) /\ task'[t].pc = pc /\ task'[t].failed = failed
<1>1. task \in [Tasks -> TaskRecords] /\ task[t] \in TaskRecords
  BY DEF TypeOK
<1>2. task'[t] = [task[t] EXCEPT !.pc = pc, !.failed = failed]
  BY <1>1
<1>3. \A u \in Tasks \ {t} : task'[u] = task[u]
  BY <1>1
<1> QED
  BY <1>1, <1>2, <1>3 DEF SameHands, SameLoad, TaskRecords

LEMMA MovedPc ==
  ASSUME TypeOK, NEW t \in Tasks, NEW pc \in Running, task' = [task EXCEPT ![t].pc = pc]
  PROVE  SameHands(t) /\ SameLoad(t) /\ task'[t].pc = pc /\ task'[t].failed = task[t].failed
<1>1. task \in [Tasks -> TaskRecords] /\ task[t].failed \in BOOLEAN
  BY DEF TypeOK, TaskRecords
<1>2. task' = [task EXCEPT ![t].pc = pc, ![t].failed = task[t].failed]
  BY <1>1 DEF TaskRecords
<1> QED
  BY <1>1, <1>2, MovedHands

LEMMA LoadKeepsRInv == ASSUME TypeOK, RInv, NEW t \in Tasks, Load(t) PROVE RInv'
<1>1. task \in [Tasks -> TaskRecords] /\ task[t] \in TaskRecords
  BY DEF TypeOK
<1>2. /\ task'[t] = [task[t] EXCEPT !.pc = "plan", !.store = Loaded(binFile)]
      /\ \A u \in Tasks \ {t} : task'[u] = task[u]
  BY <1>1 DEF Load
<1>3. /\ SameHands(t) /\ task'[t].pc = "plan" /\ task'[t].store = Loaded(binFile)
      /\ task'[t].failed = task[t].failed
  BY <1>1, <1>2 DEF SameHands, TaskRecords
<1>4. /\ SameWorld /\ UNCHANGED <<binFile, tmpFile, metaFile, open, config, dirty, progress>>
      /\ At(t, "load") /\ Active(t) /\ Active(t)'
  BY <1>3 DEF Load, At, Active, SameWorld, treeVars, indexVars, fileVars, processVars, history
<1>5. Solo(t) /\ Repairs(t) /\ Kinds(t)
  BY DEF RInv
<1>6. Solo(t)'
  BY <1>3, <1>4, <1>5, SoloGoesOn DEF At, Loaded, NewStore
<1>7. Repairs(t)'
  <2>1. \A f, doc : Right(t, f, doc)' <=> Right(t, f, doc)
    BY <1>3, <1>4, RightStands
  <2> QED
    BY <1>3, <1>4, <1>5, <2>1 DEF Repairs, SameHands, At, Active, BeforeMeta, Readable, Groundwork, Live
<1>8. Reuses(t)' /\ Tells(t)' /\ Kinds(t)'
  BY <1>3, <1>5 DEF Reuses, Tells, Kinds, SameHands, At, BeforeMeta, Running
<1> QED
  BY <1>2, <1>4, <1>6, <1>7, <1>8, StepOn DEF Claims

\* A plan keeps what it may and asks for the rest.
LEMMA PlannedStore ==
  ASSUME TypeOK, RInv, NEW t \in Tasks, At(t, "plan"), task[t].alone
  PROVE  /\ \A f \in DOMAIN Kept(t) : Kept(t)[f] = Loaded(binFile)[f]
         /\ DOMAIN Kept(t) =
              IF task[t].force \/ ~Compatible THEN {}
              ELSE IF t = Updater THEN DOMAIN Loaded(binFile) \ task[t].removed
                   ELSE DOMAIN Loaded(binFile) \cap Live(task[t].snapshot)
<1>1. task[t].store = Loaded(binFile) /\ task[t].store \in Stores
  BY DEF RInv, Solo, At, Active, TypeOK, TaskRecords
<1>2. Reusable(t) \in Stores
  BY <1>1, EmptyTypes DEF Reusable
<1>3. DOMAIN Reusable(t) = IF task[t].force \/ ~Compatible THEN {} ELSE DOMAIN Loaded(binFile)
  BY <1>1 DEF Reusable, NewStore
<1> DEFINE ids == IF t = Updater THEN DOMAIN Reusable(t) \ task[t].removed
                  ELSE DOMAIN Reusable(t) \cap Live(task[t].snapshot)
<1>4. ids \in SUBSET (DOMAIN Reusable(t)) /\ Kept(t) = Restrict(Reusable(t), ids)
  BY DEF Kept
<1> HIDE DEF ids
<1>5. DOMAIN Kept(t) = ids /\ \A f \in ids : Kept(t)[f] = Reusable(t)[f]
  BY <1>2, <1>4, RestrictStore
<1>6. ids = IF task[t].force \/ ~Compatible THEN {}
            ELSE IF t = Updater THEN DOMAIN Loaded(binFile) \ task[t].removed
                 ELSE DOMAIN Loaded(binFile) \cap Live(task[t].snapshot)
  BY <1>3 DEF ids
<1>7. \A f \in ids : Reusable(t)[f] = Loaded(binFile)[f]
  BY <1>1, <1>6 DEF Reusable
<1> QED
  BY <1>5, <1>6, <1>7

LEMMA PlanComplete ==
  ASSUME TypeOK, RInv, NEW t \in Tasks, At(t, "plan"), task[t].alone, ~task[t].failed,
         t \in Generators \/ ~dirty
  PROVE  /\ DOMAIN Kept(t) \subseteq Live(task[t].snapshot)
         /\ \A f \in Live(task[t].snapshot) \ ToEmbed(t) :
              f \in DOMAIN Kept(t) /\ Right(t, f, Kept(t)[f].doc)
<1> DEFINE live == Live(task[t].snapshot)
<1>1. /\ \A f \in DOMAIN Kept(t) : Kept(t)[f] = Loaded(binFile)[f]
      /\ DOMAIN Kept(t) =
           IF task[t].force \/ ~Compatible THEN {}
           ELSE IF t = Updater THEN DOMAIN Loaded(binFile) \ task[t].removed
                ELSE DOMAIN Loaded(binFile) \cap live
  BY PlannedStore
<1>2. Repairs(t) /\ Kinds(t) /\ Active(t)
  BY DEF RInv, At, Active
<1>3. ASSUME NEW f \in Candidates(t) \ ToEmbed(t)
      PROVE  f \in DOMAIN Kept(t) /\ Right(t, f, Kept(t)[f].doc)
  BY <1>3 DEF ToEmbed, OutOfDate, Document, Right
<1>4. CASE t = Updater /\ Compatible
  <2>1. metaFile # NoConfig /\ ~dirty /\ ~task[t].force
    BY <1>2, <1>4, EmbedAssumption DEF Compatible, Kinds, TypeOK
  <2>2. Readable(binFile) /\ Groundwork(t, binFile)
    BY <1>2, <1>4, <2>1 DEF Repairs, At
  <2>3. Loaded(binFile) = binFile /\ DOMAIN Kept(t) = DOMAIN binFile \ task[t].removed
    BY <1>1, <1>4, <2>1, <2>2 DEF Readable, Loaded
  <2>4. ASSUME NEW f \in live \ task[t].changed
        PROVE  f \in DOMAIN Kept(t) /\ Right(t, f, Kept(t)[f].doc)
    BY <1>1, <2>2, <2>3 DEF Groundwork
  <2>5. \A f \in live \cap task[t].changed : f \in Candidates(t)
    BY <1>4 DEF Candidates
  <2> QED
    BY <1>3, <2>2, <2>3, <2>4, <2>5 DEF Groundwork
<1>5. CASE ~(t = Updater /\ Compatible)
  <2>1. Candidates(t) = live
    BY <1>5 DEF Candidates
  <2>2. DOMAIN Kept(t) \subseteq live
    BY <1>1, <1>5
  <2> QED
    BY <1>3, <2>1, <2>2
<1> QED
  BY <1>4, <1>5

LEMMA PlanKeepsRInv == ASSUME TypeOK, RInv, NEW t \in Tasks, Plan(t) PROVE RInv'
<1> DEFINE docs == [f \in ToEmbed(t) |-> Document(t, f)]
<1>1. task \in [Tasks -> TaskRecords] /\ task[t] \in TaskRecords
  BY DEF TypeOK
<1>2. /\ task'[t] = [task[t] EXCEPT !.pc = IF ToEmbed(t) = {} THEN "open" ELSE "embed",
                       !.store = Kept(t), !.todo = docs, !.total = Cardinality(ToEmbed(t)),
                       !.stored = 0]
      /\ \A u \in Tasks \ {t} : task'[u] = task[u]
  BY <1>1 DEF Plan
<1>3. /\ SameHands(t) /\ task'[t].pc = (IF ToEmbed(t) = {} THEN "open" ELSE "embed")
      /\ task'[t].store = Kept(t) /\ task'[t].todo = docs /\ task'[t].stored = 0
      /\ task'[t].total = Cardinality(ToEmbed(t)) /\ task'[t].failed = task[t].failed
  BY <1>1, <1>2 DEF SameHands, TaskRecords
<1>4. DOMAIN docs = ToEmbed(t) /\ \A f \in ToEmbed(t) : docs[f] = Document(t, f)
  OBVIOUS
<1> HIDE DEF docs
<1>5. /\ SameWorld /\ UNCHANGED <<binFile, tmpFile, metaFile, open, config, dirty>>
      /\ At(t, "plan") /\ Active(t) /\ Active(t)'
      /\ progress' = progress \/ t \in Generators
  <2>1. SameWorld /\ UNCHANGED <<binFile, tmpFile, metaFile, open, config, dirty>>
    BY DEF Plan, SameWorld, treeVars, indexVars, fileVars, processVars, history
  <2>2. At(t, "plan") /\ Active(t)
    BY DEF Plan, At, Active
  <2>3. Active(t)'
    BY <1>3 DEF Active
  <2>4. progress' = progress \/ t \in Generators
    BY DEF Plan
  <2> QED
    BY <2>1, <2>2, <2>3, <2>4
<1>6. Solo(t) /\ Kinds(t)
  BY DEF RInv
<1>7. Solo(t)'
  BY <1>3, <1>5, <1>6, SoloGoesOn DEF At
<1>8. ToEmbed(t) \subseteq Live(task[t].snapshot) /\ \A f : Right(t, f, Document(t, f))
  BY DEF ToEmbed, Candidates, Document, Right
<1>9. Repairs(t)'
  <2>1. \A f, doc : Right(t, f, doc)' <=> Right(t, f, doc)
    BY <1>3, <1>5, RightStands
  <2> SUFFICES ASSUME task[t].alone, ~task[t].failed, t \in Generators \/ ~dirty
               PROVE  Complete(t, task[t].store)'
    BY <1>3, <1>5 DEF Repairs, SameHands, At
  <2>2. /\ DOMAIN Kept(t) \subseteq Live(task[t].snapshot)
        /\ \A f \in Live(task[t].snapshot) \ ToEmbed(t) :
             f \in DOMAIN Kept(t) /\ Right(t, f, Kept(t)[f].doc)
    BY <1>5, PlanComplete
  <2> QED
    BY <1>3, <1>4, <1>8, <2>1, <2>2 DEF Complete, SameHands, Live
<1>10. Reuses(t)'
  <2> SUFFICES ASSUME t \in Generators, task[t].alone, ~task[t].force, Compatible
               PROVE  DOMAIN Loaded(binFile) \cap Live(task[t].snapshot) \subseteq DOMAIN Kept(t)
    BY <1>3, <1>5 DEF Reuses, SameHands, Compatible, Loaded, NewStore, Live
  <2>1. t # Updater
    BY EmbedAssumption
  <2> QED
    BY <1>5, <2>1, PlannedStore
<1>11. Tells(t)'
  <2> SUFFICES ASSUME t \in Generators, task[t].alone
               PROVE  /\ Live(task[t].snapshot) \subseteq DOMAIN Kept(t) \cup ToEmbed(t)
                      /\ Cardinality(ToEmbed(t)) > 0 =>
                           /\ progress' # NoProgress /\ progress'.stored = 0
                           /\ progress'.total = Cardinality(ToEmbed(t))
    BY <1>3, <1>4 DEF Tells, SameHands, Live
  <2>1. Candidates(t) = Live(task[t].snapshot)
    BY EmbedAssumption DEF Candidates
  <2>2. Live(task[t].snapshot) \subseteq DOMAIN Kept(t) \cup ToEmbed(t)
    BY <2>1 DEF ToEmbed, OutOfDate
  <2>3. ASSUME Cardinality(ToEmbed(t)) > 0
        PROVE  /\ progress' # NoProgress /\ progress'.stored = 0
               /\ progress'.total = Cardinality(ToEmbed(t))
    <3>1. ToEmbed(t) # {}
      BY <2>3, FS_EmptySet
    <3>2. progress' = [stored |-> 0, total |-> Cardinality(ToEmbed(t)), finished |-> FALSE]
      BY <3>1 DEF Plan
    <3>3. Cardinality(ToEmbed(t)) \in 0 .. Cardinality(Files) /\ 0 \in 0 .. Cardinality(Files)
      BY <1>8, FilesCounted, ZeroCounts DEF Live
    <3>4. progress' \in Progress
      BY <3>2, <3>3 DEF Progress
    <3> QED
      BY <3>2, <3>4, ProgressAssumption
  <2> QED
    BY <2>2, <2>3
<1>12. Kinds(t)'
  BY <1>3, <1>4, <1>6 DEF Kinds, SameHands, At
<1> QED
  BY <1>2, <1>5, <1>7, <1>9, <1>10, <1>11, <1>12, StepOn DEF Claims

-----------------------------------------------------------------------------
(* One document: its vector joins the store, or the task has failed.       *)

LEMMA RestrictedTodo ==
  ASSUME NEW d, NEW ids \in SUBSET (DOMAIN d)
  PROVE  DOMAIN Restrict(d, ids) = ids /\ \A f \in ids : Restrict(d, ids)[f] = d[f]
  BY DEF Restrict

\* What an answer leaves in the task's hands.
LEMMA EmbedHands ==
  ASSUME TypeOK, NEW t \in Tasks, NEW f \in Files, NEW ok \in BOOLEAN, EmbedOne(t, f, ok)
  PROVE  /\ SameHands(t) /\ f \in DOMAIN task[t].todo
         /\ DOMAIN task'[t].todo = DOMAIN task[t].todo \ {f}
         /\ \A id \in DOMAIN task'[t].todo : task'[t].todo[id] = task[t].todo[id]
         /\ task'[t].pc = (IF DOMAIN task'[t].todo = {} THEN "open" ELSE "embed")
         /\ task'[t].failed = (task[t].failed \/ ~ok)
         /\ task'[t].store = (IF ok THEN Stored(task[t].store, f, task[t].todo[f])
                                    ELSE task[t].store)
         /\ task'[t].stored = Counted(task[t].stored, ok) /\ task'[t].total = task[t].total
<1> DEFINE todo == task[t].todo
           left == DOMAIN todo \ {f}
           pc == IF left = {} THEN "open" ELSE "embed"
           store == IF ok THEN Stored(task[t].store, f, todo[f]) ELSE task[t].store
           done == Counted(task[t].stored, ok)
           r == [task[t] EXCEPT !.pc = pc, !.todo = Restrict(todo, left), !.stored = done,
                                !.failed = task[t].failed \/ ~ok, !.store = store]
<1>1. task \in [Tasks -> TaskRecords] /\ task[t] \in TaskRecords
  BY DEF TypeOK
<1>2. task' = [task EXCEPT ![t] = r] /\ f \in DOMAIN todo
  BY <1>1 DEF EmbedOne, Skipped
<1>3. DOMAIN Restrict(todo, left) = left /\ \A id \in left : Restrict(todo, left)[id] = todo[id]
  <2> HIDE DEF todo
  <2> QED
    BY RestrictedTodo
<1> HIDE DEF pc, left, store, done
<1>4. /\ r.pc = pc /\ r.todo = Restrict(todo, left) /\ r.stored = done /\ r.store = store
      /\ r.failed = (task[t].failed \/ ~ok) /\ r.total = task[t].total
      /\ r.snapshot = task[t].snapshot /\ r.force = task[t].force /\ r.changed = task[t].changed
      /\ r.removed = task[t].removed /\ r.stamping = task[t].stamping /\ r.alone = task[t].alone
  <2> HIDE DEF todo
  <2> QED
    BY <1>1 DEF TaskRecords
<1> HIDE DEF r
<1>5. task'[t] = r /\ \A u \in Tasks \ {t} : task'[u] = task[u]
  BY <1>1, <1>2
<1>6. SameHands(t)
  BY <1>4, <1>5 DEF SameHands
<1> QED
  BY <1>2, <1>3, <1>4, <1>5, <1>6 DEF pc, left, store, done

LEMMA EmbedComplete ==
  ASSUME TypeOK, NEW t \in Tasks, NEW f \in Files, EmbedOne(t, f, TRUE), SameWorld,
         Complete(t, task[t].store)
  PROVE  Complete(t, task[t].store)'
<1>1. /\ SameHands(t) /\ f \in DOMAIN task[t].todo
      /\ DOMAIN task'[t].todo = DOMAIN task[t].todo \ {f}
      /\ \A id \in DOMAIN task'[t].todo : task'[t].todo[id] = task[t].todo[id]
      /\ task'[t].store = Stored(task[t].store, f, task[t].todo[f])
  BY EmbedHands
<1>2. /\ DOMAIN task'[t].store = DOMAIN task[t].store \cup {f}
      /\ task'[t].store[f].doc = task[t].todo[f]
      /\ \A id \in DOMAIN task[t].store : id # f => task'[t].store[id] = task[t].store[id]
  BY <1>1 DEF Stored
<1>3. \A id, doc : Right(t, id, doc)' <=> Right(t, id, doc)
  BY <1>1, RightStands
<1>4. task'[t].snapshot = task[t].snapshot
  BY <1>1 DEF SameHands
<1>5. /\ DOMAIN task'[t].store \subseteq Live(task'[t].snapshot)
      /\ DOMAIN task'[t].todo \subseteq Live(task'[t].snapshot)
  BY <1>1, <1>2, <1>4 DEF Complete
<1>6. ASSUME NEW id \in Live(task'[t].snapshot)
      PROVE  /\ id \in DOMAIN task'[t].todo => Right(t, id, task[t].todo[id])'
             /\ id \notin DOMAIN task'[t].todo
                  => id \in DOMAIN task'[t].store /\ Right(t, id, task[t].store[id].doc)'
  <2>1. id \in Live(task[t].snapshot)
    BY <1>4
  <2>2. CASE id \in DOMAIN task[t].todo \ {f}
    BY <1>1, <1>3, <2>1, <2>2 DEF Complete
  <2>3. CASE id = f
    BY <1>1, <1>2, <1>3, <2>1, <2>3 DEF Complete
  <2>4. CASE id \notin DOMAIN task[t].todo /\ id # f
    BY <1>1, <1>2, <1>3, <2>1, <2>4 DEF Complete
  <2> QED
    BY <2>2, <2>3, <2>4
<1> QED
  BY <1>5, <1>6 DEF Complete, Live

LEMMA EmbedKeepsRInv ==
  ASSUME TypeOK, Tallies, RInv, NEW t \in Tasks, NEW f \in Files, NEW ok \in BOOLEAN,
         EmbedOne(t, f, ok)
  PROVE  RInv'
<1>1. /\ SameHands(t) /\ f \in DOMAIN task[t].todo
      /\ DOMAIN task'[t].todo = DOMAIN task[t].todo \ {f}
      /\ \A id \in DOMAIN task'[t].todo : task'[t].todo[id] = task[t].todo[id]
      /\ task'[t].pc = (IF DOMAIN task'[t].todo = {} THEN "open" ELSE "embed")
      /\ task'[t].failed = (task[t].failed \/ ~ok)
      /\ task'[t].store = (IF ok THEN Stored(task[t].store, f, task[t].todo[f])
                                 ELSE task[t].store)
      /\ task'[t].stored = Counted(task[t].stored, ok) /\ task'[t].total = task[t].total
  BY EmbedHands
<1>2. SameWorld /\ UNCHANGED <<binFile, tmpFile, metaFile, open, config, dirty>>
  BY DEF EmbedOne, SameWorld, treeVars, indexVars, fileVars, processVars, history
<1>3. At(t, "embed") /\ Active(t) /\ Active(t)'
  BY <1>1 DEF EmbedOne, At, Active
<1>4. progress' = IF t \in Generators
                    THEN [stored |-> task'[t].stored, total |-> task[t].total, finished |-> FALSE]
                    ELSE progress
  BY <1>1 DEF EmbedOne
<1>5. Solo(t) /\ Repairs(t) /\ Reuses(t) /\ Tells(t) /\ Kinds(t)
  BY DEF RInv
<1>6. Solo(t)'
  BY <1>1, <1>2, <1>3, <1>5, SoloGoesOn DEF At
<1>7. Repairs(t)'
  <2> SUFFICES ASSUME task[t].alone, ~task[t].failed, ok, t \in Generators \/ ~dirty
               PROVE  Complete(t, task[t].store)'
    BY <1>1, <1>2 DEF Repairs, SameHands, At
  <2>1. Complete(t, task[t].store)
    BY <1>3, <1>5 DEF Repairs, At, BeforeMeta
  <2>2. ok = TRUE
    OBVIOUS
  <2> QED
    BY <1>2, <2>1, <2>2, EmbedComplete
<1>8. DOMAIN task[t].store \subseteq DOMAIN task'[t].store
      /\ (ok => DOMAIN task'[t].store = DOMAIN task[t].store \cup {f})
  BY <1>1 DEF Stored
<1>9. Reuses(t)'
  BY <1>1, <1>2, <1>3, <1>5, <1>8 DEF Reuses, SameHands, At, BeforeMeta, Compatible, Loaded,
     NewStore, Live
<1>10. Tells(t)'
  <2> SUFFICES ASSUME t \in Generators, task[t].alone
               PROVE  /\ \/ Live(task[t].snapshot) \subseteq DOMAIN task'[t].store \cup DOMAIN task'[t].todo
                         \/ task'[t].stored + Cardinality(DOMAIN task'[t].todo) < task'[t].total
                      /\ progress' # NoProgress /\ progress'.stored = task'[t].stored
                      /\ progress'.total = task'[t].total
    BY <1>1 DEF Tells, SameHands, Live
  <2>1. task[t] \in TaskRecords /\ DOMAIN task[t].todo \in SUBSET Files
    <3>1. task[t] \in TaskRecords
      BY DEF TypeOK
    <3> QED
      BY <3>1, TodoType DEF TaskRecords
  <2>2. /\ Cardinality(DOMAIN task[t].todo) = Cardinality(DOMAIN task'[t].todo) + 1
        /\ Cardinality(DOMAIN task'[t].todo) \in Nat
    <3>1. IsFiniteSet(DOMAIN task[t].todo) /\ Cardinality(DOMAIN task[t].todo) \in Nat
      BY <2>1, FilesCounted
    <3>2. Cardinality(DOMAIN task'[t].todo) = Cardinality(DOMAIN task[t].todo) - 1
      <4> DEFINE ids == DOMAIN task[t].todo
      <4>1. IsFiniteSet(ids) /\ f \in ids /\ DOMAIN task'[t].todo = ids \ {f}
        BY <1>1, <3>1
      <4> HIDE DEF ids
      <4>2. Cardinality(ids \ {f}) = Cardinality(ids) - 1
        BY <4>1, FS_RemoveElement
      <4> QED
        BY <4>1, <4>2 DEF ids
    <3>3. Cardinality(DOMAIN task'[t].todo) \in Nat
      <4>1. DOMAIN task'[t].todo \in SUBSET Files
        BY <1>1, <2>1
      <4> QED
        BY <4>1, FilesCounted
    <3> QED
      BY <3>1, <3>2, <3>3
  <2>3. /\ task[t].stored \in Nat /\ task[t].total \in 0 .. Cardinality(Files)
        /\ task[t].stored + Cardinality(DOMAIN task[t].todo) <= task[t].total
    BY <2>1 DEF Tallies, TaskRecords
  <2>4. task'[t].stored = task[t].stored + IF ok THEN 1 ELSE 0
    BY <1>1 DEF Counted
  <2>5. \/ Live(task[t].snapshot) \subseteq DOMAIN task[t].store \cup DOMAIN task[t].todo
        \/ task[t].stored + Cardinality(DOMAIN task[t].todo) < task[t].total
    BY <1>3, <1>5 DEF Tells, At, Running
  <2>6. \/ Live(task[t].snapshot) \subseteq DOMAIN task'[t].store \cup DOMAIN task'[t].todo
        \/ task'[t].stored + Cardinality(DOMAIN task'[t].todo) < task'[t].total
    <3>1. CASE ok /\ Live(task[t].snapshot) \subseteq DOMAIN task[t].store \cup DOMAIN task[t].todo
      BY <1>1, <1>8, <3>1
    <3>2. CASE ~ok
      BY <1>1, <2>2, <2>3, <2>4, <3>2
    <3>3. CASE ok /\ task[t].stored + Cardinality(DOMAIN task[t].todo) < task[t].total
      BY <1>1, <2>2, <2>3, <2>4, <3>3
    <3> QED
      BY <2>5, <3>1, <3>2, <3>3
  <2>7. progress' \in Progress
    <3>1. Cardinality(Files) \in Nat
      BY EmbedAssumption, FS_CardinalityType
    <3>2. task'[t].stored \in 0 .. Cardinality(Files)
      BY <2>2, <2>3, <2>4, <3>1
    <3> QED
      BY <1>4, <2>3, <3>2 DEF Progress
  <2> QED
    BY <1>1, <1>4, <2>6, <2>7, ProgressAssumption
<1>11. Kinds(t)'
  BY <1>1, <1>5 DEF Kinds, SameHands, At
<1>12. \A u \in Tasks \ {t} : task'[u] = task[u]
  BY <1>1 DEF SameHands
<1>13. progress' = progress \/ t \in Generators
  BY <1>4
<1> QED
  BY <1>2, <1>3, <1>6, <1>7, <1>9, <1>10, <1>11, <1>12, <1>13, StepOn DEF Claims

-----------------------------------------------------------------------------
(* The save: what the writer holds, then the file it fills, then the file  *)
(* it renames are the same store.                                          *)

\* What is said of the store in hand goes on while it is carried along.
LEMMA Carried ==
  ASSUME NEW t \in Tasks, SameHands(t), SameLoad(t), SameWorld
  PROVE  /\ Complete(t, task[t].store)' <=> Complete(t, task[t].store)
         /\ (binFile' = binFile => (Complete(t, binFile)' <=> Complete(t, binFile)))
         /\ (binFile' = task[t].store => (Complete(t, binFile)' <=> Complete(t, task[t].store)))
<1>1. \A f, doc : Right(t, f, doc)' <=> Right(t, f, doc)
  BY RightStands
<1> QED
  BY <1>1 DEF Complete, SameHands, SameLoad, Live

LEMMA CarriedOn ==
  ASSUME TypeOK, RInv, NEW t \in Tasks, SameHands(t), SameLoad(t), SameWorld,
         task[t].pc \in BeforeMeta, task'[t].pc \in {"fill", "rename"},
         DOMAIN task[t].todo = {}, task'[t].failed = task[t].failed, UNCHANGED metaFile,
         task[t].alone => binFile' = binFile,
         progress' = progress
  PROVE  Repairs(t)' /\ Reuses(t)' /\ Tells(t)' /\ Kinds(t)'
<1>1. Solo(t) /\ Repairs(t) /\ Reuses(t) /\ Tells(t) /\ Kinds(t)
  BY DEF RInv
<1>2. Active(t)
  BY DEF Active, BeforeMeta
<1>3. Repairs(t)'
  <2> SUFFICES ASSUME task[t].alone, ~task[t].failed, t \in Generators \/ ~dirty
               PROVE  Complete(t, task[t].store)'
    BY DEF Repairs, SameHands, SameWorld, At, BeforeMeta
  <2> QED
    BY <1>1, <1>2, Carried DEF Repairs
<1>4. Reuses(t)'
  BY <1>1 DEF Reuses, SameHands, SameLoad, SameWorld, BeforeMeta, Compatible, Loaded, NewStore, Live
<1>5. Tells(t)'
  BY <1>1 DEF Tells, SameHands, SameLoad, BeforeMeta, Running, Live
<1>6. Kinds(t)'
  BY <1>1 DEF Kinds, SameHands, SameLoad, At
<1> QED
  BY <1>3, <1>4, <1>5, <1>6

LEMMA OpenKeepsRInv == ASSUME TypeOK, RInv, NEW t \in Tasks, Open(t) PROVE RInv'
<1>1. SameHands(t) /\ SameLoad(t) /\ task'[t].pc = "fill" /\ task'[t].failed = task[t].failed
  BY MovedPc DEF Open, Running
<1>2. SameWorld /\ UNCHANGED <<binFile, metaFile, progress, config, dirty>>
  BY DEF Open, SameWorld, treeVars, indexVars, processVars, history
<1>3. open'[t] = "tmp"
  BY DEF Open, TypeOK
<1>4. task[t].pc = "open" /\ Active(t) /\ Active(t)'
  BY <1>1 DEF Open, At, Active
<1>5. Solo(t) /\ Kinds(t)
  BY DEF RInv
<1>6. Solo(t)'
  BY <1>1, <1>2, <1>3, <1>4, <1>5, SoloGoesOn DEF At
<1>7. Repairs(t)' /\ Reuses(t)' /\ Tells(t)' /\ Kinds(t)'
  BY <1>1, <1>2, <1>4, <1>5, CarriedOn DEF Kinds, BeforeMeta
<1>8. \A u \in Tasks \ {t} : task'[u] = task[u]
  BY <1>1 DEF SameHands
<1> QED
  BY <1>2, <1>4, <1>6, <1>7, <1>8, StepOn DEF Claims

LEMMA FillKeepsRInv == ASSUME TypeOK, RInv, NEW t \in Tasks, Fill(t) PROVE RInv'
<1>1. SameHands(t) /\ SameLoad(t) /\ task'[t].pc = "rename" /\ task'[t].failed = task[t].failed
  BY MovedPc DEF Fill, Running
<1>2. SameWorld /\ UNCHANGED <<metaFile, progress, config, dirty>>
  BY DEF Fill, SameWorld, treeVars, indexVars, processVars, history
<1>3. task[t].pc = "fill" /\ Active(t) /\ Active(t)'
  BY <1>1 DEF Fill, At, Active
<1>4. Solo(t) /\ Kinds(t)
  BY DEF RInv
<1>5. task[t].alone => tmpFile' = task'[t].store /\ binFile' = binFile
  <2>1. task[t].alone => open[t] = "tmp"
    BY <1>3, <1>4 DEF Solo, At
  <2> QED
    BY <1>1, <2>1 DEF Fill, SameLoad
<1>6. Solo(t)'
  BY <1>1, <1>2, <1>3, <1>4, <1>5, SoloGoesOn DEF At
<1>7. Repairs(t)' /\ Reuses(t)' /\ Tells(t)' /\ Kinds(t)'
  BY <1>1, <1>2, <1>3, <1>4, <1>5, CarriedOn DEF Kinds, BeforeMeta
<1>8. \A u \in Tasks \ {t} : task'[u] = task[u]
  BY <1>1 DEF SameHands
<1> QED
  BY <1>2, <1>3, <1>6, <1>7, <1>8, StepOn DEF Claims

\* Once the file is renamed nothing is said of the store in hand.
LEMMA RenameKeepsRInv == ASSUME TypeOK, RInv, NEW t \in Tasks, Rename(t) PROVE RInv'
<1>1. SameHands(t) /\ SameLoad(t) /\ task'[t].pc = "meta" /\ task'[t].failed = task[t].failed
  BY MovedPc DEF Rename, Running
<1>2. SameWorld /\ UNCHANGED <<metaFile, progress, config, dirty>> /\ binFile' = tmpFile
  BY DEF Rename, SameWorld, treeVars, indexVars, processVars, history
<1>3. task[t].pc = "rename" /\ Active(t) /\ Active(t)'
  BY <1>1 DEF Rename, At, Active
<1>4. Solo(t) /\ Repairs(t) /\ Tells(t) /\ Kinds(t)
  BY DEF RInv
<1>5. task[t].alone => binFile' = task[t].store
  BY <1>2, <1>3, <1>4 DEF Solo, At
<1>6. Solo(t)'
  BY <1>1, <1>2, <1>3, <1>4, SoloGoesOn DEF At
<1>7. Repairs(t)'
  <2> SUFFICES ASSUME task[t].alone, ~task[t].failed, t \in Generators \/ ~dirty
               PROVE  Readable(binFile)' /\ Complete(t, binFile)'
    BY <1>1, <1>2 DEF Repairs, SameHands, At, BeforeMeta
  <2>1. Complete(t, task[t].store)
    BY <1>3, <1>4 DEF Repairs, Active, BeforeMeta
  <2>2. Complete(t, binFile)'
    BY <1>1, <1>2, <1>5, <2>1, Carried
  <2>3. task[t].store \in Stores
    BY DEF TypeOK, TaskRecords
  <2>4. Readable(binFile)'
    BY <1>5, <2>3, FileAssumption DEF Readable
  <2> QED
    BY <2>2, <2>4
<1>8. Reuses(t)'
  BY <1>1 DEF Reuses, BeforeMeta
<1>9. Tells(t)' /\ Kinds(t)'
  BY <1>1, <1>2, <1>3, <1>4 DEF Tells, Kinds, SameHands, SameLoad, At, Running, Live
<1>10. \A u \in Tasks \ {t} : task'[u] = task[u]
  BY <1>1 DEF SameHands
<1> QED
  BY <1>2, <1>3, <1>6, <1>7, <1>8, <1>9, <1>10, StepOn DEF Claims

LEMMA SaveMetaKeepsRInv == ASSUME TypeOK, RInv, NEW t \in Tasks, SaveMeta(t) PROVE RInv'
<1>1. SameHands(t) /\ SameLoad(t) /\ task'[t].pc = "finish" /\ task'[t].failed = task[t].failed
  BY MovedPc DEF SaveMeta, Running
<1>2. SameWorld /\ UNCHANGED <<binFile, progress, config, dirty>> /\ metaFile' = config
  BY DEF SaveMeta, SameWorld, treeVars, indexVars, processVars, history
<1>3. task[t].pc = "meta" /\ Active(t) /\ Active(t)'
  BY <1>1 DEF SaveMeta, At, Active
<1>4. Solo(t) /\ Repairs(t) /\ Tells(t) /\ Kinds(t)
  BY DEF RInv
<1>5. Solo(t)'
  BY <1>1, <1>2, <1>3, <1>4, SoloGoesOn DEF At
<1>6. Repairs(t)'
  <2> SUFFICES ASSUME task[t].alone, ~task[t].failed, t \in Generators \/ ~dirty
               PROVE  Readable(binFile)' /\ Complete(t, binFile)'
    BY <1>1, <1>2 DEF Repairs, SameHands, At, BeforeMeta
  <2>1. Readable(binFile) /\ Complete(t, binFile)
    BY <1>3, <1>4 DEF Repairs, Active
  <2>2. Complete(t, binFile)'
    BY <1>1, <1>2, <2>1, Carried
  <2> QED
    BY <1>2, <2>1, <2>2 DEF Readable
<1>7. Reuses(t)'
  BY <1>1 DEF Reuses, BeforeMeta
<1>8. Tells(t)' /\ Kinds(t)'
  BY <1>1, <1>2, <1>3, <1>4 DEF Tells, Kinds, SameHands, SameLoad, At, Running, Live
<1>9. \A u \in Tasks \ {t} : task'[u] = task[u]
  BY <1>1 DEF SameHands
<1> QED
  BY <1>2, <1>3, <1>5, <1>6, <1>7, <1>8, <1>9, StepOn DEF Claims

LEMMA SaveFailsKeepsRInv == ASSUME TypeOK, RInv, NEW t \in Tasks, SaveFails(t) PROVE RInv'
<1>1. SameHands(t) /\ SameLoad(t) /\ task'[t].pc = "finish" /\ task'[t].failed
  BY MovedHands DEF SaveFails, Running
<1>2. SameWorld /\ UNCHANGED <<metaFile, progress, config, dirty>>
  BY DEF SaveFails, SameWorld, treeVars, indexVars, fileVars, processVars
<1>3. task[t].pc \in {"rename", "open", "meta"} /\ Active(t) /\ Active(t)'
  BY <1>1 DEF SaveFails, At, Active
<1>4. Solo(t) /\ Tells(t) /\ Kinds(t)
  BY DEF RInv
<1>5. Solo(t)'
  BY <1>1, <1>2, <1>3, <1>4, SoloGoesOn DEF At
<1>6. Repairs(t)' /\ Reuses(t)'
  BY <1>1 DEF Repairs, Reuses, BeforeMeta
<1>7. Tells(t)' /\ Kinds(t)'
  BY <1>1, <1>2, <1>3, <1>4 DEF Tells, Kinds, SameHands, SameLoad, At, Running, Live
<1>8. \A u \in Tasks \ {t} : task'[u] = task[u]
  BY <1>1 DEF SameHands
<1> QED
  BY <1>2, <1>3, <1>5, <1>6, <1>7, <1>8, StepOn DEF Claims

-----------------------------------------------------------------------------
(* The end of a task.  One that was alone and did not fail leaves a store  *)
(* that is right for the whole index.                                      *)

LEMMA FinishKeepsRInv == ASSUME TypeOK, RInv, NEW t \in Tasks, Finish(t) PROVE RInv'
<1>1. task'[t] = Idle /\ \A u \in Tasks \ {t} : task'[u] = task[u]
  BY DEF Finish, TypeOK
<1>2. /\ UNCHANGED <<tree, index, pending, binFile, tmpFile, metaFile, open, config>>
      /\ stamps' = StampsAfter(t) /\ task[t].pc = "finish" /\ Active(t)
      /\ dirty' = (IF t \in Generators THEN ~Undisturbed(t) ELSE dirty \/ ~Undisturbed(t))
      /\ progress' # NoProgress => progress # NoProgress
  BY DEF Finish, treeVars, fileVars, processVars, At, Active
<1>3. task'[t].pc = "idle" /\ task'[t].stamping = {} /\ ~task'[t].force
  BY <1>1 DEF Idle
<1>4. Claims(t)'
  <2>1. ~Active(t)'
    BY <1>3 DEF Active
  <2>2. Solo(t)' /\ Repairs(t)'
    BY <2>1 DEF Solo, Repairs
  <2>3. Reuses(t)' /\ Tells(t)' /\ Kinds(t)'
    BY <1>3 DEF Reuses, Tells, Kinds, At, BeforeMeta, Running
  <2> QED
    BY <2>2, <2>3 DEF Claims
<1>5. \A u \in Tasks \ {t} : Claims(u)'
  BY <1>1, <1>2, OthersStand
<1>6. Solo(t) /\ Repairs(t) /\ Kinds(t)
  BY DEF RInv
<1>7. ASSUME ~dirty', AllIdle'
      PROVE  /\ task[t].alone /\ ~task[t].failed /\ task[t].snapshot = index
             /\ Readable(binFile) /\ Complete(t, binFile) /\ metaFile = config
  <2>1. task[t].alone /\ ~task[t].failed /\ (t \in Generators \/ ~dirty)
    BY <1>2, <1>7 DEF Undisturbed
  <2> QED
    BY <1>2, <1>6, <2>1 DEF Solo, Repairs, At
<1>8. Settled'
  <2> SUFFICES ASSUME AllIdle', ~dirty'
               PROVE  /\ Readable(binFile)' /\ DOMAIN binFile' = Live(index')
                      /\ \A f \in Live(index') :
                           /\ binFile'[f].doc.parsed = index'[f]
                           /\ f \notin pending' /\ stamps'[f] = tree'[f]
                                => binFile'[f].doc.source = tree'[f]
    BY DEF Settled, Live
  <2>1. Readable(binFile) /\ Complete(t, binFile) /\ task[t].snapshot = index
    BY <1>7
  <2>2. DOMAIN task[t].todo = {}
    BY <1>2, <1>6 DEF Kinds
  <2>3. DOMAIN binFile = Live(index)
    BY <2>1, <2>2 DEF Complete
  <2>4. ASSUME NEW f \in Live(index)
        PROVE  /\ binFile[f].doc.parsed = index[f]
               /\ f \notin pending /\ stamps'[f] = tree[f] => binFile[f].doc.source = tree[f]
    <3>1. Right(t, f, binFile[f].doc)
      BY <2>1, <2>2 DEF Complete
    <3>2. f \notin task[t].stamping => stamps'[f] = stamps[f]
      BY <1>2 DEF StampsAfter, Live
    <3> QED
      BY <2>1, <3>1, <3>2 DEF Right, Seen
  <2> QED
    BY <1>2, <2>1, <2>3, <2>4 DEF Readable
<1>9. Known'
  <2> SUFFICES ASSUME progress # NoProgress, ~dirty', \A g \in Generators : ~Active(g)'
               PROVE  metaFile = config
    BY <1>2 DEF Known
  <2>1. CASE t \in Generators
    BY <1>2, <1>6, <2>1 DEF Undisturbed, Repairs, At
  <2>2. CASE t \notin Generators
    <3>1. \A g \in Generators : ~Active(g)
      BY <1>1, <2>2 DEF Active, Tasks
    <3> QED
      BY <1>2, <2>2, <3>1 DEF RInv, Known
  <2> QED
    BY <2>1, <2>2
<1> QED
  BY <1>4, <1>5, <1>8, <1>9 DEF RInv, Claims

-----------------------------------------------------------------------------
(* Every step.                                                             *)

LEMMA StepKeepsRInv == ASSUME TypeOK, Tallies, RInv, NEW t \in Tasks, Step(t) PROVE RInv'
<1>1. CASE Embed(t)
  BY <1>1, EmbedKeepsRInv DEF Embed
<1>2. CASE ~Embed(t)
  BY <1>2, LoadKeepsRInv, PlanKeepsRInv, OpenKeepsRInv, FillKeepsRInv, RenameKeepsRInv,
     SaveMetaKeepsRInv, SaveFailsKeepsRInv, FinishKeepsRInv DEF Step
<1> QED
  BY <1>1, <1>2

LEMMA NextKeepsRInv == TypeOK /\ Tallies /\ RInv /\ [Next]_vars => RInv'
<1> SUFFICES ASSUME TypeOK, Tallies, RInv, [Next]_vars PROVE RInv'
  OBVIOUS
<1>1. CASE \E f \in Files : Edit(f)
  BY <1>1, EditKeepsRInv
<1>2. CASE Restart
  BY <1>2, RestartKeepsRInv
<1>3. CASE \E g \in Generators : IndexCached(g) \/ IndexFresh(g) \/ DoctorRepair(g)
  BY <1>3, IndexCachedKeepsRInv, IndexFreshKeepsRInv, DoctorKeepsRInv
<1>4. CASE Flush
  BY <1>4, FlushKeepsRInv
<1>5. CASE \E t \in Tasks : Step(t)
  BY <1>5, StepKeepsRInv
<1>6. CASE UNCHANGED vars
  BY <1>6, AllStands DEF vars, treeVars, indexVars, fileVars, processVars, history
<1> QED
  BY <1>1, <1>2, <1>3, <1>4, <1>5, <1>6 DEF Next

-----------------------------------------------------------------------------
(* A forced generation that is alone starts from nothing: what it saves is *)
(* of this configuration, whatever the files held before.                  *)
Mended(t) ==
  Active(t) /\ task[t].alone /\ task[t].force /\ ~task[t].failed =>
    /\ task[t].pc \in BeforeMeta => ByConfig(task[t].store)
    /\ task[t].pc \in {"meta", "finish"} => ByConfig(binFile)

MInv == \A t \in Tasks : Mended(t)

LEMMA MendedStands ==
  ASSUME MInv, UNCHANGED <<task, binFile, config>>
  PROVE  MInv'
  BY DEF MInv, Mended, Active, ByConfig

LEMMA DisturbedMended ==
  ASSUME TypeOK, MInv, UNCHANGED <<binFile, config>>, NEW u \in Tasks, task'[u] = Disturbed[u]
  PROVE  Mended(u)'
<1>1. ~(Active(u)' /\ task'[u].alone)
  BY DisturbedFields DEF Active
<1> QED
  BY <1>1 DEF Mended

LEMMA StartedMended ==
  ASSUME TypeOK, MInv, NEW t \in Tasks, NEW r \in TaskRecords, r.pc = "load",
         task' = Started(t, r), UNCHANGED <<binFile, config>>
  PROVE  MInv'
<1>1. /\ task'[t] = [r EXCEPT !.alone = AllIdle]
      /\ \A u \in Tasks \ {t} : task'[u] = Disturbed[u]
  BY StartedFields
<1>2. task'[t].pc = "load"
  BY <1>1 DEF TaskRecords
<1>3. Mended(t)'
  BY <1>2 DEF Mended, BeforeMeta
<1>4. \A u \in Tasks \ {t} : Mended(u)'
  BY <1>1, DisturbedMended
<1> QED
  BY <1>3, <1>4 DEF MInv

LEMMA SpawnMended ==
  ASSUME TypeOK, MInv, NEW g \in Generators, NEW versions \in [Files -> Versions],
         NEW force \in BOOLEAN, Spawn(g, versions, force), UNCHANGED <<binFile, config>>
  PROVE  MInv'
<1> DEFINE r == Generation(versions, force)
<1>1. r \in TaskRecords /\ r.pc = "load"
  BY GenerationFresh DEF Fresh
<1>2. g \in Tasks /\ task' = Started(g, r)
  BY DEF Tasks, Spawn
<1> HIDE DEF r
<1> QED
  BY <1>1, <1>2, StartedMended

LEMMA CallMended ==
  ASSUME TypeOK, MInv, NEW g \in Generators, IndexCached(g) \/ IndexFresh(g) \/ DoctorRepair(g)
  PROVE  MInv'
<1>1. UNCHANGED <<binFile, config>>
  BY DEF IndexCached, IndexFresh, DoctorRepair, fileVars, processVars
<1>2. CASE IndexCached(g)
  <2>1. Spawn(g, index, FALSE) \/ UNCHANGED task
    BY <1>2 DEF IndexCached, SpawnIfNeeded
  <2>2. index \in [Files -> Versions]
    BY DEF TypeOK
  <2> QED
    BY <1>1, <2>1, <2>2, SpawnMended, MendedStands
<1>3. CASE IndexFresh(g)
  <2>1. PICK force \in BOOLEAN : Spawn(g, tree, force)
    BY <1>3 DEF IndexFresh
  <2>2. tree \in [Files -> Versions]
    BY DEF TypeOK
  <2> QED
    BY <1>1, <2>1, <2>2, SpawnMended
<1>4. CASE DoctorRepair(g)
  <2> DEFINE versions == index'
  <2>1. versions \in [Files -> Versions]
    BY <1>4 DEF DoctorRepair, TypeOK
  <2>2. Spawn(g, versions, FALSE) \/ UNCHANGED task \/ task' = Disturbed
    BY <1>4 DEF DoctorRepair, SpawnIfNeeded
  <2> HIDE DEF versions
  <2>3. ASSUME task' = Disturbed PROVE MInv'
    BY <1>1, <2>3, DisturbedMended DEF MInv
  <2> QED
    BY <1>1, <2>1, <2>2, <2>3, SpawnMended, MendedStands
<1> QED
  BY <1>2, <1>3, <1>4

LEMMA FlushMended == ASSUME TypeOK, MInv, Flush PROVE MInv'
<1>1. PICK flush \in {Batch, Resync} :
        /\ index' = [f \in Files |-> IF f \in flush.stamping THEN tree[f] ELSE index[f]]
        /\ task' = Started(Updater, [Idle EXCEPT !.pc = "load", !.snapshot = index',
                     !.changed = flush.changed, !.removed = flush.removed,
                     !.stamping = flush.stamping])
  BY DEF Flush
<1> DEFINE r == [Idle EXCEPT !.pc = "load", !.snapshot = index', !.changed = flush.changed,
                             !.removed = flush.removed, !.stamping = flush.stamping]
<1>2. /\ index' \in [Files -> Versions] /\ flush.changed \in SUBSET Files
      /\ flush.removed \in SUBSET Files /\ flush.stamping \in SUBSET Files
  BY <1>1 DEF Batch, Resync, Live, TypeOK
<1>3. r \in TaskRecords /\ r.pc = "load"
  <2>1. Idle \in TaskRecords
    BY IdleType
  <2> QED
    BY <1>2, <2>1 DEF TaskRecords, Running
<1>4. Updater \in Tasks /\ task' = Started(Updater, r) /\ UNCHANGED <<binFile, config>>
  BY <1>1 DEF Flush, Tasks, fileVars, processVars
<1> HIDE DEF r
<1> QED
  BY <1>3, <1>4, StartedMended

\* A step of one task says nothing new of another, and no other is alone.
LEMMA OthersMended ==
  ASSUME RInv, NEW t \in Tasks, Active(t), \A u \in Tasks \ {t} : task'[u] = task[u], Mended(t)'
  PROVE  MInv'
<1>1. ASSUME NEW u \in Tasks \ {t} PROVE ~(Active(u)' /\ task'[u].alone)
  BY DEF RInv, Solo, Active
<1> QED
  BY <1>1 DEF MInv, Mended

LEMMA StepMended ==
  ASSUME TypeOK, RInv, MInv, NEW t \in Tasks, Step(t)
  PROVE  MInv'
<1>0. task \in [Tasks -> TaskRecords] /\ task[t] \in TaskRecords /\ Mended(t) /\ Solo(t) /\ Repairs(t)
  BY DEF TypeOK, MInv, RInv
<1>1. CASE Load(t)
  <2>1. task'[t].pc = "plan" /\ \A u \in Tasks \ {t} : task'[u] = task[u]
    BY <1>0, <1>1 DEF Load, TaskRecords
  <2>2. Mended(t)' /\ Active(t)
    BY <1>1, <2>1 DEF Mended, BeforeMeta, Load, At, Active
  <2> QED
    BY <2>1, <2>2, OthersMended
<1>2. CASE Plan(t)
  <2>1. /\ task'[t].store = Kept(t) /\ task'[t].pc \in {"open", "embed"}
        /\ task'[t].force = task[t].force
        /\ \A u \in Tasks \ {t} : task'[u] = task[u]
    BY <1>0, <1>2 DEF Plan, TaskRecords
  <2>2. task[t].force => DOMAIN Kept(t) = {}
    BY DEF Kept, Reusable, NewStore, Restrict
  <2>3. Mended(t)' /\ Active(t)
    BY <1>2, <2>1, <2>2 DEF Mended, BeforeMeta, ByConfig, Plan, At, Active
  <2> QED
    BY <2>1, <2>3, OthersMended
<1>3. CASE Embed(t)
  <2>1. PICK f \in Files, ok \in BOOLEAN : EmbedOne(t, f, ok)
    BY <1>3 DEF Embed
  <2>2. /\ SameHands(t) /\ f \in DOMAIN task[t].todo
        /\ task'[t].pc = (IF DOMAIN task'[t].todo = {} THEN "open" ELSE "embed")
        /\ task'[t].failed = (task[t].failed \/ ~ok)
        /\ task'[t].store = (IF ok THEN Stored(task[t].store, f, task[t].todo[f])
                                   ELSE task[t].store)
    BY <2>1, EmbedHands
  <2>3. Active(t) /\ task[t].pc = "embed" /\ UNCHANGED config
    BY <2>1 DEF EmbedOne, At, Active, processVars
  <2>4. ByConfig(task[t].store) => ByConfig(task[t].store)'
    BY <2>2, <2>3 DEF ByConfig, Stored
  <2>5. Mended(t)'
    BY <1>0, <2>2, <2>3, <2>4 DEF Mended, BeforeMeta, SameHands
  <2> QED
    BY <2>2, <2>3, <2>5, OthersMended DEF SameHands
<1>4. CASE Open(t) \/ Fill(t)
  <2>1. SameHands(t) /\ SameLoad(t) /\ task'[t].pc \in {"fill", "rename"} /\ task'[t].failed = task[t].failed
    BY <1>4, MovedPc DEF Open, Fill, Running
  <2>2. Active(t) /\ task[t].pc \in BeforeMeta /\ UNCHANGED config
    BY <1>4 DEF Open, Fill, At, Active, BeforeMeta, processVars
  <2>3. Mended(t)'
    BY <1>0, <2>1, <2>2 DEF Mended, BeforeMeta, SameHands, SameLoad, ByConfig
  <2> QED
    BY <2>1, <2>2, <2>3, OthersMended DEF SameHands
<1>5. CASE Rename(t)
  <2>1. SameHands(t) /\ task'[t].pc = "meta" /\ task'[t].failed = task[t].failed
    BY <1>5, MovedPc DEF Rename, Running
  <2>2. Active(t) /\ task[t].pc = "rename" /\ UNCHANGED config /\ binFile' = tmpFile
    BY <1>5 DEF Rename, At, Active, processVars
  <2>3. task[t].alone => tmpFile = task[t].store
    BY <1>0, <2>2 DEF Solo, At
  <2>4. Mended(t)'
    BY <1>0, <2>1, <2>2, <2>3 DEF Mended, BeforeMeta, SameHands, ByConfig
  <2> QED
    BY <2>1, <2>2, <2>4, OthersMended DEF SameHands
<1>6. CASE SaveMeta(t)
  <2>1. SameHands(t) /\ task'[t].pc = "finish" /\ task'[t].failed = task[t].failed
    BY <1>6, MovedPc DEF SaveMeta, Running
  <2>2. Active(t) /\ task[t].pc = "meta" /\ UNCHANGED <<config, binFile>>
    BY <1>6 DEF SaveMeta, At, Active, processVars
  <2>3. Mended(t)'
    BY <1>0, <2>1, <2>2 DEF Mended, BeforeMeta, SameHands, ByConfig
  <2> QED
    BY <2>1, <2>2, <2>3, OthersMended DEF SameHands
<1>7. CASE SaveFails(t)
  <2>1. SameHands(t) /\ task'[t].failed
    BY <1>7, MovedHands DEF SaveFails, Running
  <2>2. Active(t) /\ Mended(t)'
    BY <1>7, <2>1 DEF SaveFails, At, Active, Mended
  <2> QED
    BY <2>1, <2>2, OthersMended DEF SameHands
<1>8. CASE Finish(t)
  <2>1. task'[t] = Idle /\ (\A u \in Tasks \ {t} : task'[u] = task[u]) /\ Active(t)
    BY <1>0, <1>8 DEF Finish, At, Active
  <2>2. Mended(t)'
    BY <2>1, IdleType DEF Mended, Active
  <2> QED
    BY <2>1, <2>2, OthersMended
<1> QED
  BY <1>1, <1>2, <1>3, <1>4, <1>5, <1>6, <1>7, <1>8 DEF Step

LEMMA NextKeepsMInv == TypeOK /\ RInv /\ MInv /\ [Next]_vars => MInv'
<1> SUFFICES ASSUME TypeOK, RInv, MInv, [Next]_vars PROVE MInv'
  OBVIOUS
<1>1. CASE \E f \in Files : Edit(f)
  BY <1>1, MendedStands DEF Edit, fileVars, processVars
<1>2. CASE Restart
  <2>1. \A t \in Tasks : task'[t].pc = "idle"
    BY <1>2, IdleType DEF Restart
  <2> QED
    BY <2>1 DEF MInv, Mended, Active
<1>3. CASE \E g \in Generators : IndexCached(g) \/ IndexFresh(g) \/ DoctorRepair(g)
  BY <1>3, CallMended
<1>4. CASE Flush
  BY <1>4, FlushMended
<1>5. CASE \E t \in Tasks : Step(t)
  BY <1>5, StepMended
<1>6. CASE UNCHANGED vars
  BY <1>6, MendedStands DEF vars, fileVars, processVars
<1> QED
  BY <1>1, <1>2, <1>3, <1>4, <1>5, <1>6 DEF Next

-----------------------------------------------------------------------------
(* What is said where there is no metadata, and of an unfinished entry.    *)

TInv == Untouched /\ Underway

\* A call or a flush starts a task or leaves all of them where they were.
LEMMA StartTells ==
  ASSUME TypeOK, TInv, NEW t \in Tasks, NEW r \in TaskRecords, r.pc = "load", ~Active(t),
         task' = Started(t, r), UNCHANGED progress
  PROVE  TInv'
<1>1. /\ task'[t] = [r EXCEPT !.alone = AllIdle]
      /\ \A u \in Tasks \ {t} : task'[u] = Disturbed[u]
  BY StartedFields
<1>2. task'[t].pc = "load" /\ \A u \in Tasks \ {t} : task'[u].pc = task[u].pc
  BY <1>1, DisturbedFields DEF TaskRecords
<1>3. Untouched'
  BY <1>2 DEF Untouched, AllIdle, Active
<1>4. \A g \in Generators : Telling(g) => Telling(g)'
  BY <1>2 DEF Telling, Active, Tasks, Running
<1>5. Underway'
  BY <1>4 DEF TInv, Underway
<1> QED
  BY <1>3, <1>5 DEF TInv

LEMMA SpawnTells ==
  ASSUME TypeOK, TInv, NEW g \in Generators, NEW versions \in [Files -> Versions],
         NEW force \in BOOLEAN, Spawn(g, versions, force), UNCHANGED progress
  PROVE  TInv'
<1> DEFINE r == Generation(versions, force)
<1>1. r \in TaskRecords /\ r.pc = "load"
  BY GenerationFresh DEF Fresh
<1>2. g \in Tasks /\ ~Active(g) /\ task' = Started(g, r)
  BY DEF Tasks, Spawn
<1> HIDE DEF r
<1> QED
  BY <1>1, <1>2, StartTells

LEMMA StillTells ==
  ASSUME TInv, \A u \in Tasks : task'[u].pc = task[u].pc,
         UNCHANGED <<progress, binFile, metaFile>>, dirty => dirty'
  PROVE  TInv'
<1>1. Untouched'
  BY DEF TInv, Untouched, AllIdle, Active
<1>2. \A g \in Generators : Telling(g) => Telling(g)'
  BY DEF Telling, Tasks
<1>3. Underway'
  BY <1>2 DEF TInv, Underway
<1> QED
  BY <1>1, <1>3 DEF TInv

LEMMA CallTells ==
  ASSUME TypeOK, TInv, NEW g \in Generators, IndexCached(g) \/ IndexFresh(g) \/ DoctorRepair(g)
  PROVE  TInv'
<1>1. UNCHANGED <<progress, binFile, metaFile>> /\ (dirty => dirty')
  <2>1. UNCHANGED <<progress, binFile, metaFile>>
    BY DEF IndexCached, IndexFresh, DoctorRepair, fileVars
  <2>2. ASSUME dirty PROVE dirty'
    BY <2>2, Zenon DEF IndexCached, IndexFresh, DoctorRepair, fileVars
  <2> QED
    BY <2>1, <2>2, Zenon
<1>2. CASE IndexCached(g)
  <2>1. Spawn(g, index, FALSE) \/ UNCHANGED task
    BY <1>2 DEF IndexCached, SpawnIfNeeded
  <2>2. index \in [Files -> Versions]
    BY DEF TypeOK
  <2> QED
    BY <1>1, <2>1, <2>2, SpawnTells, StillTells
<1>3. CASE IndexFresh(g)
  <2>1. PICK force \in BOOLEAN : Spawn(g, tree, force)
    BY <1>3 DEF IndexFresh
  <2>2. tree \in [Files -> Versions]
    BY DEF TypeOK
  <2> QED
    BY <1>1, <2>1, <2>2, SpawnTells
<1>4. CASE DoctorRepair(g)
  <2> DEFINE versions == index'
  <2>1. versions \in [Files -> Versions]
    BY <1>4 DEF DoctorRepair, TypeOK
  <2>2. Spawn(g, versions, FALSE) \/ UNCHANGED task \/ task' = Disturbed
    BY <1>4 DEF DoctorRepair, SpawnIfNeeded
  <2> HIDE DEF versions
  <2>3. ASSUME task' = Disturbed PROVE TInv'
    BY <1>1, <2>3, DisturbedFields, StillTells
  <2> QED
    BY <1>1, <2>1, <2>2, <2>3, SpawnTells, StillTells
<1> QED
  BY <1>2, <1>3, <1>4

LEMMA FlushTells == ASSUME TypeOK, TInv, Flush PROVE TInv'
<1>1. PICK flush \in {Batch, Resync} :
        /\ index' = [f \in Files |-> IF f \in flush.stamping THEN tree[f] ELSE index[f]]
        /\ task' = Started(Updater, [Idle EXCEPT !.pc = "load", !.snapshot = index',
                     !.changed = flush.changed, !.removed = flush.removed,
                     !.stamping = flush.stamping])
  BY DEF Flush
<1> DEFINE r == [Idle EXCEPT !.pc = "load", !.snapshot = index', !.changed = flush.changed,
                             !.removed = flush.removed, !.stamping = flush.stamping]
<1>2. /\ index' \in [Files -> Versions] /\ flush.changed \in SUBSET Files
      /\ flush.removed \in SUBSET Files /\ flush.stamping \in SUBSET Files
  BY <1>1 DEF Batch, Resync, Live, TypeOK
<1>3. r \in TaskRecords /\ r.pc = "load"
  <2>1. Idle \in TaskRecords
    BY IdleType
  <2> QED
    BY <1>2, <2>1 DEF TaskRecords, Running
<1>4. Updater \in Tasks /\ ~Active(Updater) /\ task' = Started(Updater, r) /\ UNCHANGED progress
  BY <1>1 DEF Flush, Tasks
<1> HIDE DEF r
<1> QED
  BY <1>3, <1>4, StartTells

\* A task that goes on is not idle, and a generation tells until it ends.
LEMMA OnTells ==
  ASSUME TInv, NEW t \in Tasks, task'[t].pc # "idle", \A u \in Tasks \ {t} : task'[u] = task[u],
         Telling(t) => Telling(t)', progress' = progress \/ (t \in Generators /\ Telling(t)')
  PROVE  TInv'
<1>1. Untouched'
  BY DEF Untouched, AllIdle, Active
<1>2. \A g \in Generators : Telling(g) => Telling(g)'
  BY DEF Telling, Tasks
<1>3. Underway'
  BY <1>2 DEF TInv, Underway
<1> QED
  BY <1>1, <1>3 DEF TInv

LEMMA StepTells ==
  ASSUME TypeOK, RInv, TInv, NEW t \in Tasks, Step(t)
  PROVE  TInv'
<1>0. task \in [Tasks -> TaskRecords] /\ task[t] \in TaskRecords
  BY DEF TypeOK
<1>1. CASE Load(t)
  <2>1. /\ task'[t].pc = "plan" /\ \A u \in Tasks \ {t} : task'[u] = task[u]
        /\ ~Telling(t) /\ progress' = progress
    BY <1>0, <1>1 DEF Load, TaskRecords, Telling, At
  <2> QED
    BY <2>1, OnTells
<1>2. CASE Plan(t)
  <2>1. /\ task'[t].pc \in {"open", "embed"} /\ (\A u \in Tasks \ {t} : task'[u] = task[u])
        /\ (progress' = progress \/ t \in Generators)
    BY <1>0, <1>2 DEF Plan, TaskRecords
  <2>2. Telling(t)'
    BY <2>1 DEF Telling, Running
  <2> QED
    BY <2>1, <2>2, OnTells
<1>3. CASE Embed(t)
  <2>1. PICK f \in Files, ok \in BOOLEAN : EmbedOne(t, f, ok)
    BY <1>3 DEF Embed
  <2>2. SameHands(t) /\ task'[t].pc \in {"open", "embed"}
    BY <2>1, EmbedHands
  <2>3. Telling(t)' /\ (progress' = progress \/ t \in Generators)
    BY <2>1, <2>2 DEF EmbedOne, Telling, Running
  <2> QED
    BY <2>2, <2>3, OnTells DEF SameHands
<1>4. CASE Open(t) \/ Fill(t) \/ Rename(t) \/ SaveMeta(t)
  <2>1. SameHands(t) /\ task'[t].pc \in {"fill", "rename", "meta", "finish"}
    BY <1>4, MovedPc DEF Open, Fill, Rename, SaveMeta, Running
  <2>2. Telling(t)' /\ progress' = progress
    BY <1>4, <2>1 DEF Open, Fill, Rename, SaveMeta, Telling, Running
  <2> QED
    BY <2>1, <2>2, OnTells DEF SameHands
<1>5. CASE SaveFails(t)
  <2>1. SameHands(t) /\ task'[t].pc = "finish"
    BY <1>5, MovedHands DEF SaveFails, Running
  <2>2. Telling(t)' /\ progress' = progress
    BY <1>5, <2>1 DEF SaveFails, Telling, Running
  <2> QED
    BY <2>1, <2>2, OnTells DEF SameHands
<1>6. CASE Finish(t)
  <2>1. /\ task'[t] = Idle /\ (\A u \in Tasks \ {t} : task'[u] = task[u])
        /\ task[t].pc = "finish" /\ Active(t) /\ UNCHANGED <<metaFile, config>>
        /\ dirty' = (IF t \in Generators THEN ~Undisturbed(t) ELSE dirty \/ ~Undisturbed(t))
    BY <1>0, <1>6 DEF Finish, At, Active, fileVars, processVars
  <2>2. ASSUME ~dirty' PROVE metaFile' # NoConfig
    <3>1. task[t].alone /\ ~task[t].failed /\ (t \in Generators \/ ~dirty)
      BY <2>1, <2>2 DEF Undisturbed
    <3>2. metaFile = config
      BY <2>1, <3>1 DEF RInv, Repairs, At
    <3> QED
      BY <2>1, <3>2, EmbedAssumption DEF TypeOK
  <2>3. Untouched'
    BY <2>2 DEF Untouched
  <2>4. CASE t \in Generators
    <3>1. progress' = NoProgress \/ progress'.finished
      BY <1>6, <2>4 DEF Finish, TypeOK, Progress
    <3> QED
      BY <2>3, <3>1 DEF TInv, Underway
  <2>5. CASE t \notin Generators
    <3>1. UNCHANGED progress /\ \A g \in Generators : task'[g] = task[g]
      BY <1>6, <2>1, <2>5 DEF Finish, Tasks
    <3>2. \A g \in Generators : Telling(g) => Telling(g)'
      BY <3>1 DEF Telling
    <3> QED
      BY <2>3, <3>1, <3>2 DEF TInv, Underway
  <2> QED
    BY <2>4, <2>5
<1> QED
  BY <1>1, <1>2, <1>3, <1>4, <1>5, <1>6 DEF Step

LEMMA NextKeepsTInv == TypeOK /\ RInv /\ TInv /\ [Next]_vars => TInv'
<1> SUFFICES ASSUME TypeOK, RInv, TInv, [Next]_vars PROVE TInv'
  OBVIOUS
<1>1. CASE \E f \in Files : Edit(f)
  BY <1>1, StillTells DEF Edit, fileVars, history
<1>2. CASE Restart
  <2>1. progress' = NoProgress /\ UNCHANGED <<binFile, metaFile>> /\ (~dirty' => ~dirty /\ AllIdle)
    BY <1>2 DEF Restart
  <2> QED
    BY <2>1 DEF TInv, Untouched, Underway
<1>3. CASE \E g \in Generators : IndexCached(g) \/ IndexFresh(g) \/ DoctorRepair(g)
  BY <1>3, CallTells
<1>4. CASE Flush
  BY <1>4, FlushTells
<1>5. CASE \E t \in Tasks : Step(t)
  BY <1>5, StepTells
<1>6. CASE UNCHANGED vars
  BY <1>6, StillTells DEF vars, fileVars, history
<1> QED
  BY <1>1, <1>2, <1>3, <1>4, <1>5, <1>6 DEF Next

-----------------------------------------------------------------------------
(* The end of a task keeps what is said of the files; the end of one that  *)
(* mends makes it true.                                                    *)
LEMMA FinishKeepsIInv ==
  ASSUME IInv, RInv, MInv, NEW t \in Tasks, Finish(t)
  PROVE  IInv'
<1>1. TypeOK /\ Tallies /\ Orderly /\ Truthful
  BY DEF IInv
<1>2. task \in [Tasks -> TaskRecords] /\ Idle \in TaskRecords
  BY <1>1, IdleType DEF TypeOK
<1>3. task' = [task EXCEPT ![t] = Idle] /\ At(t, "finish") /\ Active(t)
  BY DEF Finish, At, Active
<1>4. task'[t] = Idle /\ \A u \in Tasks \ {t} : task'[u] = task[u]
  BY <1>2, <1>3
<1>5. Idle.stored + Cardinality(DOMAIN Idle.todo) <= Idle.total
  BY IdleType, FS_EmptySet
<1>6. task' \in [Tasks -> TaskRecords] /\ Tallies'
  BY <1>1, <1>2, <1>3, <1>5, TaskUpdated
<1>7. /\ UNCHANGED <<binFile, tmpFile, metaFile, open, config>>
      /\ orphan' = (orphan /\ ~Mends(t)) /\ overlapped' = (overlapped /\ ~Mends(t))
  BY DEF Finish, fileVars, processVars
<1>8. TypeOK'
  <2>1. stamps' \in [Files -> Versions]
    BY <1>1 DEF Finish, StampsAfter, TypeOK
  <2>2. progress' \in Progress \cup {NoProgress}
    BY <1>1 DEF Finish, TypeOK, Progress
  <2>3. dirty' \in BOOLEAN /\ orphan' \in BOOLEAN /\ overlapped' \in BOOLEAN
    BY <1>1 DEF Finish, TypeOK, Undisturbed, Mends
  <2> QED
    BY <1>1, <1>6, <2>1, <2>2, <2>3 DEF Finish, TypeOK, treeVars, fileVars, processVars
<1>9. /\ ~At(t, "fill")' /\ ~At(t, "rename")' /\ ~At(t, "plan")' /\ ~At(t, "meta")'
      /\ task'[t].pc \notin {"embed", "open", "fill", "rename"} /\ ~Active(t)'
  BY <1>4, IdleType DEF At, Active
<1>10. CASE ~Mends(t)
  <2>1. orphan' = orphan /\ overlapped' = overlapped
    BY <1>1, <1>7, <1>10 DEF TypeOK
  <2>2. ~overlapped => binFile' # Torn
    BY <1>1, <1>7 DEF Orderly
  <2>3. ~overlapped /\ ~orphan' => Vouched'
    <3>1. ~At(t, "meta") /\ \A u \in Tasks \ {t} : At(u, "meta")' = At(u, "meta")
      BY <1>3, <1>4 DEF At
    <3> QED
      BY <1>1, <1>7, <2>1, <3>1 DEF Truthful, Vouched
  <2> QED
    BY <1>1, <1>3, <1>4, <1>6, <1>7, <1>8, <1>9, <2>1, <2>2, <2>3, StepSafe DEF IInv
<1>11. CASE Mends(t)
  <2>1. task[t].alone /\ ~task[t].failed /\ task[t].force /\ t \in Generators
    BY <1>11 DEF Mends, Undisturbed
  <2>2. \A u \in Tasks : ~Active(u)'
    <3>1. \A u \in Tasks : Active(u) => u = t
      BY <1>3, <2>1 DEF RInv, Solo
    <3> QED
      BY <1>4, <1>9, <3>1 DEF Active
  <2>3. Readable(binFile) /\ metaFile = config /\ ByConfig(binFile)
    BY <1>3, <2>1 DEF RInv, Repairs, MInv, Mended, At
  <2>4. Orderly'
    BY <1>7, <2>2, <2>3 DEF Orderly, Exclusive, OwnFile, Readable, At, Active
  <2>5. Truthful'
    BY <1>7, <2>2, <2>3 DEF Truthful, OwnVectors, Vouched, ByConfig, At, Active
  <2> QED
    BY <1>6, <1>8, <2>4, <2>5 DEF IInv
<1> QED
  BY <1>10, <1>11

-----------------------------------------------------------------------------
(* Every step keeps all three.                                             *)

LEMMA StepKeepsIInv == ASSUME IInv, RInv, MInv, NEW t \in Tasks, Step(t) PROVE IInv'
<1>1. CASE Embed(t)
  BY <1>1, EmbedKeepsIInv DEF Embed
<1>2. CASE ~Embed(t)
  BY <1>2, LoadKeepsIInv, PlanKeepsIInv, OpenKeepsIInv, FillKeepsIInv, RenameKeepsIInv,
     SaveMetaKeepsIInv, SaveFailsKeepsIInv, FinishKeepsIInv DEF Step
<1> QED
  BY <1>1, <1>2

LEMMA NextKeepsIInv == IInv /\ RInv /\ MInv /\ [Next]_vars => IInv'
<1> SUFFICES ASSUME IInv, RInv, MInv, [Next]_vars PROVE IInv'
  OBVIOUS
<1>1. CASE \E f \in Files : Edit(f)
  BY <1>1, EditKeepsIInv
<1>2. CASE Restart
  BY <1>2, RestartKeepsIInv
<1>3. CASE \E g \in Generators : IndexCached(g) \/ IndexFresh(g) \/ DoctorRepair(g)
  BY <1>3, IndexCachedKeepsIInv, IndexFreshKeepsIInv, DoctorKeepsIInv
<1>4. CASE Flush
  BY <1>4, FlushKeepsIInv
<1>5. CASE \E t \in Tasks : Step(t)
  BY <1>5, StepKeepsIInv
<1>6. CASE UNCHANGED vars
  <2>1. \A u \in Tasks : SameWork(task[u], task'[u])
    BY <1>6 DEF vars, SameWork
  <2>2. UNCHANGED <<binFile, tmpFile, metaFile, open, config, orphan, overlapped>>
    BY <1>6 DEF vars, fileVars, processVars, history
  <2>3. Tallies' /\ Orderly' /\ Truthful'
    BY <2>1, <2>2, SameTallies, QuietSafe DEF IInv
  <2>4. TypeOK'
    BY <1>6 DEF IInv, TypeOK, vars, treeVars, indexVars, fileVars, processVars, history
  <2> QED
    BY <2>3, <2>4 DEF IInv
<1> QED
  BY <1>1, <1>2, <1>3, <1>4, <1>5, <1>6 DEF Next

EInv == IInv /\ RInv /\ MInv /\ TInv

LEMMA EInvBegins == Init => EInv
<1>1. Init => MInv
  BY IdleType DEF Init, MInv, Mended, Active
<1>2. Init => TInv
  BY DEF Init, TInv, Untouched, Underway
<1> QED
  BY <1>1, <1>2, InitIInv, InitRInv DEF EInv

LEMMA EInvStands == EInv /\ [Next]_vars => EInv'
  BY NextKeepsIInv, NextKeepsRInv, NextKeepsMInv, NextKeepsTInv DEF EInv, IInv

LEMMA EInvHolds == Spec => []EInv
  BY EInvBegins, EInvStands, PTL DEF Spec

LEMMA AlwaysIInv == Spec => []IInv
<1>1. EInv => IInv
  BY DEF EInv
<1> QED
  BY <1>1, EInvHolds, PTL

-----------------------------------------------------------------------------
(* Theorems.                                                               *)

(* Types: the progress registry never counts more vectors than documents,  *)
(* whatever requests fail (generate_embeddings, progress::set).            *)
THEOREM EmbedTypes == Spec => []TypeOK
<1>1. IInv => TypeOK
  BY DEF IInv
<1> QED
  BY <1>1, AlwaysIInv, PTL

(* embeddings.bin is readable through every crash and failed save, as long *)
(* as no two writers ran at once (EmbedStore::save).                       *)
THEOREM StoreNeverTorn == Spec => []NeverTorn
<1>1. IInv => NeverTorn
  BY DEF IInv, Orderly, NeverTorn
<1> QED
  BY <1>1, AlwaysIInv, PTL

(* Vectors that the metadata calls compatible come from the configuration  *)
(* it names, through restarts, failures and changes of the model           *)
(* (generate_embeddings, update_embeddings_for_files).                     *)
THEOREM VectorsVouched == Spec => []VouchedModel
<1>1. IInv => VouchedModel
  BY DEF IInv, Truthful, VouchedModel
<1> QED
  BY <1>1, AlwaysIInv, PTL

\* A project at rest, as far as anybody can tell, has the vectors of its tree.
LEMMA RestMatches == ASSUME EInv, Calm, ~NeedsEmbed \/ Compatible PROVE StoreMatches
<1>1. metaFile # NoConfig
  <2>1. config # NoConfig
    BY EmbedAssumption DEF EInv, IInv, TypeOK
  <2>2. ~NeedsEmbed => metaFile # NoConfig
    BY DEF EInv, TInv, Untouched, Calm, NeedsEmbed
  <2> QED
    BY <2>1, <2>2 DEF Compatible
<1>2. /\ Readable(binFile) /\ DOMAIN binFile = Live(index)
      /\ \A f \in Live(index) :
           /\ binFile[f].doc.parsed = index[f]
           /\ f \notin pending /\ stamps[f] = tree[f] => binFile[f].doc.source = tree[f]
  BY <1>1 DEF Calm, EInv, RInv, Settled
<1>3. \A f \in Live(index) : UpToDateVector(f)
  BY <1>2 DEF UpToDateVector, Calm, UpToDate
<1>4. ASSUME ~orphan, ~overlapped PROVE \A f \in Live(index) : binFile[f].by = metaFile
  <2>1. \A t \in Tasks : ~At(t, "meta")
    BY DEF Calm, AllIdle, Active, At
  <2> QED
    BY <1>1, <1>2, <1>4, <2>1 DEF EInv, IInv, Truthful, Vouched, Readable
<1> QED
  BY <1>2, <1>3, <1>4 DEF StoreMatches, Readable

(* When a project looks ready - nothing runs, no edit is unseen, the       *)
(* recorded mtimes are those of the tree, there is a store - and no work   *)
(* was lost since the last undisturbed generation, its vectors are those   *)
(* of the present tree and of the model its metadata names, this one or a  *)
(* former one, through crashes, failed requests, failed saves and writers  *)
(* that ran at once (index_project.rs:121, generate_embeddings,            *)
(* update_embeddings_for_files).                                           *)
THEOREM ReadyIsEmbedded == Spec => []ReadyMeansEmbedded
<1>1. EInv => ReadyMeansEmbedded
  BY RestMatches DEF ReadyMeansEmbedded, Calm
<1> QED
  BY <1>1, EInvHolds, PTL

LEMMA RenameKeepsVectors ==
  ASSUME RInv, [Next]_vars, NEW g \in Generators, At(g, "rename"), task[g].alone, ~task[g].force,
         Compatible, binFile' # binFile, NEW f \in DOMAIN Loaded(binFile) \cap Live(task[g].snapshot)
  PROVE  f \in DOMAIN binFile'
<1>1. PICK t \in Tasks : Fill(t) \/ Rename(t)
  <2>1. ~UNCHANGED binFile
    OBVIOUS
  <2>2. CASE \E e \in Files : Edit(e)
    BY <2>1, <2>2 DEF Edit, fileVars
  <2>3. CASE Restart
    BY <2>1, <2>3 DEF Restart
  <2>4. CASE \E h \in Generators : IndexCached(h) \/ IndexFresh(h) \/ DoctorRepair(h)
    BY <2>1, <2>4 DEF IndexCached, IndexFresh, DoctorRepair, fileVars
  <2>5. CASE Flush
    BY <2>1, <2>5 DEF Flush, fileVars
  <2>6. CASE UNCHANGED vars
    BY <2>1, <2>6 DEF vars, fileVars
  <2>7. CASE \E t \in Tasks : Step(t)
    <3>1. PICK t \in Tasks : Step(t)
      BY <2>7
    <3>2. ~Load(t) /\ ~Plan(t) /\ ~Embed(t) /\ ~Finish(t)
      BY <2>1 DEF Load, Plan, Embed, EmbedOne, Finish, fileVars
    <3>3. ~Open(t) /\ ~SaveMeta(t) /\ ~SaveFails(t)
      BY <2>1 DEF Open, SaveMeta, SaveFails, fileVars
    <3> QED
      BY <3>1, <3>2, <3>3 DEF Step
  <2> QED
    BY <2>2, <2>3, <2>4, <2>5, <2>6, <2>7 DEF Next
<1>2. g \in Tasks /\ Active(g) /\ Active(t)
  BY <1>1 DEF Tasks, Active, At, Fill, Rename
<1>3. Solo(g) /\ Reuses(g)
  BY <1>2 DEF RInv
<1>4. t = g /\ tmpFile = task[g].store
  BY <1>2, <1>3 DEF Solo
<1>5. binFile' = task[g].store
  BY <1>1, <1>4 DEF Fill, Rename, At
<1> QED
  BY <1>3, <1>5 DEF Reuses, At, BeforeMeta

(* A generation that is neither forced nor disturbed loses no vector of a  *)
(* symbol it knows when it replaces the store, however many requests fail  *)
(* (generate_embeddings).                                                  *)
THEOREM VectorsKept == Spec => KeepsVectors
<1> DEFINE KeepStep ==
      \A g \in Generators :
        At(g, "rename") /\ task[g].alone /\ ~task[g].force /\ Compatible /\ binFile' # binFile
          => \A f \in DOMAIN Loaded(binFile) \cap Live(task[g].snapshot) : f \in DOMAIN binFile'
<1>1. EInv /\ [Next]_vars => [KeepStep]_vars
  BY RenameKeepsVectors DEF EInv
<1>2. Spec => [][KeepStep]_vars
  BY <1>1, EInvHolds, PTL DEF Spec
<1> QED
  BY <1>2 DEF KeepsVectors

\* Every step a client can see is one of the store or leaves it alone.
LEMMA ReadinessSteps == [ReadinessNext]_readyVars => [Next]_vars
  BY DEF ReadinessNext, readyVars

LEMMA ReadinessHolds == ReadinessSpec => []EInv
<1>1. ReadinessInit => EInv
  BY EInvBegins DEF ReadinessInit
<1>2. EInv /\ [ReadinessNext]_readyVars => EInv'
  BY ReadinessSteps, EInvStands
<1> QED
  BY <1>1, <1>2, PTL DEF ReadinessSpec

\* The counts of the registry add up only when no document is left over.
LEMMA CountsTell ==
  ASSUME IInv, RInv, NEW g \in Generators, task[g].alone, task[g].pc \in Running \ {"load", "plan"},
         progress # NoProgress, progress.stored >= progress.total
  PROVE  Live(task[g].snapshot) \subseteq DOMAIN task[g].store
<1>1. g \in Tasks /\ task[g] \in TaskRecords
  BY DEF Tasks, IInv, TypeOK
<1>2. DOMAIN task[g].todo \in SUBSET Files
  BY <1>1, TodoType DEF TaskRecords
<1>3. IsFiniteSet(DOMAIN task[g].todo) /\ Cardinality(DOMAIN task[g].todo) \in Nat
  BY <1>2, FilesCounted
<1>4. /\ task[g].stored \in Nat /\ task[g].total \in 0 .. Cardinality(Files)
      /\ task[g].stored + Cardinality(DOMAIN task[g].todo) <= task[g].total
  BY <1>1 DEF IInv, Tallies, TaskRecords
<1>5. Tells(g)
  BY <1>1 DEF RInv
<1>6. task[g].stored >= task[g].total
  BY <1>4, <1>5 DEF Tells
<1>7. Cardinality(DOMAIN task[g].todo) = 0
  BY <1>3, <1>4, <1>6
<1>8. DOMAIN task[g].todo = {}
  BY <1>3, <1>7, FS_EmptySet
<1> QED
  BY <1>3, <1>4, <1>5, <1>6, <1>7, <1>8 DEF Tells

(* "Embeddings complete" and "ready" keep what they promise: when the      *)
(* registry's counts add up, an undisturbed generation has a vector for    *)
(* every symbol it knows, or has not counted them and the entry is of one  *)
(* that had ended; and a project at rest has the vectors of its tree,      *)
(* whether the answer came from the registry (wait_for_embeddings) or from *)
(* an index found in force (ensure_project_ready).                         *)
THEOREM ReadyAnswersKept == ReadinessSpec => ReadyAnswersHonest
<1> DEFINE Honest ==
      /\ AnswerReady /\ progress # NoProgress =>
           /\ \A g \in Generators :
                task[g].alone /\ task[g].pc \in Running
                  => IF task[g].pc \in {"load", "plan"} THEN progress.finished
                                                        ELSE CompleteFor(g)
           /\ Calm => StoreMatches /\ Compatible
      /\ \A g \in Generators : EnsuredReady(g) /\ Calm => StoreMatches
<1>1. ASSUME EInv PROVE Honest
  <2>1. ASSUME AnswerReady, progress # NoProgress, NEW g \in Generators, task[g].alone,
               task[g].pc \in Running \ {"load", "plan"}
        PROVE  CompleteFor(g)
    <3>1. progress.stored >= progress.total
      BY <2>1 DEF AnswerReady, Counts
    <3> QED
      BY <1>1, <2>1, <3>1, CountsTell DEF EInv, CompleteFor
  <2>2. ASSUME progress # NoProgress, NEW g \in Generators, task[g].alone,
               task[g].pc \in {"load", "plan"}
        PROVE  progress.finished
    <3>1. Solo(g) /\ g \in Tasks /\ Active(g)
      BY <1>1, <2>2 DEF EInv, RInv, Tasks, Active
    <3>2. \A h \in Generators : ~Telling(h)
      BY <2>2, <3>1 DEF Solo, Telling, Active, Tasks, Running
    <3> QED
      BY <1>1, <2>2, <3>2 DEF EInv, TInv, Underway
  <2>3. ASSUME progress # NoProgress, Calm PROVE Compatible
    BY <1>1, <2>3 DEF EInv, RInv, Known, Calm, AllIdle, Tasks, Compatible
  <2>4. ASSUME Calm, ~NeedsEmbed \/ Compatible PROVE StoreMatches
    BY <1>1, <2>4, RestMatches
  <2> QED
    BY <2>1, <2>2, <2>3, <2>4 DEF EnsuredReady
<1> HIDE DEF Honest
<1>2. EInv => [Honest]_readyVars
  BY <1>1
<1>3. ReadinessSpec => [][Honest]_readyVars
  BY <1>2, ReadinessHolds, PTL
<1> QED
  BY <1>3 DEF ReadyAnswersHonest, Honest
=============================================================================
