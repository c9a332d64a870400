# pitlane-mcp in TLA+

pitlane-mcp is an MCP server (and a command line) that indexes source trees with
tree-sitter and answers navigation questions from the index. This directory holds TLA+
models of it, TLC configurations that check them on small instances, and TLAPS proofs
of what matters most for every instance. All paths are relative to the repository's
crate (`watcher.rs` below is the crate's file); `PROJECT.json` names, for every
definition, the lines it models.

## 1. The system

| component | state | operations | interacts with |
|---|---|---|---|
| Change log (`index/format.rs`) | `revision`, `change_log` in meta.json | `record_change`, trimming | every writer of meta.json |
| `index_project` | index.bin, meta.json | decide cached / index again, parse, save, publish | cache, BM25, embeddings, session |
| Snapshot cache (`cache.rs`) | path -> `Arc<SymbolIndex>` | get, insert, invalidate | all tools through `load_project_index` |
| Watcher (`watcher.rs`) | channel, overflow flag, pending set, own index | notify handler, debounce loop, batch flush, full resync | index.bin, meta.json, cache, BM25, embeddings |
| Watcher lifecycle (`tools/watch_project.rs`) | registry, watch.json, watch.stop | watch, stop, status; across processes | watcher |
| Embeddings (`embed/`) | embeddings.bin and its metadata, progress registry | generate, update for files, wait | HTTP endpoint, index, watcher |
| BM25 (`index/bm25.rs`) | tantivy directory, ready sentinel, reader cache | build, ensure, mark stale, search | index_project, watcher |
| Knowledge (`knowledge/`, `index/knowledge_bm25.rs`) | documents.bin, hashes, text index, embeddings | refresh, search, read | files, endpoint |
| Session (`session.rs`) | seen contents and targets, cached investigate answers, epochs | record, lookup, invalidate, evict | investigate, reads, cache |
| Indexer (`indexer/`) | none | walk, parse, extract | tree-sitter, symbol index |
| Symbol index and graph (`index/mod.rs`, `graph.rs`) | maps by id, file, kind, language; call graph | insert, remove_file, rebuild | every query |
| Query tools (`tools/*.rs`) | none | trace, usages, callers, impact, changes, search, outlines | a snapshot, git |
| Server, CLI (`main.rs`, `bin/`) | none | parse arguments, dispatch | the tools |

What is hard in this code: several writers (index runs, the watcher, other processes)
share two files, a cache and three derived stores with no common lock; the index and
the metadata that vouches for it are saved one after the other, around a crash; the
cache is filled outside any lock; events arrive on a thread of their own through a
bounded channel that may drop them; a flush can fail half way and goes on; twenty
hand-written walks over syntax trees must agree on containers and comments; searches
over graphs cut themselves off at a cost or a depth. `PROJECT.json` lists each hazard
at its line with the properties that watch it.

What makes the parts correct: the change log is a gapless window of the newest
revisions and a feed is called complete only when it is; what is answered "cached"
matches the tree; no superseded snapshot, answer or text index is served; every change
the watcher is told of reaches the disk and none is forgotten; a stop request ends the
watcher, and one watcher watches; a store that is called ready holds the vectors of
the present tree, of the model its metadata names; the lists of the index tell of its symbols, and these of
the files; the graph says what the sources say; pages tell everything once; what is
said of an impact rests on a chain of relations.

## 2. Modules

Models with concurrent actors:

* `ChangeLog` - `RecordChange` (`IndexMeta::record_change`), the bounded log, and the
  feed of `get_index_changes` with its completeness test, as operators. `IndexStore`
  extends it - the disk, the cache, index runs, cache misses, the watcher's flushes,
  edits and crashes.
* `TreeFollower` - the abstract promise of a watcher: it may owe more than necessary,
  never less. `Watcher` - the handler thread, the channel, the overflow flag and the
  debounce loop; it implements `TreeFollower`.
* `WatchLifecycle` - registries, watch.json and watch.stop: calls of several processes
  that start and stop watchers, loops that end by themselves, deaths.
* `TextIndex` - the BM25 directory, its sentinel and the cached reader.
* `EmbedStore` - embeddings.bin, its metadata and temporary file, the tasks that write
  them, and their callers. `Readiness` extends it - what `wait_for_embeddings` and
  `ensure_project_ready` tell a client.
* `SessionTable` - the table of sessions, its eviction, cached answers and epochs, as
  operators. `AnswerCache` extends it - investigate calls next to the writers that
  invalidate. `ReadMemory` extends that - what get_lines, get_symbol and
  get_file_outline say of earlier reads.
* `EmbedClient` - chunks, parallel requests, retries and the formats of answers, as
  operators; `KnowledgeDocument` - parsing of Markdown into sections, links and trust,
  and into the units a discovery of documents tells; `KnowledgeBase` composes the two
  with the stores of the knowledge base.

Models of algorithms, and what they run over:

* `SyntaxTree`, `ExtractCurly`, `ExtractNative`, `ExtractScript`, `Extraction` -
  syntax trees and the nineteen extractors. `ScanPolicy` - which paths a walk and a
  flush take. `SymbolIndex` - the maps of the index, runs, flushes and loads, for any
  parser; `Indexing` puts the three together.
* `CallScan` - calls and references read off a symbol's text: imports, receivers,
  local names. `NavigationGraph` - the graph and the queries with and without it.
  `ExecutionPath` - the tracer. `SearchPages` - which files search_content and
  search_files take, what they find there and how they rank it, as operators.
  `UsagePages` - find_usages, find_callers, find_callees and the two searches page by
  page, while files change and the session remembers.
* `RepoProfile` - roles and archetypes. `ImpactAnalysis` - the walk of
  `impact_from_seeds`. `ChangeImpact` - diffs mapped to symbols, and the impact of
  both revisions.

`MC...` modules instantiate these for TLC, `..._proof` modules hold the theorems. An
operator named `Fault...` is not part of a model: it is a plausible mistake that
`PROJECT.json` puts in a definition's place to show that a property would notice.

The composed models share variables through EXTENDS. The others are composed by what
they take for granted: `IndexStore` takes from `Watcher` that events reach a flush and
adds what a flush does to the disk; `TextIndex`, `AnswerCache` and `EmbedStore` take
an index run and a flush in the steps that matter to their own store and add what
follows; `SymbolIndex` says what the versions of a file in these models stand for,
`Indexing` what the symbols in `SymbolIndex` do.

### Stores and their writers

*IndexStore.* `indexBin`, `metaJson` and `cache` are the shared state; each actor has
a program counter and its local variables. One action is one access to shared state:
`IndexStart` (the exclusions in meta.json are compared), `IndexReadMeta` (it is read
again), `IndexCompare` (its mtimes are compared), `IndexLoadCached` and
`IndexInsertCached` (the cached answer; `IndexReadFails`, a file that cannot be read,
indexes again), `IndexParse`, `IndexSaveIndex`, `IndexSnapshot`, `IndexLoadMeta`,
`IndexSaveMeta`, `IndexPublish` (`do_index_project` in order), `ReadLoadIndex`,
`ReadLoadMeta`, `ReadInsert` (`load_project_index` on a miss), `FlushBatch` /
`FlushResync` and the `Watch...` steps (`reindex_batch` and `full_resync` in order),
`Crash`. Failing saves and walks are alternatives of the steps. `Notify` is the
handler, which is told of a change some time after it, in one event or several, of
which the channel may take one and refuse another; a flush needs a path in the channel,
which is what arms the deadline. A snapshot of mtimes (`Snapshots`) is that
of the tree, or blank: `current_source_snapshot` answers so when a stat fails on what
it has just walked. A version of a file is its mtime, taken from a clock that ticks
with every change; a file defines one symbol; the tree is one directory; a save
(temporary file plus rename) is one step, which holds for one writer of a file at a
time. History variables steer nothing: `overlapped` and `raceOnDisk` record that
something changed under an index run, or that it saved an index under other exclusions
than the metadata still names; `misled` the runs whose decision met such a race,
another writer's save or a failed stat before they loaded; `lost` the files whose
mtimes a failed stat took out of meta.json; `served` is the content clients know.

*Watcher.* `Handle` and `MarkOverflow` are the notify handler: a failed `try_send` and
the store to the flag are two steps. `Receive`, `DebounceExpires`, `ChannelClosed`,
`StopRequested` are the arms of the `select!`; `BeginFlush` is the swap of the flag in
`flush_pending`, `FlushReads` the read of the tree, `ResyncFails` the early return of
`full_resync`, `EndFlush` the clearing of the pending set. `Drop` is the end of the
`ProjectWatcher`, `RequestStop` the flag of `external_stop`. An armed deadline may
expire at any moment the loop waits.

*WatchLifecycle.* A call runs `watch` (`Watch`, `CheckExternal`, `ClearStale`,
`CheckClaim`, `Claim`, `Spawn`, `Register`), `stop`, or `external_stop` with its
polls, one access to the registry, watch.json or watch.stop each. `LoopStep` is the
loop of a spawned watcher as it sees the flag or its closed channel; `Crash` leaves
the files. History: `overlap` (two calls, or a call and the end of a loop, were under
way at once), `stray` (a watcher was dropped after its loop had ended by itself),
`stopped` (what a call said it stopped).

*TextIndex.* Runs and flushes drop the cached snapshot, remove the sentinel and drop
the reader in their own orders; `ensure` finds the sentinel or builds in four steps
(remove, create, commit, sentinel). The removal goes file by file (`BuildErase` takes
any of the files, `BuildRemove` ends it), so that two builders, a failure and a death
in between, or halfway through the removal, do what they do. Searchers fill the cache,
ensure, open and keep a reader. tantivy is external: a commit replaces the directory's
list of segments by the writer's own. History: `quiet`, `settled`, `buildRace`.

*EmbedStore, Readiness.* A task is a call of `generate_embeddings` or
`update_embeddings_for_files`: `Load`, `Plan` (metadata, what is reusable, what to
embed), one `EmbedOne` per answer, then the save taken apart: `Open` empties the
temporary file, `Fill` writes to the file that was opened, `Rename` moves it,
`SaveMeta` writes the metadata, `SaveFails` is every `?` on the way. File handles
follow a renamed file, so that two writers of one temporary name do what a POSIX file
system does. A document is the version parsed, the version whose text was read, and
the form of its path; a configuration stands for endpoint, model and format.
`Readiness` adds a client that polls the progress registry, or counts the store when
the registry knows nothing. History: `dirty` (work was lost since the last undisturbed
generation), `orphan` (a save stopped between the two files) and `overlapped` (two
tasks ran at once), both until a forced generation that ran alone has replaced every
vector.

*AnswerCache, ReadMemory.* An investigate call looks up under the epoch it read, loads
or fills the snapshot, and stores its answer under that same key. (The code loads the
index at investigate.rs:350 and again, after awaits, for some of its parts; the model
loads it once. What is claimed is about the key, under which any later load is as good
as the first: one that an invalidation overtook is stored under an old one.) Runs
insert and bump, flushes invalidate and bump. Other projects push the session out of
the table, and a session that returns starts at epoch 0. Only the order of ticks is
ever used, so a bounded map from keys to ticks is a sequence, most recent last.
History marks on answers and calls: `stale` (an invalidation came between), `raced`
(computed from a snapshot superseded when it was cached), `evicted`.

*KnowledgeBase.* A call walks the files (`ReadFile`, `DropGone`), keeps or rebuilds
the text index (`Discard` begins to remove the old one, whose sentinel may stand until
`Erase` has taken the last file), saves documents.bin and then the hashes, and
searches, reads or locates; a search cannot open what is half removed (`SearchFails`).
It fetches a bounded number of hits and filters these, and spawns the generation of
embeddings and ranks with the vectors there are. A task sends chunks side by side,
tries them again, embeds and saves. Failures and deaths may come at any step; `torn`
remembers, of calls that were cut short in the removal or before the last file was
saved, what they had read. A heading may have an indent, a quote or a list mark before
it on its line. A line has a kind and words; the splitting of Markdown into lines of
such kinds, YAML values and the BM25 scores are external, or ranks.

### Symbols and graphs

*Extraction.* A node of a syntax tree has its kind, field, name, second name, tag,
children and lines. Each parser is one step of its walk - what it emits and which
nodes it visits with which container - and `Walk` repeats the step. Documentation is
the set of lines of the comments taken (C++ gives it to classes and structs only).
Signatures are left out. The trees themselves come from tree-sitter.

*SymbolIndex.* The maps by file, kind and language are one set of entries with copies,
because an id can be inserted twice; `FullIndex`, `Flush` and `Load` are the ways an
index changes. `Parse` and the two policies (of the walk and of the watcher) are
constants.

*CallScan, NavigationGraph.* A line holds its tokens, the calls of the syntax tree
that begin on it, and the name it binds; what a call names is a sequence of nodes,
each with the places of its kids. References are a set, each with where it was found
and the rank of its symbol, so that the sort and the dropping of adjacent repeats are
relations on them. Confidences are in hundredths. Both branches of
`collect_direct_callable_references` and `collect_incoming_callable_references` are
modelled: over the graph and without it. A file may be unreadable, or readable and not
UTF-8 (`mangled`): the build of the graph takes nothing of the latter, a scan takes
the symbol's text lossily and the imports within it only (`StatementsFor`).

*SearchPages, UsagePages.* A page is a call of its own that collects from the
beginning: `AskUsages` to `TellUsages` read file by file, `TellReferences` asks the
graph, `AskContent` to `TellContent` walk and then read what the walk found,
`TellFiles` is one read of the tree. A line is a sequence of words; the syntax of
patterns, trigrams and tokens come with the question and the names. A file that is not
UTF-8 says nothing to `find_usages` (`SaidIn`). The walks and filters are those of
`ScanPolicy`, roles those of `RepoProfile`, and of the session the recent queries,
files and directories are kept with their ticks, because a score falls with the ticks
since.

*ExecutionPath, ImpactAnalysis.* A frontier of ways with cost or score, the best state
of each symbol, stale entries dropped when they are popped, exactly as the code does
it; ties between equally good ways are left open. A trace takes its seeds (`TakeSeed`:
the callers of a seed, and its search begun), follows or drops one way at a time
(`Expand`, `Drop`), chooses what matters (`Choose`), searches the calls among the
chosen for the way from start to goal (`Relax`, `Arrive`) and tells it call by call
from its end (`Retrace`). Of the ways one step offers, those that another of them
supersedes are left out: the code pushes and later drops them.

*ChangeImpact.* git is external: a comparison gives two revisions of each file (as
UTF-8: bytes that are not would be replaced, and offsets move), and the diff is taken
from them. Base and target are indexed and walked in turn, or a question names its
seeds.

## 3. Runs

| run | instance | shows |
|---|---|---|
| `IndexStore_watch` | 2 files, an index run, then a fair watcher with overflow; failing stats | `NoSilentDivergence`, `FlushReported`, `EventsReachDisk`, `OverflowRepaired` |
| `IndexStore_chaos` | 1 file; index run, watcher, reader; failing saves, crashes | `JournalIntact`, `FeedHonest`, `CacheCoherent` |
| `IndexStore_index` | 2 files, 2 index runs, 2 exclude lists, failing stats, crashes | `TrustSound` |
| `Watcher` | 3 files, channel of 2, stop, drop, failing walks | `NothingForgotten`, `ChangesRead`, `StopHonoured`, refinement `FollowsTree` |
| `WatchLifecycle` | 2 processes, 3 calls, 2 watchers, a crash | `NoLeakedWatcher`, `OneWatcherInTurn`, `StoppedIsStopped` |
| `TextIndex` | an indexer, the flush, a searcher; 3 saves, a crash, failures | `SentinelVouches`, `AloneRepairs` |
| `EmbedStore` | a generation, the update, a waiting client; 2 configurations, a restart, failures | `ReadyMeansEmbedded`, `VouchedModel`, `NeverTorn`, `KeepsVectors`, `WorkEnds`, `ReadyAnswersHonest` |
| `AnswerCache` | an indexer, the flush, 2 clients, a second project, a table of one | `NoStaleAnswer`, `CurrentAnswers`, `ReadsRecognised` |
| `Indexing` | some 9000 trees in 19 languages, and a project that is edited, indexed, flushed, reloaded | `IndexConsistent`, `IndexMatchesDisk`, `OwnersEnclose`, `DocsAbove` |
| `Navigation` | every call graph of 4 functions; a corpus of 4 languages, with a file that is not UTF-8; pages of every size; sessions that asked before | `GraphAgrees`, `NeighbourhoodTraced`, `CheapestPath`, `PagesTellAll` |
| `Changes` | 2 revisions of a call chain, a renamed class, a method that gains a line, classes that exchange names, links, large and missing files; direct questions | `ImpactGrounded`, `EditsMapped` |
| `Knowledge` | documents of every shape of 3 or 4 lines; a project of 2 documents, 2 processes, failures | `AnswersCurrent`, `KeptTogether`, `SectionsTile`, `EmbeddingsSettle` |

The type invariants of the stores are not in these runs: each is proved for all
instances (section 4). Every property of a run has a mutant.

Bounds. Two files suffice for exclude lists that differ and for a batch that misses
one of two events; three for a channel that is full while a path is pending.
`MaxStamp` bounds the changes to the tree, `MaxRevision` is the revision from which no
run indexes again (it may still answer from disk), `LogMax` is 1 or 2 so that the log
overflows, and `ListCap` is 1 in `IndexStore_watch`, where a batch of two files is
truncated. The two index runs of `IndexStore_index` are symmetric. `EmbedStore` has
one edit, two index runs or repairs and one restart: enough for a stale vector, a
partial store that is repaired, a change of model over an old store, and both writers
at once; one file, which is enough for the steps of a save, where the file is one
value, and for a plan, where each vector is judged by itself (the proofs of section 4
hold for any number, where vectors meet: a store that is partly one's own).
`TextIndex` has three saves so that what a builder holds can be superseded twice.
`WatchLifecycle` has a call more than a process, so that two calls of one process and
one of another meet. `AnswerCache` has a table and an answer list of one, so that
every new entry evicts. The corpora of `Indexing`, `Navigation`, `Changes` and
`Knowledge` are generated: every nesting of two declarations and a comment of a
language's templates, every assignment of near, far or no calls to six edges (a cycle
among them), every choice of kept, edited or deleted along a chain, every document
over an alphabet of line kinds up to its length. A search of the knowledge base
fetches one hit or two (`FetchLeast`, `FetchMost`; 60 and 300 in the code), so that a
filter meets hits that were not fetched. These four check each input apart; the bound
is the size of an input, and longer ones repeat what the walks do at each node. The
completeness of a trace is claimed to two calls from a seed, where no cheaper way can
cut one off.

The constants that allow faults (`CrashEnabled`, `IoFails`, `EndpointFails`, ...) keep
each run to the question it asks. Stats fail (`StatFailEnabled`) in `IndexStore_watch`
and `IndexStore_index`; in `IndexStore_chaos`, whose properties say nothing of mtimes,
they do not. Deadlock is not checked: when the bounds are used up nothing need happen,
and calls of an algorithm end.

Fairness. Only the program's own tasks are fair: debounce loops, generations and the
knowledge base's tasks are spawned tokio tasks, and the handler runs on notify's
thread (`WF`). `StopRequested` is strongly fair because `select!` picks at random
among the ready arms each time the loop waits. `EmbedStore` and `KnowledgeBase`
suppose that requests end: the client has a timeout. `EmbeddingsSettle` further
supposes that somebody searches again and again (`SF` of `AskToSearch`), because only
a search starts a generation, and that every call ends, which a call under way always
can. Nobody is obliged to edit, query, index, stop or crash.

### Where the code and its words differ

Met while modelling, and excepted by the properties as their comments say:

* a full resync ends with `IndexMeta::new`, so the revision falls to 0 and log and
  exclusions are lost (watcher.rs:370, against docs/tools.md:214 and format.rs:44);
  clients ahead of the persisted revision are then told that their feed is complete;
* a cache fill that loses the race with an invalidation caches the superseded index
  (index_project.rs:713, against cache.rs:11);
* the overflow flag may be raised after the flush that should see it, and no deadline
  is armed then (watcher.rs:115, against watcher.rs:112): `ChangesRead`,
  `EventsReachDisk` and `OverflowRepaired` wait for the next path;
* a file that vanishes between the walk and its stat makes `current_source_snapshot`
  answer with no mtimes and no error (index_project.rs:563, 585); a resync or an index
  run then saves meta.json without any (`lost`). Each comes back with the next flush
  of its file. Until then a restart indexes again, or, once a flush has stamped the
  directory again, takes an index as matching of which it has no mtimes; and two
  snapshots that are both blank are equal, so that a run whose own stat fails trusts
  it as well (`misled`);
* `index_project` decides on one read of meta.json, compares another and loads
  index.bin after that (index_project.rs:87, 100, 102): a save of another run in
  between gives "cached" for an index the decision was not about (`misled`);
* the store and its metadata are two reads: after a change of model, a writer that
  overlaps another keeps old vectors as compatible (embed/mod.rs:225, against
  embed/mod.rs:214);
* a save cut short between embeddings.bin and its metadata leaves vectors of the new
  model under the metadata of the old; set back to that model, the next generation
  takes them for its own and the project is called ready with them (embed/mod.rs:368,
  against embed/mod.rs:214);
* after a restart with another model `index_project` and `ensure_project_ready` say
  that embeddings are ready, with vectors of the former one: only a missing or an
  empty store is looked for (index_project.rs:121), where doctor warns of it
  (doctor.rs:320);
* `wait_for_embeddings` believes an entry of the progress registry that a former
  generation has left, until the new one has counted its symbols
  (wait_for_embeddings.rs:48-67): it then says "complete" of the former, whose end it
  reports as `embeddings_finished_at`;
* doctor's repair of an incomplete store starts nothing, because `index_project` looks
  only for a missing or an empty one (index_project.rs:121, against doctor.rs:404);
* calls to watch that overlap, and a watcher whose loop ended by itself, lead to a
  second watcher (watch_project.rs, against docs/releases/v0.14.0.md:21);
* callers of a deleted symbol are lost from an impact with several seeds
  (orchestrator.rs:903, against docs/tools.md);
* nothing removes an entry of the progress registry: after failed requests
  `wait_for_embeddings` waits until its timeout, and it says ready when all answers
  are in, before the store is saved;
* a page of search_files is cut at an offset out of a list that is ranked anew, and
  the page before it, now remembered, gives other scores to files whose path has words
  of the query: a file may be told twice and another never (search_files.rs:107,
  against "Call again with offset", search_files.rs:117); the files told are
  remembered by relative paths and looked for by absolute ones, so that they
  themselves are never recent;
* `find_usages` takes a file with one byte that is not UTF-8 for empty
  (find_usages.rs:187) and tells none of its usages; the pages tell everything but
  those;
* of such a file the navigation graph holds no call (graph.rs:129, 170), while without
  a graph the scan reads the symbol lossily (graph.rs:281) and tells its calls;
* `search_knowledge` fetches `clamp(4 * limit, 60, 300)` hits and filters afterwards
  (search_knowledge.rs:26, 124, 158): a filter may leave fewer than there are, or
  none;
* a section that `read_knowledge_document` serves is cut by the lines of the walk out
  of a file that is read again, so an edit in between moves it (against
  read_knowledge_document.rs:9-11);
* neighbouring sections share a line where a heading stands behind an indent, a quote
  or a list mark (document.rs:209): its range begins in the middle of the line;
* section ids are "unique within the document" (document.rs:64) but for headings like
  Setup, Setup, Setup 2.

What else the properties except, because the code does not give it:

* an edit between the parse and the stat of an index run is trusted wrongly, and so is
  a crash between index.bin and meta.json when the exclude list changed;
* an index run reports no removals (`FlushReported` is about the watcher), and edits
  before notify is registered are seen by nobody;
* a failed walk of a resync has already cleared the flag, and a run that fails between
  index.bin and the cache leaves the old snapshot;
* two writers of an embedding store may tear it or undo each other's work; two builds
  of the text index may leave a sentinel over an empty one, a removal of it that is
  cut short one over segments that lack others, until the next run or flush, and an
  open reader may not see a rebuild;
* the watcher's update is handed all former ids of a file as removed: it embeds
  unchanged documents again, loses their vectors when the endpoint fails, and names
  files by absolute paths;
* a session that was evicted counts its epochs from 0 and may serve an answer stored
  before;
* files the walk and the watcher judge differently (`path_is_excluded` matches a path
  where the walk prunes directories) are excepted from `IndexMatchesDisk`;
* a class that is renamed leaves its methods' new ids unreported where their text did
  not change, and two that exchange their names leave both: of a symbol that is not
  told `EditsMapped` claims that its lines stand in the other revision in their order,
  and that it reads the same under its id only where it has the same first and last
  line; Lua comments give evidence of calls, and `from . import x` resolves nothing;
* `find_usages` with a limit of 0 always has a next page, tells identifiers, type and
  field identifiers only, and searches files the index excludes;
* the text index of the knowledge base may be ahead of files whose hashes were not
  saved, or be half removed under its sentinel, so that searches fail, until a
  document changes; a call that reads the files as the one that was cut short had read
  them repairs this, while calls that were cut short over two different readings may
  leave files that never count as repaired.

## 4. Proofs

The assumptions on constants (`LogAssumption`, `StoreAssumption`, `WatcherAssumption`,
`OrderAssumption`, ...) say that sets of files are finite where they are counted, that
bounds are naturals, that the markers for "none" are not data, that a walk meets a
file once. Every run evaluates those of its modules. All theorems hold for any sets of
files, processes, clients, policies and any bounds, and are about the specification
the runs check, faults and crashes included. A hypothesis beside `Spec` in a theorem
chooses an instance the property is claimed for, by its constants only.

`IndexStore_proof`: `TypeCorrect`, `JournalAlwaysIntact` (`JournalIntact`),
`CompleteFeedCovers` (the completeness test of `get_index_changes` is sound for every
intact journal), `FeedAlwaysHonest` (`FeedHonest`), `CacheAlwaysCoherent`
(`CacheCoherent`). The invariant is `TypeOK /\ Journals`: `JournalIntact` alone is not
inductive, because index runs and the watcher hold a copy of the metadata between
reading and writing it, so `Journals` says that every copy at hand is an intact
journal too. `CacheCoherent` is inductive with the types: each step leaves index.bin
and the cache alone, or replaces the snapshot, or puts a writer between the two.

There, too, `CachedAnswersSound` (`TrustSound`), under the assumption that no watcher
is started, which is where the property is claimed. The argument is one of time:
`Recorded` (mtimes on record are of the past, and a directory that keeps its mtime
holds the files it held; a blank snapshot records a directory of no time),
`Undisturbed` (the index of a run that nobody overlapped is that of the tree when it
was parsed, and on disk once saved), and `DiskAgrees` (a file that keeps its recorded
mtime is indexed as it is). A change of the tree gives mtimes that no record has.
`Decided` carries the decision of a run that is not `misled` through its reads: what
it compared is what is on disk, then index.bin shows the tree it compared, then what
it has loaded does (`ComparedShows`).

And what a watcher does to the disk, where `index_project` does not write beside it
(`~ReindexWhileWatching`, as in the run): `FlushesReported` (the action property
`FlushReported`) and `NoChangeLost` (`NoSilentDivergence`). `Reports` says that the
index clients know is the watcher's own between flushes, and that during one they
differ in the files of the batch only, whose former symbols the watcher has kept: so
the entry covers the difference even when an earlier flush failed. `Caught` follows a
change through its flush: told to the handler and no longer in the channel, it is in
the watcher's index, then in index.bin, then in the mtimes of meta.json, unless it is
`lost`. `NoChangeLost` supposes `WatchFaithful`: saves succeed, since a flush that
fails half way is logged and not tried again; and where the channel may overflow there
is one exclude list only, since a resync forgets the others. Neither is an artefact:
TLC finds the property violated without them.

`Watching_proof`, of `Watcher`: `WatcherTypes`, `ChangesRemembered`
(`NothingForgotten`), `DeadlineArmed`, `WatcherFollowsTree` (the refinement, each step
being one of `TreeFollower` or a stutter). The invariant adds `Settled` (what a loop
that is not flushing holds) and `FlushAtHand` (what a flush under way was started
for): during a flush the channel and the flag have already been emptied and only the
flush still stands for the changes.

There, too, of `WatchLifecycle`: `WatchTypes`, `NoWatcherLeaks` (`NoLeakedWatcher`),
`OneInTurn` (`OneWatcherInTurn`), `StopsWhatItSays` (`StoppedIsStopped`). No leak is
inductive with `Owners` (whose the watchers are). The other two rest on `InTurn`:
while calls take turns there is one call and one loop, watch.json names its process,
and a call that goes on to start a watcher has seen that there is none.

`EmbedStore_proof`, first about writers that do not overlap: `EmbedTypes`,
`StoreNeverTorn` (`NeverTorn`), `VectorsVouched` (`VouchedModel`). The types need
`Tallies` (answers stored and outstanding never exceed the total). The rest follows
one writer: `Exclusive`, `OwnFile` (the temporary file is its own), `OwnVectors` (what
it holds is what is on disk before it reads the metadata, and only vectors of the
present configuration afterwards).

Then about the writer that runs alone, whatever happened before it: `ReadyIsEmbedded`
(`ReadyMeansEmbedded`), `VectorsKept` (the action property `KeepsVectors`) and
`ReadyAnswersKept` (`ReadyAnswersHonest`, about `Readiness`). Their invariant, `RInv`,
has a part for each promise of a task. `Repairs`: of every file it holds a vector, or
has a document in hand, of what the file is now, unless an edit waits to be flushed or
the recorded mtime betrays it; an update needs a store of which that is true already
(`Groundwork`), which is what `dirty` remembers. `Reuses`: a generation that may reuse
vectors has them. `Tells`: the registry is never told of more than is held. `Settled`
is what all this leaves on disk when everybody rests. That the vectors are of the
model the metadata names comes from `VouchedModel`; that this is the model in force is
claimed only of a wait that is told "complete" from the registry at rest, since a
generation of this process has then written the store.

`AnswerCache_proof`: `AnswerTypes`, `NeverStale` (`NoStaleAnswer`), `AlwaysCurrent`
(`CurrentAnswers`). `CallKeys` and `AnswerKeys` relate keys to the present epoch: a
call or an answer that an invalidation overtook is under an older one. `CacheFresh`,
`CallFresh` and `AnswerFresh` say that what is not of index.bin as it is will be
dropped by a writer under way. `AnswersBesideReads` carries both over to
`SessionSpec`, where reads push sessions about the same table.

And about those reads, `ReadsTold` (the action property `ReadsRecognised`).
`Histories` and `MemInv` relate the memory to all that was ever shown: a content that
is remembered has only contents shown after it as newer ones, and one that was pruned
has been followed by as many as are kept. The latter holds while reads come one by one
(`InTurn`): a read takes its tick before it is observed, and two that overlap may be
observed in the other order.

`SymbolIndex_proof`: `AlwaysConsistent` (`IndexConsistent`), `AlwaysMatchesDisk`
(`IndexMatchesDisk`), for any parser and any two policies. The lists are `Sound` and
what is in memory and on disk `Matches` the files that were not edited since. That a
greatest copy of an entry exists comes from finiteness (`GreatestExists`). The run
`Indexing` checks both with the real extractors and policies in place of the
constants.

`CallGraph_proof` holds the lemmas about the graph that `SymbolIndex_proof` and
`Navigation_proof` share. Of what is told over an index the former proves
`GraphAgreed` (`GraphAgrees`), `ImpactFounded` (`ImpactGrounded`) and `EditsAreMapped`
(`EditsMapped`), of `ChangesSpec`. They rest on what `ChangeImpact` assumes of its
constants (`ComparisonsAssumption`: ids are unique in a revision, symbols lie on lines
of their files, lines and calls are sequences; `QuestionsAssumption`: a depth is a
number; `DiffAssumption`, for `EditsAreMapped` only); whatever the texts, the imports,
the receivers and the names. What the graph is built of comes first: a reading
(`ScanIsGood`) refers to other symbols only, an ambiguous reference stays under its
cap, and no two are of one symbol, resolution and confidence. The last is what sorting
and dropping adjacent repeats is for, and what it rests on is that of two references
found at one place only one is to a given symbol (`SortedOnce`). So a call is never
ambiguous and a bucket keeps exactly one call of a target, the one a fresh reading
tells first (`CalleesAgree`, `CallersAgree`); a scan of a file that is UTF-8 is the
one the graph was built of (`ReadableCalleesAgree`). The lemma `Agreed` is about any
graph built of its index: the run `Navigation` checks the same of its own
specification, over a corpus.

The walk has the invariant `WalkInv`. `ImpactGrounded` says nothing until a walk is
over; what carries it there is that ways and impacted symbols lie in `Reach` of their
depth while it runs (`WaysReach`, `MetSo`), and that a walk which has not moved
(`Begun`) still holds its seeds at depth 0, best and within the limit, so that a lone
seed is expanded and never dropped (`LoneSeed`, `DropKeeps`). That an edge seen from
one side is an edge from the other (`BothWays`) needs that putting a bucket in order
loses no target, which a weight over calls, resolution and confidence shows
(`TargetsKept`). A graph is of its index in a later state because each operator down
to the texts is the same over the same index (`SameScan`, `SameGraph`). Of several
seeds one may be met from another and followed from there, its neighbours then a step
further than they are; the property claims nothing of these.

`EditsAreMapped` needs little of the walk, which changes neither the comparison nor
what is told (`ChangesMapped`), and much of the diff. Git is outside the code:
`KeptLines` is a constant, of which `DiffAssumption` says that it is an edit script
(it pairs equal lines, in order), that two equal texts are parsed to the same symbols
and that an id tells its file. A line that is not kept lies between two that are
(`Between`), so in a hunk, and its symbol is told (`UnkeptIsTouched`, `UntoldIsKept`).
Where all lines of a symbol are kept they stand in the other text in order
(`KeptIsScattered`); where the symbol of the same id has the same ends and all of its
lines are kept too, the kept lines rise in step from the first to the last, and both
read the same (`InStep`, `SameEndsSameText`): a line that came between would be a line
of the other symbol that is not kept. An earlier wording, that an untold symbol reads
the same under its id, was refuted in the attempt: two classes may exchange their
names about methods that stay.

`Navigation_proof`, of `NavigationSpec` and so beside paging clients and edits:
`NavigationInvHolds`, `NeighbourhoodsTraced` (`NeighbourhoodTraced`), `PathIsCheapest`
(`CheapestPath`), `TracesAgree` (`GraphAgrees`). They rest on `RequestsAssumption` (a
depth is a natural) and `ProjectsAssumption` (a symbol has an id of its own, texts are
lines with calls), for any texts, graphs, requests and roles. That the neighbourhood
of a seed is traced is not plain from the code: the search keeps one way to each
symbol and never follows one at the depth. A callee of a seed might so be known by a
cheap way of many hops only, cut off before it is followed. It is not, since a call
costs 30 at least and 58 at most (`CallIsPriced`): a way of two hops or more costs at
least 60, more than any single call, so what a seed calls is best reached in one hop
(`WayOK`, `Around`). With a wider spread of costs TLC finds the neighbourhood missed.
`Tracing` says of a symbol that is known that it was traced, or its best way still
waits, or lies at the depth (`Reached`).

The path is Dijkstra's, and the proof is his: `Connected` (each reached symbol has a
parent whose cost and the call's do not exceed its own), and of each symbol that does
not wait any more `Followable` (every call out of it leads to one that is known, at no
more than the sum). When the goal is reached, or nothing waits, no chain of calls is
cheaper (`NoChainIsCheaper`, by the first symbol on it that still waits). The sum
along a chain is a recursive function of its length; where that would take an
induction, the proof takes the least length at which a claim fails (`Counting`,
`SumsExist`). `Retrace` carries that what is told so far is a chain to the goal and
that its cost and the best of where it begins sum to no more than the best of the goal
(`CostPrepended`).

And of answers by pages: `PagesInvHolds` and `EveryPageTold` (`PagesTellAll`), for any
files and names, index, session, question and size of a page. Every kind of answer is
a finite set with an order by keys (`Keyed`, `Behind`): of a usage the turn of its
file, line and column; of a line found the turn of its file and the line; of a file
its score and its place by name. Callers and callees are one list that falls by
confidence. Such a set has one sorted list (`SortedExists`, `RankSorts`). Of that list
`PagesInv` says four things: the pages told so far, put together, are its start as far
as the offset (`Paged`); what a call has collected is a start of it as well, that of
the files it has read (`Gathered`); what is left to read is the rest of the files in
their turn; and what is indexed and was searched does not come again in the walk. A
page is so cut from the list itself (`PageIs`, `PageOfStart`). In a search for
contents the collected lines are those past the offset, so what counts is how many
were skipped (`SkipAndTake`): in the end the offset, or all there are. Once somebody
edits, all that is left is that no collected place occurs twice (`UsagesApart`,
`ContentApart`).

A search for files ranks anew on each page, by a session that every page changes. What
keeps the pages together is `Calm`: for a session with no other questions about these
names and nothing of these files, what a page makes it remember is of the question
itself, whose boost was the same before (`CalmStays`), and of paths from the root,
while the ranking looks for absolute ones, which no path from the root is
(`NothingRecent`). The property claims the whole ranking of such searches only; for
the others it claims that no page has a file twice.

These theorems rest on `TreesAssumption` (the orders list each file once; the leaves
of a text have their names in it and stand where they are compared), `AskedAssumption`
(who asks of a symbol asks of one of the index, limits are naturals),
`SearchAssumption` (scores and ticks are numbers, an absolute path begins with the
root directory) and that an index is finite (`ProjectsAssumption`). TLC evaluates them
all in the run `Navigation`.

There, too, of the text index that a search reads (`TextIndex`): `TextIndexTypes`,
`SentinelAlwaysVouches` (`SentinelVouches`), `AloneAlwaysRepairs` (`AloneRepairs`).
`OneBuilder` says that without a race one builder is in the directory and what it
wrote stays, and that a directory whose removal has begun is `torn` until it is gone;
`Alone` how far a writer has come that has the process to itself; `Settled` what the
searches after it find and keep.

`KnowledgeBase_proof`: `FilesKeptTogether` (`KeptTogether`) and `AnsweredFromFiles`.
Neither is inductive: between calls the three files belong together because of what
the call that wrote them held. `KInv` follows that call, of which there is one at a
time (`OneCall`, the lock). On its walk (`Walking`) the documents it has not come to
are as they were saved, and where nothing changed all of them are; that hashes of
files and documents agree is what makes a file with a known hash need no parsing
(`Trusted`). Behind the walk (`Writing`) the documents are those of the files, and
what is written is written from them, the text index being not whole while its removal
is under way; `Asking` says that a reader that was not left behind is one of these
documents. `AnsweredFromFiles` states what of `AnswersCurrent` needs no induction: a
sound search ranks the hits of a text index of the files it walked, and a sound read
tells their links and all that link to the document. That the best of these hits are
then told, at their lines, is about sorted lists and folds and stays with TLC.

Only model-checked, and why. Liveness (`EventsReachDisk`, `OverflowRepaired`,
`ChangesRead`, `StopHonoured`, `WorkEnds`, `EmbeddingsSettle`) is beyond the prover,
and so is the refinement's fairness. `SectionsTile`, `OwnersEnclose`, `DocsAbove`, and
of `AnswersCurrent` the ranking, the cutting by lines and the discovery, say what a
recursion over lines or trees computes, which needs induction over data.

## 5. Plan

Modelling and proofs are done but for section 6 and the properties that are only
model-checked. What would come next, as lemmas only: that the operators of
`SessionTable`, `ScanPolicy` and `RepoProfile` that recurse on nothing return what
their names say.

## 6. Not modelled

* The planning of the orchestrator beyond impact, how an investigate answer is
  composed, outlines, the ranking of symbols and steering: they render or order what
  read-only queries return. `search_symbols` is modelled as far as it uses the text
  index; the tokenizer and the ranking are tantivy's.
* Semantic search over the store and the boosts of the session for recent symbols and
  contents: they order results.
* `get_index_stats`, `get_usage_stats` and the reports of doctor, which repeat what
  other components keep; error values and lock helpers.
* Argument parsing and transport of the MCP server and the command line; they keep no
  state. The benchmark harness is no part of the program.
* `indexing.rs` is a guard whose `mark` nobody calls in this version, so it never
  fires.
* Signatures, layouts of documents and answers, delays of retries, progress
  notifications: wording and time.
