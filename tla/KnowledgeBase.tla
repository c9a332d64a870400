---------------------------- MODULE KnowledgeBase ----------------------------
(***************************************************************************)
(* The knowledge base of a project: knowledge/mod.rs, knowledge_bm25.rs    *)
(* and the tools that ask it (search_knowledge.rs,                         *)
(* read_knowledge_document.rs), with the discovery of documents.           *)
(*                                                                         *)
(*   saved     documents.bin and the hashes of meta.json                   *)
(*   text      the text index on disk and its sentinel; where its removal  *)
(*             was cut short it is not whole, and cannot be opened         *)
(*   vectors   embeddings.bin: a vector and a hash under each section id   *)
(*   reader    of each process, the text index it holds open               *)
(*   task      of each process, the generation of embeddings under way     *)
(*   call      of each process, the tool call under way                    *)
(*                                                                         *)
(* A process serves its calls one after the other (INDEX_LOCKS); calls of  *)
(* different processes do not overlap here, though nothing in the code     *)
(* keeps them apart.                                                       *)
(***************************************************************************)
EXTENDS KnowledgeDocument, EmbedClient

CONSTANTS
  Processes,
  Settings,      \* how it may be at first: the files, who asks, which
                 \* endpoint is configured, and bounds on edits and faults
  Order,         \* the order in which a walk meets the paths
  Edits(_),      \* what a user may make of a file
  Questions(_),  \* what may be asked of files
  Symbols,       \* the symbols of the index, by their id
  Closeness(_, _),  \* the closeness of a query and a text to the model, in thousandths
  FetchLeast, FetchMost   \* how many hits a search fetches (60 and 300 in the code)

(* A walk meets a path once.                                               *)
ASSUME OrderAssumption == Order \in Seq(ToSet(Order)) /\ IsInjective(Order)

VARIABLES setting, files, saved, text, vectors, reader, task, call, spent
vars == <<setting, files, saved, text, vectors, reader, task, call, spent>>

-----------------------------------------------------------------------------
(* A file: its extension, how a walk finds it, and its source.             *)
Gone == [extension |-> None, is |-> "gone", source |-> << >>]
IsKnowledge(f) == f.is = "text" /\ f.extension \in {"md", "markdown"}
Hash(source) == source
DocumentsOf(seen) == [p \in DOMAIN seen |-> ParseMarkdown(p, seen[p])]

(* What the text index holds of documents: every section by its full id.   *)
FullId(d, s) == <<d.path, s.id>>
Entry(d, s) ==
  [id |-> FullId(d, s), name |-> ToSet(IF s.heading = << >> THEN d.title ELSE s.heading),
   hierarchy |-> ToSet(FlattenSeq(s.hierarchy)), title |-> ToSet(d.title),
   content |-> UNION {ToSet(line.words) : line \in ToSet(s.content)}]
EntriesOf(documents) ==
  UNION {{Entry(documents[p], s) : s \in ToSet(documents[p].sections)} : p \in DOMAIN documents}
NoText == [ready |-> FALSE, whole |-> TRUE, entries |-> {}]
NoReader == [open |-> FALSE, entries |-> {}]

(* The sections worth embedding, with the text of each.                    *)
Embeddable(documents) ==
  UNION {{<<FullId(documents[p], s), EmbeddingText(documents[p], s)>> :
            s \in {x \in ToSet(documents[p].sections) : ~IsEmpty(x)}} : p \in DOMAIN documents}
Complete(documents, store) ==
  \A e \in Embeddable(documents) : e[1] \in DOMAIN store /\ store[e[1]].hash = e[2]

-----------------------------------------------------------------------------
Idle == [pc |-> "idle", question |-> None, documents |-> << >>, hashes |-> << >>, unread |-> << >>,
         seen |-> << >>, changed |-> FALSE, hits |-> << >>, answer |-> << >>, sound |-> TRUE]
NoIndex == [documents |-> << >>, hashes |-> << >>]
NoTask == [stage |-> "none", sections |-> {}, store |-> << >>, chunks |-> << >>]
Embeds == setting.server # "none"
pc(p) == call[p].pc
To(p, next) == call' = [call EXCEPT ![p].pc = next]
Calm == \A p \in Processes : pc(p) = "idle"

(* The files on disk belong together: every document has the hash of its   *)
(* source, and a text index that is ready is whole and theirs.             *)
Together ==
  /\ \A d \in DOMAIN saved.documents :
       d \in DOMAIN saved.hashes /\ saved.hashes[d] = Hash(saved.documents[d].source)
  /\ text.ready => text.whole /\ text.entries = EntriesOf(saved.documents)
Behind(p) == reader[p].open /\ reader[p].entries # text.entries

(* spent.torn: what the calls had read that were cut short while they      *)
(* wrote, until a call that has read the same has gone through.            *)
Mends(seen) == spent.torn \subseteq {seen}
Mended(p) == spent' = [spent EXCEPT !.torn = IF Mends(call[p].seen) THEN {} ELSE @]

Init ==
  /\ setting \in Settings /\ files = setting.files
  /\ saved = NoIndex /\ text = NoText /\ vectors = << >>
  /\ reader = [p \in Processes |-> NoReader]
  /\ task = [p \in Processes |-> NoTask] /\ call = [p \in Processes |-> Idle]
  /\ spent = [edits |-> 0, faults |-> 0, torn |-> {}]

Edit(path) ==
  /\ spent.edits < setting.edits
  /\ \E f \in Edits(path) : f # files[path] /\ files' = [files EXCEPT ![path] = f]
  /\ spent' = [spent EXCEPT !.edits = @ + 1]
  /\ UNCHANGED <<setting, saved, text, vectors, reader, task, call>>

-----------------------------------------------------------------------------
(* with_knowledge_index: load what was saved, ...                          *)
Ask(p, question) ==
  /\ Calm /\ p \in setting.asking /\ question.tool \in {"search", "read"}
  /\ call' = [call EXCEPT ![p] = [Idle EXCEPT !.pc = "walk", !.question = question, !.unread = Order,
                                    !.documents = saved.documents, !.hashes = saved.hashes]]
  /\ UNCHANGED <<setting, files, saved, text, vectors, reader, task, spent>>

(* ... read file by file what may be knowledge, parse what is new, and     *)
(* drop the documents of files that are not there any more.                *)
Put(map, key, value) == [k \in DOMAIN map \cup {key} |-> IF k = key THEN value ELSE map[k]]
Known(c, path, source) ==
  path \in DOMAIN c.hashes /\ c.hashes[path] = Hash(source) /\ path \in DOMAIN c.documents
Read(c, path, source) ==
  IF Known(c, path, source) THEN c
  ELSE [c EXCEPT !.documents = Put(@, path, ParseMarkdown(path, source)), !.changed = TRUE]
ReadFile(p) ==
  /\ pc(p) = "walk" /\ call[p].unread # << >>
  /\ LET path == Head(call[p].unread)
         f == files[path]
         rest == [call[p] EXCEPT !.unread = Tail(@)]
     IN call' = [call EXCEPT ![p] =
          IF IsKnowledge(f) THEN [Read(rest, path, f.source) EXCEPT !.seen = Put(@, path, f.source)] ELSE rest]
  /\ UNCHANGED <<setting, files, saved, text, vectors, reader, task, spent>>
DropGone(p) ==
  /\ pc(p) = "walk" /\ call[p].unread = << >>
  /\ LET c == call[p]
     IN call' = [call EXCEPT ![p].pc = "ensure",
                   ![p].documents = [d \in DOMAIN c.documents \cap DOMAIN c.seen |-> c.documents[d]],
                   ![p].hashes = [d \in DOMAIN c.seen |-> Hash(c.seen[d])],
                   ![p].changed = @ \/ ~(DOMAIN c.documents \subseteq DOMAIN c.seen),
                   ![p].sound = ~Behind(p) /\ (Together \/ Mends(c.seen))]
  /\ UNCHANGED <<setting, files, saved, text, vectors, reader, task, spent>>

(* ensure_knowledge_index_unlocked: the text index first, then the files.  *)
(* The directory of an old text index is removed file by file, and its     *)
(* sentinel may be the last of them.                                       *)
KeepIndex(p) ==
  /\ pc(p) = "ensure" /\ ~call[p].changed /\ text.ready
  /\ Mended(p) /\ To(p, "serve")
  /\ UNCHANGED <<setting, files, saved, text, vectors, reader, task>>
FaultDiscard(p) ==
  /\ pc(p) = "ensure" /\ (call[p].changed \/ ~text.ready)
  /\ text' = [text EXCEPT !.whole = FALSE]
  /\ To(p, "erase")
  /\ UNCHANGED <<setting, files, saved, vectors, reader, task, spent>>
Discard(p) ==
  /\ pc(p) = "ensure" /\ (call[p].changed \/ ~text.ready)
  /\ reader' = [reader EXCEPT ![p] = NoReader]
  /\ text' = [text EXCEPT !.whole = FALSE]
  /\ To(p, "erase")
  /\ UNCHANGED <<setting, files, saved, vectors, task, spent>>
Erase(p) ==
  /\ pc(p) = "erase"
  /\ text' = NoText
  /\ To(p, "build")
  /\ UNCHANGED <<setting, files, saved, vectors, reader, task, spent>>
Build(p) ==
  /\ pc(p) = "build"
  /\ text' = [ready |-> TRUE, whole |-> TRUE, entries |-> EntriesOf(call[p].documents)]
  /\ IF call[p].changed THEN To(p, "save_documents") /\ UNCHANGED spent ELSE To(p, "serve") /\ Mended(p)
  /\ UNCHANGED <<setting, files, saved, vectors, reader, task>>
SaveDocuments(p) ==
  /\ pc(p) = "save_documents"
  /\ saved' = [saved EXCEPT !.documents = call[p].documents]
  /\ To(p, "save_hashes")
  /\ UNCHANGED <<setting, files, text, vectors, reader, task, spent>>
FaultSaveHashes(p) ==
  /\ pc(p) = "save_hashes"
  /\ saved' = [saved EXCEPT !.hashes = @ @@ call[p].hashes]
  /\ Mended(p) /\ To(p, "serve")
  /\ UNCHANGED <<setting, files, text, vectors, reader, task>>
SaveHashes(p) ==
  /\ pc(p) = "save_hashes"
  /\ saved' = [saved EXCEPT !.hashes = call[p].hashes]
  /\ Mended(p) /\ To(p, "serve")
  /\ UNCHANGED <<setting, files, text, vectors, reader, task>>

(* A step fails and the call with it, or the process dies.                 *)
Tearing(p) == pc(p) \in {"save_documents", "save_hashes"} \/ (pc(p) = "erase" /\ text.ready)
Fault(p) ==
  spent' = [spent EXCEPT !.faults = @ + 1, !.torn = @ \cup (IF Tearing(p) THEN {call[p].seen} ELSE {})]
Fail(p) ==
  /\ spent.faults < setting.faults /\ pc(p) \in {"walk", "erase", "build", "save_documents", "save_hashes"}
  /\ call' = [call EXCEPT ![p] = Idle]
  /\ Fault(p)
  /\ UNCHANGED <<setting, files, saved, text, vectors, reader, task>>
Crash(p) ==
  /\ spent.faults < setting.faults
  /\ call' = [call EXCEPT ![p] = Idle]
  /\ reader' = [reader EXCEPT ![p] = NoReader]
  /\ task' = [task EXCEPT ![p] = NoTask]
  /\ Fault(p)
  /\ UNCHANGED <<setting, files, saved, text, vectors>>

-----------------------------------------------------------------------------
(* A filter on documents; one on OKF never lets a plain document pass.     *)
Passes(d, q) ==
  /\ q.tag # None => q.tag \in d.tags
  /\ q.type # None => d.okf # None /\ d.okf.type = q.type
  /\ q.status # None => d.okf # None /\ (IF d.okf.status = None THEN "stable" ELSE d.okf.status) = q.status
  /\ q.trust # None => d.okf # None /\ Tier(d.okf.trust) >= Tier(q.trust)
  /\ q.within # None => q.within \in ToSet(d.path)

(* The text index ranks the sections that hold the word, by where.         *)
Holding(e, word) == word \in e.name \cup e.hierarchy \cup e.title \cup e.content
Relevance(e, word) ==
  LET when(set, worth) == IF word \in set THEN worth ELSE 0
  IN when(e.name, 2000) + when(e.hierarchy, 1500) + when(e.title, 1200) + when(e.content, 1000)
Fetch(limit) == Min({FetchMost, Max({FetchLeast, 4 * limit})})
Limit(q) == Min({q.limit, 50})
Listed(set) == FoldSet(LAMBDA x, seq : Append(seq, x), << >>, set)
Best(seq, n) == LET sorted == SortSeq(seq, LAMBDA a, b : a.score > b.score)
                IN SubSeq(sorted, 1, Min({n, Len(sorted)}))
Hits(entries, q) ==
  Best(Listed({[id |-> e.id, score |-> Relevance(e, q.word), of |-> e.content] :
                 e \in {x \in entries : Holding(x, q.word)}}), Fetch(Limit(q)))

(* search_knowledge under the lock: the reader that is open, or one opened *)
(* now; where that cannot be, the call fails.  The filter passes over what *)
(* was fetched.                                                            *)
Opens(p) == reader[p].open \/ text.whole
Search(p) ==
  /\ pc(p) = "serve" /\ call[p].question.tool = "search" /\ Opens(p)
  /\ LET entries == IF reader[p].open THEN reader[p].entries ELSE text.entries
     IN /\ reader' = [reader EXCEPT ![p] = [open |-> TRUE, entries |-> entries]]
        /\ call' = [call EXCEPT ![p].pc = "spawn", ![p].hits = Hits(entries, call[p].question)]
  /\ UNCHANGED <<setting, files, saved, text, vectors, task, spent>>

SearchFails(p) ==
  /\ pc(p) = "serve" /\ call[p].question.tool = "search" /\ ~Opens(p)
  /\ call' = [call EXCEPT ![p] = Idle]
  /\ UNCHANGED <<setting, files, saved, text, vectors, reader, task, spent>>

(* maybe_spawn_knowledge_embeds: one task of a process at a time.          *)
FaultSpawn(p) ==
  /\ pc(p) = "spawn"
  /\ LET c == call[p]
         wanted == /\ Embeds /\ Embeddable(c.documents) # {}
                   /\ c.changed \/ vectors = << >>
     IN task' = IF wanted /\ task[p] = NoTask
                THEN [task EXCEPT ![p] = [NoTask EXCEPT !.stage = "load", !.sections = Embeddable(c.documents)]]
                ELSE task
  /\ To(p, "rank")
  /\ UNCHANGED <<setting, files, saved, text, vectors, reader, spent>>
Spawn(p) ==
  /\ pc(p) = "spawn"
  /\ LET c == call[p]
         wanted == /\ Embeds /\ Embeddable(c.documents) # {}
                   /\ c.changed \/ vectors = << >> \/ ~Complete(c.documents, vectors)
     IN task' = IF wanted /\ task[p] = NoTask
                THEN [task EXCEPT ![p] = [NoTask EXCEPT !.stage = "load", !.sections = Embeddable(c.documents)]]
                ELSE task
  /\ To(p, "rank")
  /\ UNCHANGED <<setting, files, saved, text, vectors, reader, spent>>

(* The candidates, each the first section of its id, adjusted for trust    *)
(* and age and blended with what the model says, seven to three.           *)
FirstWithId(d, id) == d.sections[Min({i \in DOMAIN d.sections : d.sections[i].id = id})]
Adjustment(okf) ==
  IF okf = None THEN 0
  ELSE LET trust == CASE okf.trust = "human-reviewed" -> 50 [] okf.trust = "machine-confirmed" -> 20 [] OTHER -> 0
           age == IF IsStale(okf) THEN -100 ELSE 0
           state == CASE okf.status = "deprecated" -> -100 [] okf.status = "draft" -> -20 [] OTHER -> 0
       IN Max({-250, Min({250, trust + age + state})})
Resolves(documents, id, q) ==
  /\ id[1] \in DOMAIN documents
  /\ id[2] \in {s.id : s \in ToSet(documents[id[1]].sections)}
  /\ Passes(documents[id[1]], q)
Result(documents, id, base) ==
  LET d == documents[id[1]]
      s == FirstWithId(d, id[2])
  IN [id |-> id, first |-> s.first, last |-> s.last, links |-> d.links, stale |-> IsStale(d.okf),
      score |-> Max({0, base + Adjustment(d.okf)})]
Blend(id, q, lexical, top, store, understood) ==
  IF ~understood THEN lexical
  ELSE LET share == IF lexical = 0 THEN 0 ELSE (lexical * 1000) \div top
       IN IF id \in DOMAIN store
          THEN IF lexical = 0 THEN Closeness(q.word, store[id].of) ELSE (7 * Closeness(q.word, store[id].of) + 3 * share) \div 10
          ELSE share
Ranked(c, store, understood) ==
  LET q == c.question
      lexical == SelectSeq(c.hits, LAMBDA h : Resolves(c.documents, h.id, q))
      near == SelectSeq(Listed(DOMAIN store), LAMBDA id : Resolves(c.documents, id, q))
      top == Max({0} \cup {h.score : h \in ToSet(lexical)})
  IN Best(IF lexical # << >> \/ ~understood
          THEN [i \in DOMAIN lexical |->
                  Result(c.documents, lexical[i].id, Blend(lexical[i].id, q, lexical[i].score, top, store, understood))]
          ELSE [i \in DOMAIN near |-> Result(c.documents, near[i], Blend(near[i], q, 0, 0, store, TRUE))],
          Limit(q))
Rank(p) ==
  /\ pc(p) = "rank"
  /\ \E response \in (IF Embeds /\ vectors # << >> THEN Answers(setting.server, <<call[p].question.word>>) ELSE {})
                       \cup {Failure("error")} :
       call' = [call EXCEPT ![p].pc = "answered",
                  ![p].answer = Ranked(call[p], vectors, EmbedQuery(response) # NoVector)]
  /\ UNCHANGED <<setting, files, saved, text, vectors, reader, task, spent>>

(* read_knowledge_document: the source is read again, after the walk, and  *)
(* cut by the lines the walk found.                                        *)
ReferencedBy(documents, path) ==
  {p \in DOMAIN documents \ {path} : path \in ToSet(documents[p].links)}
SliceLines(source, section) ==
  SubSeq(source, Max({1, section.first}), Min({section.last, Len(source)}))
ServeDocument(c, source) ==
  LET d == c.documents[c.question.document]
      named == {s \in ToSet(d.sections) : s.id = c.question.section}
  IN [outline |-> [i \in DOMAIN d.sections |-> <<d.sections[i].id, d.sections[i].first, d.sections[i].last>>],
      links |-> d.links, backlinks |-> ReferencedBy(c.documents, d.path), source |-> source,
      content |-> IF c.question.section = None THEN source
                  ELSE IF named = {} THEN None ELSE SliceLines(source, FirstWithId(d, c.question.section))]
ReadDocument(p) ==
  /\ pc(p) = "serve" /\ call[p].question.tool = "read"
  /\ LET c == call[p]
         f == files[c.question.document]
     IN call' = [call EXCEPT ![p].pc = "answered",
                   ![p].answer = IF c.question.document \in DOMAIN c.documents /\ f.is = "text"
                                 THEN <<ServeDocument(c, f.source)>> ELSE << >>]
  /\ UNCHANGED <<setting, files, saved, text, vectors, reader, task, spent>>

(* A discovery of documents reads the files themselves.                    *)
Locate(p, question) ==
  /\ Calm /\ p \in setting.asking /\ question.tool = "locate"
  /\ LET there == {f \in DOMAIN files : files[f].is \in {"text", "binary"}}
         held == [f \in there |-> [extension |-> files[f].extension,
                                   source |-> IF files[f].is = "text" THEN files[f].source ELSE None]]
         found == Discover(question, SelectSeq(Order, LAMBDA f : f \in there), held)
     IN call' = [call EXCEPT ![p] = [Idle EXCEPT !.pc = "answered", !.question = question, !.seen = files,
          !.answer = [i \in DOMAIN found |-> [found |-> found[i], related |-> RelatedSource(found[i], held, Symbols)]]]]
  /\ UNCHANGED <<setting, files, saved, text, vectors, reader, task, spent>>
Answer(p) ==
  /\ pc(p) = "answered"
  /\ call' = [call EXCEPT ![p] = Idle]
  /\ UNCHANGED <<setting, files, saved, text, vectors, reader, task, spent>>

-----------------------------------------------------------------------------
(* generate_knowledge_embeddings: the store is loaded at first and saved   *)
(* at last.  Between them the sections that are new or changed are sent in *)
(* chunks, and the answers stored as they come, each vector under the id   *)
(* and with the hash of the text at its place in the chunk.                *)
Missing(t) == {e \in t.sections : ~(e[1] \in DOMAIN t.store /\ t.store[e[1]].hash = e[2])}
NextStage(chunks) == IF With(chunks, "done") = DOMAIN chunks THEN "save" ELSE "request"
LoadStore(p) ==
  /\ task[p].stage = "load"
  /\ LET live == {e[1] : e \in task[p].sections}
         kept == [task[p] EXCEPT !.store = [id \in DOMAIN vectors \cap live |-> vectors[id]]]
         chunks == Chunks(Listed(Missing(kept)))
     IN task' = [task EXCEPT ![p] = [kept EXCEPT !.stage = NextStage(chunks), !.chunks = chunks]]
  /\ UNCHANGED <<setting, files, saved, text, vectors, reader, call, spent>>
Send(p) ==
  /\ task[p].stage = "request"
  /\ \E i \in Startable(task[p].chunks) : task' = [task EXCEPT ![p].chunks[i].is = "sent"]
  /\ UNCHANGED <<setting, files, saved, text, vectors, reader, call, spent>>
Texts(chunk) == [k \in DOMAIN chunk.items |-> chunk.items[k][2]]
StoreBatch(store, items, results) ==
  FoldLeft(LAMBDA acc, k : IF results[k] = NoVector THEN acc
                           ELSE Put(acc, items[k][1], [hash |-> items[k][2], of |-> results[k][1]]),
           store, [k \in DOMAIN items |-> k])
Retry(p, i) ==
  /\ \E response \in Outages : TriedAgain(response, task[p].chunks[i].attempt)
  /\ task' = [task EXCEPT ![p].chunks[i].attempt = @ + 1]
  /\ UNCHANGED <<setting, files, saved, text, vectors, reader, call, spent>>
Respond(p, i) ==
  /\ LET chunk == task[p].chunks[i]
         good == Answers(setting.server, Texts(chunk))
         bad == {r \in Outages \cup BadAnswers(setting.server, Texts(chunk)) : ~TriedAgain(r, chunk.attempt)}
     IN \E response \in good \cup (IF spent.faults < setting.faults THEN bad ELSE {}) :
          LET chunks == [task[p].chunks EXCEPT ![i].is = "done"]
              results == EmbedBatch(response, Len(chunk.items))
          IN /\ spent' = [spent EXCEPT !.faults = @ + (IF response \in good THEN 0 ELSE 1)]
             /\ task' = [task EXCEPT ![p].chunks = chunks, ![p].stage = NextStage(chunks),
                           ![p].store = StoreBatch(@, chunk.items, results)]
  /\ UNCHANGED <<setting, files, saved, text, vectors, reader, call>>
Embed(p) ==
  /\ task[p].stage = "request"
  /\ \E i \in With(task[p].chunks, "sent") : Retry(p, i) \/ Respond(p, i)
SaveStore(p) ==
  /\ task[p].stage = "save"
  /\ vectors' = task[p].store
  /\ task' = [task EXCEPT ![p] = [NoTask EXCEPT !.stage = "done"]]
  /\ UNCHANGED <<setting, files, saved, text, reader, call, spent>>
EndTask(p) ==
  /\ task[p].stage = "done"
  /\ task' = [task EXCEPT ![p] = NoTask]
  /\ UNCHANGED <<setting, files, saved, text, vectors, reader, call, spent>>

-----------------------------------------------------------------------------
Serve(p) ==
  \/ ReadFile(p) \/ DropGone(p) \/ KeepIndex(p) \/ Discard(p) \/ Erase(p) \/ Build(p) \/ SaveDocuments(p) \/ SaveHashes(p)
  \/ Search(p) \/ SearchFails(p) \/ Spawn(p) \/ Rank(p) \/ ReadDocument(p) \/ Answer(p)
Generate(p) == LoadStore(p) \/ Send(p) \/ Embed(p) \/ SaveStore(p) \/ EndTask(p)
AskToSearch(p) == \E q \in {x \in Questions(files) : x.tool = "search"} : Ask(p, q)
Next ==
  \/ \E path \in DOMAIN files : Edit(path)
  \/ \E p \in Processes :
       \/ Serve(p) \/ Generate(p) \/ Fail(p) \/ Crash(p)
       \/ \E q \in Questions(files) : Ask(p, q) \/ Locate(p, q)

(* Every call comes to its end (as it would under weak fairness of         *)
(* Serve(p): a call that is under way always has a step), tasks run on,    *)
(* and somebody searches again and again.                                  *)
CallsEnd(p) == []<>(pc(p) = "idle")
Fairness ==
  \A p \in Processes : CallsEnd(p) /\ WF_vars(Generate(p)) /\ SF_vars(AskToSearch(p))
Spec == Init /\ [][Next]_vars /\ Fairness

-----------------------------------------------------------------------------
(* What the documents as they were read in the walk say of a question.     *)
Distinct(sections) == Cardinality({s.id : s \in ToSet(sections)}) = Len(sections)
UniqueIds(documents) == \A p \in DOMAIN documents : Distinct(documents[p].sections)
(* The sections that hold the word, and of those that pass the filter the  *)
(* ones that are fetched whatever the order among sections of one rank.    *)
HoldingOf(documents, q) == {e \in EntriesOf(documents) : Holding(e, q.word)}
DueOf(documents, q) == {e \in HoldingOf(documents, q) : Passes(documents[e.id[1]], q)}
FetchedOf(documents, q) ==
  {e \in DueOf(documents, q) :
     Cardinality({x \in HoldingOf(documents, q) : Relevance(x, q.word) >= Relevance(e, q.word)}) <= Fetch(Limit(q))}
SearchRight(c, documents) ==
  LET q == c.question
      told == {r.id : r \in ToSet(c.answer)}
      fetched == FetchedOf(documents, q)
      where(r) == \E s \in ToSet(documents[r.id[1]].sections) :
                    s.id = r.id[2] /\ s.first = r.first /\ s.last = r.last
  IN UniqueIds(documents) =>
     /\ fetched # {} => told \subseteq {e.id : e \in DueOf(documents, q)} /\ Len(c.answer) >= Min({Limit(q), Cardinality(fetched)})
     /\ Cardinality(told) = Len(c.answer) /\ Len(c.answer) <= Limit(q)
     /\ \A r \in ToSet(c.answer) : Resolves(documents, r.id, q) /\ where(r)
ReadRight(c, documents) ==
  LET path == c.question.document
      a == c.answer[1]
  IN c.answer # << >> =>
       /\ a.backlinks = {p \in DOMAIN documents \ {path} : path \in ToSet(documents[p].links)}
       /\ a.source = c.seen[path] /\ c.question.section # None =>
            a.content = None \/ \E s \in ToSet(documents[path].sections) :
              s.id = c.question.section /\ a.content = SliceLines(a.source, s)
LocateRight(c) ==
  LET units == UNION {{Found(MatchScore(u, c.question.words), f, u) : u \in ToSet(Units(c.seen[f]))} :
                      f \in {x \in DOMAIN c.seen : c.seen[x].is = "text" /\ Concerns(c.question, c.seen[x])}}
      due == {x \in units : x.score > 0 /\ c.question.kind \in {None, x.unit.kind}}
      told == {x.found : x \in ToSet(c.answer)}
  IN /\ told \subseteq due
     /\ Len(c.answer) >= Min({c.question.limit, Cardinality(due)})
     /\ \A x \in due \ told : \A y \in told : x.score <= y.score

(* A call that found files that belong together, or that read what every   *)
(* call had read that was cut short, and has no reader another process     *)
(* left behind, answers what the files say that it read.  A search tells   *)
(* sections that hold the word and pass the filter, each at its lines, and *)
(* as many as the limit allows of those the text index ranks within what   *)
(* a search fetches: the filter comes after that.  A document is served    *)
(* with all that link to it, a section of it at its lines unless the file  *)
(* was edited since the walk; a discovery leaves out nothing better than   *)
(* what it tells.                                                          *)
AnswersCurrent ==
  \A p \in {x \in Processes : pc(x) = "answered"} :
    LET c == call[p]
    IN c.sound => CASE c.question.tool = "search" -> SearchRight(c, DocumentsOf(c.seen))
                    [] c.question.tool = "read" -> ReadRight(c, DocumentsOf(c.seen))
                    [] c.question.tool = "locate" -> LocateRight(c)

(* What is saved belongs together between calls.  A call that is cut short *)
(* while it writes, with the old text index half removed or the hashes not *)
(* written yet, may leave it apart; a call that reads the files as the one *)
(* that was cut short had read them puts it together again.                *)
KeptTogether == Calm /\ spent.torn = {} => Together

(* The sections of a document follow each other line by line over all that *)
(* is not front matter or blank, and a unit of the discovery covers its    *)
(* section and those below it.  A heading behind an indent or a mark has   *)
(* its line in common with the section before it, and no other line is     *)
(* shared.                                                                 *)
Shares(source, from, line) ==
  \E h \in ToSet(HeadingsOf(source, from)) : h.before # "nothing" /\ h.first = line
TilesIn(d) ==
  LET from == FrontEnd(d.source)
      s == d.sections
      covered == UNION {s[i].first..s[i].last : i \in DOMAIN s}
  IN /\ \A i \in 1..(Len(s) - 1) :
          /\ s[i + 1].first = s[i].last + (IF Shares(d.source, from, s[i + 1].first) THEN 0 ELSE 1)
          /\ s[i].first <= s[i].last
     /\ \A i \in (from + 1)..Len(d.source) : d.source[i].kind # "blank" => i \in covered
     /\ covered \subseteq (from + 1)..Len(d.source)
     /\ \A i \in DOMAIN s : s[i].level > 0 =>
          LET above == {j \in 1..(i - 1) : s[j].level \in 1..(s[i].level - 1)}
              over == {j \in above : \A k \in j..i : s[k].level >= s[j].level}
          IN s[i].hierarchy = (IF over = {} THEN << >> ELSE s[Max(over)].hierarchy) \o <<s[i].heading>>
UnitsCover(d) ==
  LET units == MarkdownUnits(d.source)
      s == SelectSeq(d.sections, LAMBDA x : x.level > 0)
      below(i) == {j \in i..Len(s) : \A k \in (i + 1)..j : s[k].level > s[i].level}
      plain(line) == ~Shares(d.source, 0, line)
  IN FrontEnd(d.source) = 0 =>
       /\ Len(units) = Len(s)
       /\ \A i \in DOMAIN s :
            /\ units[i].first = s[i].first
            /\ plain(s[Max(below(i))].last) => units[i].last = s[Max(below(i))].last
SectionsTile ==
  \A p \in Processes : pc(p) = "ensure" =>
    \A path \in DOMAIN call[p].documents : TilesIn(call[p].documents[path]) /\ UnitsCover(call[p].documents[path])

(* When edits and faults have ended, every section comes to be embedded as *)
(* it reads, and stays so, unless two sections share an id: the vector     *)
(* under its id is that of its own text, whatever the order and the format *)
(* of the answers, and the requests that were tried again or failed.       *)
Embedded(documents, store) ==
  \A e \in Embeddable(documents) : e[1] \in DOMAIN store /\ store[e[1]] = [hash |-> e[2], of |-> e[2]]
EmbeddingsSettle ==
  <>[](Embeds /\ UniqueIds(saved.documents) => Embedded(saved.documents, vectors))
=============================================================================
