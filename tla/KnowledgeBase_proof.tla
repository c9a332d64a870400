------------------------- MODULE KnowledgeBase_proof -------------------------
(***************************************************************************)
(* Proofs about KnowledgeBase, for every value of its constants.           *)
(*                                                                         *)
(* The invariant, KInv, follows the one call that is under way over the    *)
(* three files of the knowledge index.  Its walk keeps what it has not     *)
(* read yet as it was saved, and replaces what it has read by what the     *)
(* parser makes of it; behind the walk the documents are those of the      *)
(* files, and the text index, the documents and the hashes are written in  *)
(* that order, each behind the other.  At rest the three belong together   *)
(* unless a call was cut short while it wrote; then a document that has    *)
(* not the hash of its source is one that call had read, and a text index  *)
(* that is not of the documents is of those it had read, or was to be      *)
(* replaced by it.  So a call that reads the same finds everything changed *)
(* that has to be, and writes it again.                                    *)
(***************************************************************************)
EXTENDS KnowledgeBase, SequenceTheorems, TLAPS

(* One call is under way at a time, and a record of all its fields.        *)
Fields == {"pc", "question", "documents", "hashes", "unread", "seen", "changed", "hits", "answer", "sound"}
Steps == {"idle", "walk", "ensure", "erase", "build", "save_documents", "save_hashes", "serve", "spawn", "rank", "answered"}
Shape ==
  /\ DOMAIN call = Processes /\ \A p \in Processes : DOMAIN call[p] = Fields /\ call[p].pc \in Steps
  /\ DOMAIN reader = Processes /\ DOMAIN saved = {"documents", "hashes"}
  /\ DOMAIN text = {"ready", "whole", "entries"} /\ DOMAIN spent = {"edits", "faults", "torn"}
OneCall == \A p, q \in Processes : pc(p) # "idle" /\ pc(q) # "idle" => p = q

(* Documents as the parser makes them.                                     *)
Parsed(documents) ==
  /\ documents = [d \in DOMAIN documents |-> documents[d]]
  /\ \A d \in DOMAIN documents : documents[d] = ParseMarkdown(d, documents[d].source)

(* A document is saved with the hash of its source, but for one that a     *)
(* call had read that was cut short.                                       *)
SavedAs(d, source) ==
  d \in DOMAIN saved.documents /\ d \in DOMAIN saved.hashes /\ saved.hashes[d] = Hash(source)
OfTorn(d, source) == \E t \in spent.torn : d \in DOMAIN t /\ source = t[d]
HashesKept ==
  (\A p \in Processes : pc(p) # "save_hashes") =>
    \A d \in DOMAIN saved.documents :
      LET source == saved.documents[d].source IN SavedAs(d, source) \/ OfTorn(d, source)

(* A text index that is ready is whole and of the documents; where a call  *)
(* was cut short it may be of what that call had read, or half removed     *)
(* when that call was to change the documents.                             *)
Differs(t) == (\E d \in DOMAIN t : ~SavedAs(d, t[d])) \/ ~(DOMAIN saved.documents \subseteq DOMAIN t)
TextOf(documents) == text.whole /\ text.entries = EntriesOf(documents)
TextLeft(t) == IF text.whole THEN text.entries = EntriesOf(DocumentsOf(t)) ELSE Differs(t)
TextKept ==
  (\A p \in Processes : pc(p) \notin {"erase", "save_documents"}) /\ text.ready =>
    \/ TextOf(saved.documents)
    \/ spent.torn # {} /\ \A t \in spent.torn : spent.torn = {t} => TextLeft(t)

(* The walk: what has not been read yet is as it was saved.                *)
Walking(p) ==
  LET c == call[p]
  IN /\ c.unread \in Seq(ToSet(Order)) /\ IsInjective(c.unread)
     /\ \A i \in DOMAIN c.unread : c.unread[i] \notin DOMAIN c.seen
     /\ c.hashes = saved.hashes /\ DOMAIN c.seen \subseteq DOMAIN c.documents
     /\ \A d \in DOMAIN c.documents \ DOMAIN c.seen :
          d \in DOMAIN saved.documents /\ c.documents[d] = saved.documents[d]
     /\ ~c.changed => c.documents = saved.documents /\ \A d \in DOMAIN c.seen : SavedAs(d, c.seen[d])
     /\ c.changed => \E d \in DOMAIN c.seen : ~SavedAs(d, c.seen[d])
     /\ \A d \in DOMAIN c.seen : c.documents[d].source = c.seen[d] \/ OfTorn(d, c.documents[d].source)
     /\ Together => \A d \in DOMAIN c.seen : c.documents[d].source = c.seen[d]

(* Behind it: the documents are those of the files that were read.         *)
Walked == {"ensure", "erase", "build", "save_documents", "save_hashes", "serve", "spawn", "rank"}
Unsaved == {"ensure", "erase", "build", "save_documents", "save_hashes"}
Current(c) ==
  DOMAIN c.documents = DOMAIN c.seen /\ \A d \in DOMAIN c.seen : c.documents[d].source = c.seen[d]
NearlyCurrent(c) ==
  /\ DOMAIN c.documents = DOMAIN c.seen
  /\ \A d \in DOMAIN c.seen : c.documents[d].source = c.seen[d] \/ OfTorn(d, c.documents[d].source)
Trusted(p) == call[p].sound \/ Mends(call[p].seen)
Writing(p) ==
  LET c == call[p]
  IN /\ pc(p) \in Walked /\ Trusted(p) => Current(c)
     /\ pc(p) \in Unsaved => NearlyCurrent(c) /\ c.hashes = [d \in DOMAIN c.seen |-> Hash(c.seen[d])]
     /\ pc(p) \in {"ensure", "erase", "build"} /\ ~c.changed =>
          c.documents = saved.documents /\ \A d \in DOMAIN c.seen : SavedAs(d, c.seen[d])
     /\ pc(p) \in {"ensure", "erase", "build"} /\ c.changed => Differs(c.seen)
     /\ pc(p) = "ensure" /\ Trusted(p) /\ ~c.changed /\ text.ready => TextOf(c.documents)
     /\ pc(p) = "erase" => ~text.whole /\ (text.ready => c.changed)
     /\ pc(p) = "build" => ~text.ready
     /\ pc(p) \in {"save_documents", "save_hashes"} => TextOf(c.documents)
     /\ pc(p) = "save_hashes" => saved.documents = c.documents
     /\ pc(p) \in {"spawn", "rank"} => c.question.tool = "search"

(* A sound call asks the text index of its documents, and tells of them.   *)
DocumentTold(c, documents) ==
  LET path == c.question.document
      a == c.answer[1]
  IN c.answer # << >> =>
       /\ path \in DOMAIN documents /\ a.links = documents[path].links
       /\ a.backlinks = {d \in DOMAIN documents \ {path} : path \in ToSet(documents[d].links)}
Asking(p) ==
  LET c == call[p]
  IN c.sound =>
     /\ pc(p) = "ensure" => ~Behind(p)
     /\ pc(p) \in {"erase", "build", "save_documents", "save_hashes"} => ~reader[p].open
     /\ pc(p) = "serve" => text.entries = EntriesOf(c.documents) /\ ~Behind(p)
     /\ pc(p) \in {"spawn", "rank"} \/ (pc(p) = "answered" /\ c.question.tool = "search") =>
          c.hits = Hits(EntriesOf(c.documents), c.question)
     /\ pc(p) = "answered" /\ c.question.tool \in {"search", "read"} => Current(c)
     /\ pc(p) = "answered" /\ c.question.tool = "read" => DocumentTold(c, c.documents)

CallKept(p) ==
  /\ Parsed(call[p].documents) /\ (pc(p) = "walk" => Walking(p)) /\ Writing(p) /\ Asking(p)
KInv == /\ Shape /\ OneCall /\ Parsed(saved.documents) /\ HashesKept /\ TextKept
        /\ \A p \in Processes : CallKept(p)

-----------------------------------------------------------------------------
\* A call at rest keeps whatever there is to keep.
LEMMA RestKept ==
  ASSUME NEW p, (pc(p) = "idle")', Parsed(call[p].documents)'
  PROVE  CallKept(p)'
<1>1. call'[p].pc = "idle"
  BY DEF pc
<1>2. Writing(p)'
  BY <1>1 DEF Writing, Walked, Unsaved, pc
<1>3. Asking(p)'
  BY <1>1 DEF Asking, pc
<1> QED
  BY <1>1, <1>2, <1>3 DEF CallKept, pc

\* A step of one call, the others at rest.
LEMMA StepKept ==
  ASSUME KInv, NEW p \in Processes, pc(p) # "idle" \/ Calm, Shape',
         \A q \in Processes \ {p} : call'[q] = call[q],
         Parsed(saved.documents)', HashesKept', TextKept', CallKept(p)'
  PROVE  KInv'
<1>1. \A q \in Processes \ {p} : pc(q) = "idle" /\ Parsed(call[q].documents)
  BY DEF KInv, OneCall, Calm, CallKept
<1>2. \A q \in Processes \ {p} : call'[q].pc = "idle" /\ Parsed(call'[q].documents)
  BY <1>1 DEF pc
<1>3. OneCall'
  BY <1>2 DEF OneCall, pc
<1>4. \A q \in Processes \ {p} : CallKept(q)'
  BY <1>2, RestKept DEF pc
<1> QED
  BY <1>3, <1>4 DEF KInv

\* A step that leaves the calls and what they use alone.
LEMMA AsideKept ==
  ASSUME KInv, UNCHANGED <<saved, text, reader, call>>,
         DOMAIN spent' = DOMAIN spent, spent'.torn = spent.torn
  PROVE  KInv'
<1>1. /\ saved' = saved /\ text' = text /\ reader' = reader /\ call' = call
  OBVIOUS
<1>2. Shape' /\ OneCall' /\ Parsed(saved.documents)' /\ HashesKept' /\ TextKept'
  BY <1>1 DEF KInv, Shape, OneCall, HashesKept, TextKept, TextOf, TextLeft, Differs, SavedAs, OfTorn, pc
<1>3. ASSUME NEW p \in Processes PROVE CallKept(p)'
  <2>1. CallKept(p)
    BY DEF KInv
  <2>2. Parsed(call'[p].documents) /\ ((pc(p) = "walk")' => Walking(p)')
    BY <1>1, <2>1 DEF CallKept, Walking, SavedAs, OfTorn, Together, pc
  <2>3. Writing(p)'
    BY <1>1, <2>1 DEF CallKept, Writing, Trusted, Mends, NearlyCurrent, OfTorn, TextOf, Differs, SavedAs, pc
  <2>4. Asking(p)'
    BY <1>1, <2>1 DEF CallKept, Asking, Behind, pc
  <2> QED
    BY <1>1, <2>2, <2>3, <2>4 DEF CallKept
<1> QED
  BY <1>2, <1>3 DEF KInv

\* Documents of the files that were read are what the parser makes of these.
LEMMA CurrentDocuments ==
  ASSUME NEW c, Parsed(c.documents), Current(c)
  PROVE  c.documents = DocumentsOf(c.seen)
<1>1. c.documents = [d \in DOMAIN c.seen |-> c.documents[d]]
  BY DEF Parsed, Current
<1>2. \A d \in DOMAIN c.seen : c.documents[d] = ParseMarkdown(d, c.seen[d])
  BY DEF Parsed, Current
<1> QED
  BY <1>1, <1>2 DEF DocumentsOf

\* No documents are parsed documents.
LEMMA NothingParsed == Parsed(<< >>)
<1>1. DOMAIN << >> = {}
  OBVIOUS
<1>2. << >> = [d \in DOMAIN << >> |-> << >>[d]]
  BY <1>1
<1> QED
  BY <1>1, <1>2 DEF Parsed

\* The parser keeps the source and the path (knowledge/mod.rs, parse_markdown).
LEMMA SourceParsed ==
  ASSUME NEW path, NEW source
  PROVE  ParseMarkdown(path, source).source = source /\ ParseMarkdown(path, source).path = path
  BY DEF ParseMarkdown

\* It holds at first: nothing is saved, nobody asks.
LEMMA KInvInit ==
  ASSUME Init
  PROVE  KInv
<1>1. /\ saved = NoIndex /\ text = NoText
      /\ reader = [p \in Processes |-> NoReader] /\ call = [p \in Processes |-> Idle]
      /\ spent = [edits |-> 0, faults |-> 0, torn |-> {}]
  BY DEF Init
<1>2. \A p \in Processes : call[p].pc = "idle" /\ call[p].documents = << >> /\ DOMAIN call[p] = Fields
  BY <1>1 DEF Idle, Fields
<1>3. Shape /\ OneCall
  BY <1>1, <1>2 DEF Shape, OneCall, pc, Steps, NoIndex, NoText
<1>4. saved.documents = << >> /\ saved.hashes = << >> /\ Parsed(saved.documents)
  BY <1>1, NothingParsed DEF NoIndex
<1>5. HashesKept
  <2>1. DOMAIN << >> = {}
    OBVIOUS
  <2> QED
    BY <1>4, <2>1 DEF HashesKept
<1>6. TextKept
  BY <1>1 DEF TextKept, NoText
<1>7. ASSUME NEW p \in Processes PROVE CallKept(p)
  <2>1. pc(p) = "idle" /\ Parsed(call[p].documents)
    BY <1>2, NothingParsed DEF pc
  <2>2. Writing(p) /\ Asking(p)
    BY <2>1 DEF Writing, Walked, Unsaved, Asking
  <2> QED
    BY <2>1, <2>2 DEF CallKept
<1> QED
  BY <1>3, <1>4, <1>5, <1>6, <1>7 DEF KInv

\* The files are kept where no step writes them and none was between them.
LEMMA RestOfFiles ==
  ASSUME KInv, UNCHANGED <<saved, text, spent>>,
         \A q \in Processes : pc(q) \notin {"erase", "save_documents", "save_hashes"}
  PROVE  HashesKept' /\ TextKept'
<1>1. saved' = saved /\ text' = text /\ spent' = spent
  OBVIOUS
<1>2. HashesKept'
  BY <1>1 DEF KInv, HashesKept, SavedAs, OfTorn
<1>3. TextKept'
  BY <1>1 DEF KInv, TextKept, TextOf, TextLeft, Differs, SavedAs
<1> QED
  BY <1>2, <1>3

\* A call begins its walk with what is saved.
LEMMA AskKept ==
  ASSUME KInv, NEW p \in Processes, NEW question, Ask(p, question)
  PROVE  KInv'
<1>1. /\ Calm /\ UNCHANGED <<saved, text, reader, spent>>
      /\ call' = [call EXCEPT ![p] = [Idle EXCEPT !.pc = "walk", !.question = question, !.unread = Order,
                                        !.documents = saved.documents, !.hashes = saved.hashes]]
  BY DEF Ask
<1>2. DOMAIN call = Processes /\ Shape
  BY DEF KInv, Shape
<1>3. /\ DOMAIN call'[p] = Fields /\ call'[p].pc = "walk" /\ call'[p].unread = Order
      /\ call'[p].documents = saved.documents /\ call'[p].hashes = saved.hashes
      /\ call'[p].seen = << >> /\ call'[p].changed = FALSE
      /\ \A q \in Processes \ {p} : call'[q] = call[q]
  BY <1>1, <1>2 DEF Idle, Fields
<1>4. Shape'
  BY <1>1, <1>2, <1>3 DEF Shape, Steps
<1>5. Parsed(saved.documents)' /\ HashesKept' /\ TextKept'
  BY <1>1, <1>2, RestOfFiles DEF KInv, Calm, pc
<1>6. Walking(p)'
  <2>1. DOMAIN << >> = {}
    OBVIOUS
  <2> QED
    BY <1>1, <1>3, <2>1, OrderAssumption DEF Walking
<1>7. Writing(p)'
  BY <1>3 DEF Writing, Walked, Unsaved, pc
<1>8. Asking(p)'
  BY <1>3 DEF Asking, pc
<1>9. CallKept(p)'
  BY <1>1, <1>3, <1>6, <1>7, <1>8 DEF KInv, CallKept
<1> QED
  BY <1>1, <1>3, <1>4, <1>5, <1>9, StepKept

\* A step of a call that changes none of the files.
LEMMA FilesKept ==
  ASSUME KInv, NEW p \in Processes, UNCHANGED <<saved, text, spent>>,
         pc(p) \notin {"erase", "save_documents", "save_hashes"},
         \A q \in Processes \ {p} : call'[q] = call[q]
  PROVE  Parsed(saved.documents)' /\ HashesKept' /\ TextKept'
<1>1. saved' = saved /\ text' = text /\ spent' = spent
  OBVIOUS
<1>2. \A q \in Processes \ {p} : pc(q)' = pc(q)
  BY DEF pc
<1>3. HashesKept'
  BY <1>1, <1>2 DEF KInv, HashesKept, SavedAs, OfTorn
<1>4. TextKept'
  BY <1>1, <1>2 DEF KInv, TextKept, TextOf, TextLeft, Differs, SavedAs
<1> QED
  BY <1>1, <1>3, <1>4 DEF KInv

\* What one step of the walk does to the call that takes it.
LEMMA ReadFileEffect ==
  ASSUME KInv, NEW p \in Processes, ReadFile(p)
  PROVE  LET c == call[p]
             path == Head(c.unread)
             source == files[path].source
         IN /\ pc(p) = "walk" /\ c.unread # << >> /\ UNCHANGED <<saved, text, reader, spent>>
            /\ DOMAIN call' = Processes /\ \A q \in Processes \ {p} : call'[q] = call[q]
            /\ DOMAIN call'[p] = Fields /\ call'[p].pc = "walk" /\ call'[p].unread = Tail(c.unread)
            /\ call'[p].hashes = c.hashes /\ call'[p].sound = c.sound
            /\ \/ call'[p].documents = c.documents /\ call'[p].changed = c.changed /\ call'[p].seen = c.seen
               \/ /\ call'[p].seen = Put(c.seen, path, source)
                  /\ \/ /\ Known(c, path, source)
                        /\ call'[p].documents = c.documents /\ call'[p].changed = c.changed
                     \/ /\ ~Known(c, path, source)
                        /\ call'[p].documents = Put(c.documents, path, ParseMarkdown(path, source))
                        /\ call'[p].changed = TRUE
<1> DEFINE c == call[p]
           path == Head(c.unread)
           f == files[path]
           rest == [c EXCEPT !.unread = Tail(@)]
           read == Read(rest, path, f.source)
           next == IF IsKnowledge(f) THEN [read EXCEPT !.seen = Put(@, path, f.source)] ELSE rest
<1>1. /\ c.pc = "walk" /\ c.unread # << >> /\ UNCHANGED <<saved, text, reader, spent>>
      /\ call' = [call EXCEPT ![p] = next]
  BY DEF ReadFile, pc
<1>2. DOMAIN call = Processes /\ DOMAIN c = Fields
  BY DEF KInv, Shape
<1>3. /\ DOMAIN rest = Fields /\ rest.pc = c.pc /\ rest.unread = Tail(c.unread) /\ rest.hashes = c.hashes
      /\ rest.sound = c.sound /\ rest.documents = c.documents /\ rest.changed = c.changed /\ rest.seen = c.seen
  BY <1>2 DEF Fields
<1>4. Known(rest, path, f.source) <=> Known(c, path, f.source)
  BY <1>3 DEF Known
<1> HIDE DEF rest, c, path, f
<1>5. /\ DOMAIN read = Fields /\ read.pc = c.pc /\ read.unread = Tail(c.unread) /\ read.hashes = c.hashes
      /\ read.sound = c.sound /\ read.seen = c.seen
      /\ \/ Known(c, path, f.source) /\ read.documents = c.documents /\ read.changed = c.changed
         \/ /\ ~Known(c, path, f.source)
            /\ read.documents = Put(c.documents, path, ParseMarkdown(path, f.source)) /\ read.changed = TRUE
  <2>1. CASE Known(c, path, f.source)
    BY <1>3, <1>4, <2>1 DEF Read
  <2>2. CASE ~Known(c, path, f.source)
    BY <1>3, <1>4, <2>2 DEF Read, Fields
  <2> QED
    BY <2>1, <2>2
<1> HIDE DEF read
<1>6. /\ DOMAIN next = Fields /\ next.pc = c.pc /\ next.unread = Tail(c.unread) /\ next.hashes = c.hashes
      /\ next.sound = c.sound
      /\ \/ next.documents = c.documents /\ next.changed = c.changed /\ next.seen = c.seen
         \/ /\ next.seen = Put(c.seen, path, f.source)
            /\ next.documents = read.documents /\ next.changed = read.changed
  BY <1>3, <1>5 DEF Fields
<1> HIDE DEF next
<1>7. call'[p] = next /\ DOMAIN call' = Processes /\ \A q \in Processes \ {p} : call'[q] = call[q]
  BY <1>1, <1>2
<1> QED
  BY <1>1, <1>5, <1>6, <1>7 DEF c, path, f, pc

\* The walk goes on: the file it has read is parsed, or known by its hash.
LEMMA ReadFileKept ==
  ASSUME KInv, NEW p \in Processes, ReadFile(p)
  PROVE  KInv'
<1> DEFINE c == call[p]
           path == Head(c.unread)
           source == files[path].source
<1>1. /\ c.pc = "walk" /\ c.unread # << >> /\ UNCHANGED <<saved, text, reader, spent>>
      /\ DOMAIN call' = Processes /\ \A q \in Processes \ {p} : call'[q] = call[q]
      /\ DOMAIN call'[p] = Fields /\ call'[p].pc = "walk" /\ call'[p].unread = Tail(c.unread)
      /\ call'[p].hashes = c.hashes /\ call'[p].sound = c.sound
      /\ \/ call'[p].documents = c.documents /\ call'[p].changed = c.changed /\ call'[p].seen = c.seen
         \/ /\ call'[p].seen = Put(c.seen, path, source)
            /\ \/ /\ Known(c, path, source)
                  /\ call'[p].documents = c.documents /\ call'[p].changed = c.changed
               \/ /\ ~Known(c, path, source)
                  /\ call'[p].documents = Put(c.documents, path, ParseMarkdown(path, source))
                  /\ call'[p].changed = TRUE
  BY ReadFileEffect DEF pc
<1> HIDE DEF source
<1>2. /\ c.unread \in Seq(ToSet(Order)) /\ IsInjective(c.unread)
      /\ \A i \in DOMAIN c.unread : c.unread[i] \notin DOMAIN c.seen
      /\ c.hashes = saved.hashes /\ DOMAIN c.seen \subseteq DOMAIN c.documents
      /\ \A d \in DOMAIN c.documents \ DOMAIN c.seen :
           d \in DOMAIN saved.documents /\ c.documents[d] = saved.documents[d]
      /\ ~c.changed => c.documents = saved.documents /\ \A d \in DOMAIN c.seen : SavedAs(d, c.seen[d])
      /\ c.changed => \E d \in DOMAIN c.seen : ~SavedAs(d, c.seen[d])
      /\ \A d \in DOMAIN c.seen : c.documents[d].source = c.seen[d] \/ OfTorn(d, c.documents[d].source)
      /\ Together => \A d \in DOMAIN c.seen : c.documents[d].source = c.seen[d]
      /\ Parsed(c.documents)
  BY <1>1 DEF KInv, CallKept, Walking, pc
<1>3. /\ Tail(c.unread) \in Seq(ToSet(Order)) /\ path = c.unread[1] /\ 1 \in DOMAIN c.unread
      /\ \A i \in DOMAIN Tail(c.unread) : i + 1 \in DOMAIN c.unread /\ Tail(c.unread)[i] = c.unread[i + 1]
      /\ \A i \in DOMAIN Tail(c.unread) : i \in Nat \ {0}
  BY <1>1, <1>2, HeadTailProperties
<1>4. IsInjective(Tail(c.unread)) /\ \A i \in DOMAIN Tail(c.unread) : Tail(c.unread)[i] # path
  BY <1>2, <1>3 DEF IsInjective
<1>5. path \notin DOMAIN c.seen
  BY <1>2, <1>3
<1>6. \A i \in DOMAIN Tail(c.unread) : Tail(c.unread)[i] \notin DOMAIN c.seen
  BY <1>2, <1>3
<1>7. (Together' <=> Together) /\ \A d, x : (SavedAs(d, x)' <=> SavedAs(d, x)) /\ (OfTorn(d, x)' <=> OfTorn(d, x))
  BY <1>1 DEF Together, SavedAs, OfTorn
<1>8. /\ \A d \in DOMAIN saved.documents :
           SavedAs(d, saved.documents[d].source) \/ OfTorn(d, saved.documents[d].source)
      /\ Together => \A d \in DOMAIN saved.documents : SavedAs(d, saved.documents[d].source)
  <2>1. \A q \in Processes : pc(q) # "save_hashes"
    BY <1>1 DEF KInv, OneCall, pc
  <2>2. HashesKept
    BY DEF KInv
  <2>3. Together => \A d \in DOMAIN saved.documents : SavedAs(d, saved.documents[d].source)
    BY DEF Together, SavedAs
  <2> QED
    BY <2>1, <2>2, <2>3 DEF HashesKept
<1> HIDE DEF path
<1>9. ASSUME call'[p].documents = c.documents /\ call'[p].changed = c.changed /\ call'[p].seen = c.seen
      PROVE  Walking(p)' /\ Parsed(call'[p].documents)
  <2>1. Walking(p)'
    BY <1>1, <1>2, <1>3, <1>4, <1>6, <1>7, <1>9 DEF Walking
  <2> QED
    BY <1>2, <1>9, <2>1
<1>10. ASSUME call'[p].seen = Put(c.seen, path, source), Known(c, path, source),
              call'[p].documents = c.documents /\ call'[p].changed = c.changed
       PROVE  Walking(p)' /\ Parsed(call'[p].documents)
  <2>1. /\ DOMAIN call'[p].seen = DOMAIN c.seen \cup {path} /\ call'[p].seen[path] = source
        /\ \A d \in DOMAIN c.seen : call'[p].seen[d] = c.seen[d]
    BY <1>5, <1>10 DEF Put
  <2>2. path \in DOMAIN c.documents /\ path \in DOMAIN c.hashes /\ c.hashes[path] = source
    BY <1>10 DEF Known, Hash
  <2>3. path \in DOMAIN saved.documents /\ c.documents[path] = saved.documents[path] /\ SavedAs(path, source)
    BY <1>2, <1>5, <2>2 DEF SavedAs, Hash
  <2>4. \/ c.documents[path].source = source
        \/ OfTorn(path, c.documents[path].source) /\ ~Together
    BY <1>8, <2>3 DEF SavedAs, Hash
  <2>5. /\ \A d \in DOMAIN call'[p].seen : \/ call'[p].documents[d].source = call'[p].seen[d]
                                          \/ OfTorn(d, call'[p].documents[d].source)
        /\ Together => \A d \in DOMAIN call'[p].seen : call'[p].documents[d].source = call'[p].seen[d]
    BY <1>2, <1>10, <2>1, <2>4
  <2>6. Walking(p)'
    <3>1. call'[p].unread \in Seq(ToSet(Order)) /\ IsInjective(call'[p].unread)
      BY <1>1, <1>2, <1>3, <1>4
    <3>2. \A i \in DOMAIN call'[p].unread : call'[p].unread[i] \notin DOMAIN call'[p].seen
      BY <1>1, <1>4, <1>6, <2>1
    <3>3. call'[p].hashes = saved'.hashes /\ DOMAIN call'[p].seen \subseteq DOMAIN call'[p].documents
      BY <1>1, <1>2, <1>10, <2>1, <2>2
    <3>4. \A d \in DOMAIN call'[p].documents \ DOMAIN call'[p].seen :
            d \in DOMAIN saved'.documents /\ call'[p].documents[d] = saved'.documents[d]
      BY <1>1, <1>2, <1>10, <2>1
    <3>5. /\ ~call'[p].changed => call'[p].documents = saved'.documents
                                  /\ \A d \in DOMAIN call'[p].seen : SavedAs(d, call'[p].seen[d])
          /\ call'[p].changed => \E d \in DOMAIN call'[p].seen : ~SavedAs(d, call'[p].seen[d])
      BY <1>1, <1>2, <1>10, <2>1, <2>3
    <3> QED
      BY <1>7, <2>5, <3>1, <3>2, <3>3, <3>4, <3>5 DEF Walking
  <2> QED
    BY <1>2, <1>10, <2>6
<1>11. ASSUME call'[p].seen = Put(c.seen, path, source), ~Known(c, path, source),
              call'[p].documents = Put(c.documents, path, ParseMarkdown(path, source)), call'[p].changed = TRUE
       PROVE  Walking(p)' /\ Parsed(call'[p].documents)
  <2>1. /\ DOMAIN call'[p].seen = DOMAIN c.seen \cup {path} /\ call'[p].seen[path] = source
        /\ \A d \in DOMAIN c.seen : call'[p].seen[d] = c.seen[d]
    BY <1>5, <1>11 DEF Put
  <2>2. /\ DOMAIN call'[p].documents = DOMAIN c.documents \cup {path}
        /\ call'[p].documents[path] = ParseMarkdown(path, source)
        /\ \A d \in DOMAIN c.documents \ {path} : call'[p].documents[d] = c.documents[d]
        /\ call'[p].documents = [d \in DOMAIN call'[p].documents |-> call'[p].documents[d]]
    BY <1>11 DEF Put
  <2>3. ParseMarkdown(path, source).source = source
    BY SourceParsed
  <2>4. Parsed(call'[p].documents)
    BY <1>2, <2>2, <2>3 DEF Parsed
  <2>5. /\ \A d \in DOMAIN call'[p].seen : \/ call'[p].documents[d].source = call'[p].seen[d]
                                          \/ OfTorn(d, call'[p].documents[d].source)
        /\ Together => \A d \in DOMAIN call'[p].seen : call'[p].documents[d].source = call'[p].seen[d]
    BY <1>2, <1>5, <2>1, <2>2, <2>3
  <2>6. \A d \in DOMAIN call'[p].documents \ DOMAIN call'[p].seen :
          d \in DOMAIN saved.documents /\ call'[p].documents[d] = saved.documents[d]
    BY <1>2, <2>1, <2>2
  <2>7. /\ DOMAIN call'[p].seen \subseteq DOMAIN call'[p].documents
        /\ \A i \in DOMAIN Tail(c.unread) : Tail(c.unread)[i] \notin DOMAIN call'[p].seen
    BY <1>2, <1>4, <1>6, <2>1, <2>2
  <2>8. \E d \in DOMAIN call'[p].seen : ~SavedAs(d, call'[p].seen[d])
    <3>1. CASE c.changed
      BY <1>2, <2>1, <3>1
    <3>2. CASE ~c.changed
      <4>1. ~SavedAs(path, source)
        BY <1>2, <1>11, <3>2 DEF Known, SavedAs
      <4> QED
        BY <2>1, <4>1
    <3> QED
      BY <3>1, <3>2
  <2>9. Walking(p)'
    BY <1>1, <1>2, <1>3, <1>4, <1>7, <1>11, <2>5, <2>6, <2>7, <2>8 DEF Walking
  <2> QED
    BY <2>4, <2>9
<1>12. Walking(p)' /\ Parsed(call'[p].documents)
  BY <1>1, <1>9, <1>10, <1>11
<1>13. Writing(p)'
  BY <1>1 DEF Writing, Walked, Unsaved, pc
<1>14. Asking(p)'
  BY <1>1 DEF Asking, pc
<1>15. Shape' /\ Parsed(saved.documents)'
  BY <1>1 DEF KInv, Shape, Steps, pc
<1>16. HashesKept' /\ TextKept'
  BY <1>1, FilesKept DEF pc
<1> QED
  BY <1>1, <1>12, <1>13, <1>14, <1>15, <1>16, StepKept DEF CallKept, pc

\* What the invariant says of a call that is under way.
LEMMA Along ==
  ASSUME KInv, NEW p \in Processes
  PROVE  /\ Shape /\ DOMAIN call = Processes /\ DOMAIN call[p] = Fields
         /\ Parsed(call[p].documents) /\ Parsed(saved.documents)
         /\ (pc(p) = "walk" => Walking(p)) /\ Writing(p) /\ Asking(p)
         /\ pc(p) # "idle" => \A q \in Processes \ {p} : pc(q) = "idle"
<1>1. /\ DOMAIN call = Processes /\ DOMAIN call[p] = Fields /\ CallKept(p) /\ Shape /\ Parsed(saved.documents)
  BY DEF KInv, Shape
<1>2. pc(p) # "idle" => \A q \in Processes : q # p => pc(q) = "idle"
  BY DEF KInv, OneCall
<1> QED
  BY <1>1, <1>2 DEF CallKept

\* A call that goes from one step to the next.
LEMMA ToEffect ==
  ASSUME KInv, NEW p \in Processes, NEW next \in Steps, To(p, next)
  PROVE  LET c == call[p]
             n == call'[p]
         IN /\ DOMAIN call' = Processes /\ \A q \in Processes \ {p} : call'[q] = call[q]
            /\ DOMAIN n = Fields /\ n.pc = next /\ n.question = c.question /\ n.documents = c.documents
            /\ n.hashes = c.hashes /\ n.seen = c.seen /\ n.changed = c.changed /\ n.hits = c.hits /\ n.sound = c.sound
<1>1. DOMAIN call = Processes /\ DOMAIN call[p] = Fields
  BY DEF KInv, Shape
<1>2. call' = [call EXCEPT ![p].pc = next]
  BY DEF To
<1>3. \A q \in Processes : q # p => call'[q] = call[q]
  BY <1>1, <1>2
<1>4. DOMAIN call' = Processes /\ call'[p] = [call[p] EXCEPT !.pc = next]
  BY <1>1, <1>2
<1> QED
  BY <1>1, <1>3, <1>4 DEF Fields

\* Documents whose files are gone are dropped, and the walk is over.
LEMMA DropGoneKept ==
  ASSUME KInv, NEW p \in Processes, DropGone(p)
  PROVE  KInv'
<1> DEFINE c == call[p]
           docs == [d \in DOMAIN c.documents \cap DOMAIN c.seen |-> c.documents[d]]
           hashed == [d \in DOMAIN c.seen |-> Hash(c.seen[d])]
           sound == ~Behind(p) /\ (Together \/ Mends(c.seen))
<1>1. /\ c.pc = "walk" /\ UNCHANGED <<saved, text, reader, spent>>
      /\ call' = [call EXCEPT ![p].pc = "ensure", ![p].documents = docs, ![p].hashes = hashed,
                     ![p].changed = @ \/ ~(DOMAIN c.documents \subseteq DOMAIN c.seen), ![p].sound = sound]
  BY DEF DropGone, pc
<1>2. /\ DOMAIN call = Processes /\ DOMAIN c = Fields /\ Walking(p) /\ Parsed(c.documents)
  BY <1>1, Along DEF pc
<1> HIDE DEF docs, hashed, sound
<1>3. /\ DOMAIN call' = Processes /\ \A q \in Processes \ {p} : call'[q] = call[q]
      /\ DOMAIN call'[p] = Fields /\ call'[p].pc = "ensure" /\ call'[p].documents = docs
      /\ call'[p].hashes = hashed /\ call'[p].seen = c.seen /\ call'[p].sound = sound
      /\ call'[p].changed = (c.changed \/ ~(DOMAIN c.documents \subseteq DOMAIN c.seen))
  BY <1>1, <1>2 DEF Fields
<1>4. /\ DOMAIN docs = DOMAIN c.seen /\ \A d \in DOMAIN docs : docs[d] = c.documents[d]
      /\ docs = [d \in DOMAIN docs |-> docs[d]]
  BY <1>2 DEF docs, Walking
<1>5. Parsed(docs)
  BY <1>2, <1>4 DEF Parsed, Walking
<1>6. \A d \in DOMAIN c.seen : docs[d].source = c.seen[d] \/ (OfTorn(d, docs[d].source) /\ ~Together)
  BY <1>2, <1>4 DEF Walking
<1>7. (Together \/ Mends(c.seen)) => \A d \in DOMAIN c.seen : docs[d].source = c.seen[d]
  BY <1>6 DEF OfTorn, Mends
<1>8. Trusted(p)' => Together \/ Mends(c.seen)
  BY <1>1, <1>3 DEF Trusted, Mends, sound
<1>9. /\ ~call'[p].changed => docs = saved.documents /\ \A d \in DOMAIN c.seen : SavedAs(d, c.seen[d])
      /\ call'[p].changed => Differs(c.seen)
  <2>1. CASE ~call'[p].changed
    <3>1. ~c.changed /\ c.documents = saved.documents /\ DOMAIN docs = DOMAIN c.documents
      BY <1>2, <1>3, <1>4, <2>1 DEF Walking
    <3>2. docs = c.documents
      BY <1>2, <1>4, <3>1 DEF Parsed
    <3> QED
      BY <1>2, <2>1, <3>1, <3>2 DEF Walking
  <2>2. CASE call'[p].changed
    <3>1. CASE c.changed
      BY <1>2, <2>2, <3>1 DEF Walking, Differs
    <3>2. CASE ~c.changed
      BY <1>2, <1>3, <2>2, <3>2 DEF Walking, Differs
    <3> QED
      BY <2>2, <3>1, <3>2
  <2> QED
    BY <2>1, <2>2
<1>10. (Together \/ Mends(c.seen)) /\ ~call'[p].changed /\ text.ready => TextOf(docs)
  <2> SUFFICES ASSUME Together \/ Mends(c.seen), ~call'[p].changed, text.ready PROVE TextOf(docs)
    OBVIOUS
  <2>1. docs = saved.documents /\ \A d \in DOMAIN c.seen : SavedAs(d, c.seen[d])
    BY <1>9
  <2>2. CASE Together
    BY <2>1, <2>2 DEF Together, TextOf
  <2>3. CASE Mends(c.seen)
    <3>1. TextOf(saved.documents) \/ (spent.torn # {} /\ \A t \in spent.torn : spent.torn = {t} => TextLeft(t))
      BY <1>1, Along DEF KInv, TextKept, pc
    <3>2. CASE TextOf(saved.documents)
      BY <2>1, <3>2
    <3>3. CASE spent.torn # {} /\ \A t \in spent.torn : spent.torn = {t} => TextLeft(t)
      <4>1. spent.torn = {c.seen} /\ TextLeft(c.seen)
        BY <2>3, <3>3 DEF Mends
      <4>2. ~Differs(c.seen)
        BY <1>4, <2>1 DEF Differs
      <4>3. text.whole /\ text.entries = EntriesOf(DocumentsOf(c.seen))
        BY <4>1, <4>2 DEF TextLeft
      <4>4. docs = DocumentsOf(c.seen)
        <5>1. \A d \in DOMAIN c.seen : docs[d] = ParseMarkdown(d, c.seen[d])
          BY <1>4, <1>5, <1>7, <2>3 DEF Parsed
        <5> QED
          BY <1>4, <5>1 DEF DocumentsOf
      <4> QED
        BY <4>3, <4>4 DEF TextOf
    <3> QED
      BY <3>1, <3>2, <3>3
  <2> QED
    BY <2>2, <2>3
<1>11. Writing(p)'
  <2>1. Trusted(p)' => Current(call'[p])
    BY <1>3, <1>4, <1>7, <1>8 DEF Current
  <2> HIDE DEF c
  <2>2. NearlyCurrent(call[p])'
    <3>1. spent' = spent /\ DOMAIN docs = DOMAIN c.seen /\ call'[p].documents = docs /\ call'[p].seen = c.seen
      BY <1>1, <1>3, <1>4
    <3>2. \A d \in DOMAIN c.seen :
            docs[d].source = c.seen[d] \/ \E t \in spent.torn : d \in DOMAIN t /\ docs[d].source = t[d]
      BY <1>6 DEF OfTorn
    <3> QED
      BY <3>1, <3>2 DEF NearlyCurrent, OfTorn
  <2>3. call'[p].hashes = [d \in DOMAIN call'[p].seen |-> Hash(call'[p].seen[d])]
    BY <1>3 DEF hashed
  <2>4. ~call'[p].changed => call'[p].documents = saved'.documents
                             /\ (\A d \in DOMAIN call[p].seen : SavedAs(d, call[p].seen[d]))'
    <3>1. saved' = saved /\ call'[p].documents = docs /\ call'[p].seen = c.seen
      BY <1>1, <1>3
    <3> QED
      BY <3>1, <1>9 DEF SavedAs
  <2>5. call'[p].changed => Differs(call[p].seen)'
    <3>1. saved' = saved /\ call'[p].seen = c.seen
      BY <1>1, <1>3
    <3> QED
      BY <3>1, <1>9 DEF SavedAs, Differs
  <2>6. Trusted(p)' /\ ~call'[p].changed /\ text'.ready => TextOf(call[p].documents)'
    BY <1>1, <1>3, <1>8, <1>10 DEF TextOf
  <2> QED
    BY <1>3, <2>1, <2>2, <2>3, <2>4, <2>5, <2>6 DEF Writing, Walked, Unsaved, pc
<1>12. Asking(p)'
  BY <1>1, <1>3 DEF Asking, pc, Behind, sound
<1>13. Shape' /\ Parsed(saved.documents)' /\ HashesKept' /\ TextKept'
  BY <1>1, <1>3, FilesKept DEF KInv, Shape, Steps, pc
<1>14. CallKept(p)'
  BY <1>3, <1>5, <1>11, <1>12 DEF CallKept, pc
<1> QED
  BY <1>1, <1>3, <1>13, <1>14, StepKept DEF pc

\* A call that has read what every torn call had read mends what they left.
LEMMA MendedEffect ==
  ASSUME KInv, NEW p \in Processes, Mended(p)
  PROVE  /\ DOMAIN spent' = DOMAIN spent
         /\ Mends(call[p].seen) => spent'.torn = {}
         /\ ~Mends(call[p].seen) => spent'.torn = spent.torn
         /\ spent.torn = {} => spent'.torn = {}
BY DEF Mended, Mends, KInv, Shape

LEMMA ServedHashes ==
  ASSUME KInv, NEW p \in Processes, pc(p) \in {"ensure", "build"}, ~call[p].changed, saved' = saved,
         Mends(call[p].seen) => spent'.torn = {}, ~Mends(call[p].seen) => spent'.torn = spent.torn
  PROVE  HashesKept'
<1> DEFINE c == call[p]
<1>1. Writing(p) /\ \A q \in Processes : pc(q) # "save_hashes"
  BY Along
<1>2. /\ c.documents = saved.documents /\ \A d \in DOMAIN c.seen : SavedAs(d, c.seen[d])
      /\ Mends(c.seen) => Current(c)
  BY <1>1 DEF Writing, Walked, Trusted
<1>3. CASE Mends(c.seen)
  BY <1>2, <1>3 DEF HashesKept, SavedAs, Current
<1>4. CASE ~Mends(c.seen)
  <2>1. spent'.torn = spent.torn /\ HashesKept
    BY <1>4 DEF KInv
  <2> QED
    BY <1>1, <2>1 DEF HashesKept, SavedAs, OfTorn
<1> QED
  BY <1>3, <1>4

LEMMA ServedText ==
  ASSUME KInv, NEW p \in Processes, pc(p) = "ensure", ~call[p].changed, text.ready, saved' = saved, text' = text,
         Mends(call[p].seen) => spent'.torn = {}, ~Mends(call[p].seen) => spent'.torn = spent.torn
  PROVE  TextKept'
<1> DEFINE c == call[p]
<1>1. Writing(p) /\ \A q \in Processes : pc(q) \notin {"erase", "save_documents"}
  BY Along
<1>2. c.documents = saved.documents /\ (Mends(c.seen) => TextOf(c.documents))
  BY <1>1 DEF Writing, Trusted
<1>3. CASE Mends(c.seen)
  BY <1>2, <1>3 DEF TextKept, TextOf
<1>4. CASE ~Mends(c.seen)
  <2>1. spent'.torn = spent.torn /\ TextKept
    BY <1>4 DEF KInv
  <2> QED
    BY <1>1, <2>1 DEF TextKept, TextOf, TextLeft, Differs, SavedAs
<1> QED
  BY <1>3, <1>4

\* What a step keeps that changes neither the call's documents nor what is torn.
LEMMA Unwritten ==
  ASSUME NEW p, UNCHANGED spent, call'[p].documents = call[p].documents,
         call'[p].seen = call[p].seen, call'[p].sound = call[p].sound
  PROVE  /\ (Trusted(p)' <=> Trusted(p)) /\ (Current(call[p])' <=> Current(call[p]))
         /\ (NearlyCurrent(call[p])' <=> NearlyCurrent(call[p]))
         /\ saved' = saved =>
              /\ Differs(call[p].seen)' <=> Differs(call[p].seen)
              /\ \A d : SavedAs(d, call[p].seen[d])' <=> SavedAs(d, call[p].seen[d])
<1>1. (Trusted(p)' <=> Trusted(p)) /\ (Current(call[p])' <=> Current(call[p]))
  BY DEF Trusted, Mends, Current
<1>2. NearlyCurrent(call[p])' <=> NearlyCurrent(call[p])
  BY DEF NearlyCurrent, OfTorn
<1>3. saved' = saved =>
        /\ Differs(call[p].seen)' <=> Differs(call[p].seen)
        /\ \A d : SavedAs(d, call[p].seen[d])' <=> SavedAs(d, call[p].seen[d])
  BY DEF Differs, SavedAs
<1> QED
  BY <1>1, <1>2, <1>3

\* A text index that is ready is kept where nothing changed.
LEMMA KeepIndexKept ==
  ASSUME KInv, NEW p \in Processes, KeepIndex(p)
  PROVE  KInv'
<1> DEFINE c == call[p]
<1>1. /\ c.pc = "ensure" /\ ~c.changed /\ text.ready /\ UNCHANGED <<saved, text, reader>>
      /\ Mended(p) /\ To(p, "serve")
  BY DEF KeepIndex, pc
<1>2. /\ Writing(p) /\ Asking(p) /\ Parsed(c.documents)
      /\ \A q \in Processes \ {p} : pc(q) = "idle"
  BY <1>1, Along DEF pc
<1>3. /\ DOMAIN call' = Processes /\ \A q \in Processes \ {p} : call'[q] = call[q]
      /\ DOMAIN call'[p] = Fields /\ call'[p].pc = "serve" /\ call'[p].documents = c.documents
      /\ call'[p].seen = c.seen /\ call'[p].sound = c.sound
  BY <1>1, ToEffect DEF Steps
<1>4. /\ DOMAIN spent' = DOMAIN spent
      /\ Mends(c.seen) => spent'.torn = {}
      /\ ~Mends(c.seen) => spent'.torn = spent.torn
  BY <1>1, MendedEffect
<1>5. Trusted(p) => Current(c) /\ TextOf(c.documents)
  BY <1>1, <1>2 DEF Writing, Walked, pc
<1>6. Writing(p)'
  <2>1. Trusted(p)' => Trusted(p)
    BY <1>3, <1>4 DEF Trusted, Mends
  <2> QED
    BY <1>3, <1>5, <2>1 DEF Writing, Walked, Unsaved, Current, pc
<1>7. Asking(p)'
  BY <1>1, <1>2, <1>3, <1>5 DEF Asking, Trusted, TextOf, pc, Behind
<1>8. HashesKept' /\ TextKept'
  BY <1>1, <1>4, ServedHashes, ServedText DEF pc
<1>9. Shape' /\ Parsed(saved.documents)'
  BY <1>1, <1>3, <1>4 DEF KInv, Shape, Steps
<1>10. CallKept(p)'
  BY <1>2, <1>3, <1>6, <1>7 DEF CallKept, pc
<1> QED
  BY <1>1, <1>3, <1>8, <1>9, <1>10, StepKept DEF pc

\* Where something changed the old text index is removed, the sentinel last.
LEMMA DiscardKept ==
  ASSUME KInv, NEW p \in Processes, Discard(p)
  PROVE  KInv'
<1> DEFINE c == call[p]
<1>1. /\ c.pc = "ensure" /\ UNCHANGED <<saved, spent>> /\ To(p, "erase") /\ (c.changed \/ ~text.ready)
      /\ reader' = [reader EXCEPT ![p] = NoReader] /\ text' = [text EXCEPT !.whole = FALSE]
  BY DEF Discard, pc
<1>2. /\ Writing(p) /\ Asking(p) /\ Parsed(c.documents) /\ DOMAIN reader = Processes
      /\ DOMAIN text = {"ready", "whole", "entries"}
  BY Along DEF Shape
<1>3. /\ DOMAIN call' = Processes /\ \A q \in Processes \ {p} : call'[q] = call[q]
      /\ DOMAIN call'[p] = Fields /\ call'[p].pc = "erase" /\ call'[p].documents = c.documents
      /\ call'[p].seen = c.seen /\ call'[p].sound = c.sound /\ call'[p].hashes = c.hashes
      /\ call'[p].changed = c.changed
  BY <1>1, ToEffect DEF Steps
<1>4. /\ DOMAIN text' = DOMAIN text /\ text'.ready = text.ready /\ ~text'.whole
      /\ DOMAIN reader' = Processes /\ ~reader'[p].open
  BY <1>1, <1>2 DEF NoReader
<1>5. Writing(p)'
  BY <1>1, <1>2, <1>3, <1>4, Unwritten DEF Writing, Walked, Unsaved, pc
<1>6. Asking(p)'
  BY <1>3, <1>4 DEF Asking, pc
<1>7. HashesKept'
  BY <1>1, <1>3 DEF KInv, HashesKept, SavedAs, OfTorn, pc
<1>8. TextKept'
  BY <1>3 DEF TextKept, pc
<1>9. Shape' /\ Parsed(saved.documents)'
  BY <1>1, <1>2, <1>3, <1>4 DEF KInv, Shape, Steps
<1>10. CallKept(p)'
  BY <1>2, <1>3, <1>5, <1>6 DEF CallKept, pc
<1> QED
  BY <1>1, <1>3, <1>7, <1>8, <1>9, <1>10, StepKept DEF pc

LEMMA EraseKept ==
  ASSUME KInv, NEW p \in Processes, Erase(p)
  PROVE  KInv'
<1> DEFINE c == call[p]
<1>1. /\ c.pc = "erase" /\ UNCHANGED <<saved, reader, spent>> /\ To(p, "build") /\ text' = NoText
  BY DEF Erase, pc
<1>2. /\ Writing(p) /\ Asking(p) /\ Parsed(c.documents)
  BY Along
<1>3. /\ DOMAIN call' = Processes /\ \A q \in Processes \ {p} : call'[q] = call[q]
      /\ DOMAIN call'[p] = Fields /\ call'[p].pc = "build" /\ call'[p].documents = c.documents
      /\ call'[p].seen = c.seen /\ call'[p].sound = c.sound /\ call'[p].hashes = c.hashes
      /\ call'[p].changed = c.changed
  BY <1>1, ToEffect DEF Steps
<1>4. ~text'.ready /\ DOMAIN text' = {"ready", "whole", "entries"}
  BY <1>1 DEF NoText
<1>5. Writing(p)'
  BY <1>1, <1>2, <1>3, <1>4, Unwritten DEF Writing, Walked, Unsaved, pc
<1>6. Asking(p)'
  BY <1>1, <1>2, <1>3 DEF Asking, pc
<1>7. HashesKept'
  BY <1>1, <1>3 DEF KInv, HashesKept, SavedAs, OfTorn, pc
<1>8. TextKept'
  BY <1>4 DEF TextKept
<1>9. Shape' /\ Parsed(saved.documents)'
  BY <1>1, <1>3, <1>4 DEF KInv, Shape, Steps
<1>10. CallKept(p)'
  BY <1>2, <1>3, <1>5, <1>6 DEF CallKept, pc
<1> QED
  BY <1>1, <1>3, <1>7, <1>8, <1>9, <1>10, StepKept DEF pc

\* The text index is built of the documents of the walk.
LEMMA BuildKept ==
  ASSUME KInv, NEW p \in Processes, Build(p)
  PROVE  KInv'
<1> DEFINE c == call[p]
           next == IF c.changed THEN "save_documents" ELSE "serve"
<1>1. /\ c.pc = "build" /\ UNCHANGED <<saved, reader>> /\ To(p, next) /\ next \in Steps
      /\ IF c.changed THEN UNCHANGED spent ELSE Mended(p)
      /\ text' = [ready |-> TRUE, whole |-> TRUE, entries |-> EntriesOf(c.documents)]
  BY DEF Build, pc, Steps
<1>2. /\ Writing(p) /\ Asking(p) /\ Parsed(c.documents)
      /\ \A q \in Processes \ {p} : pc(q) = "idle"
  BY <1>1, Along DEF pc
<1>3. /\ DOMAIN call' = Processes /\ \A q \in Processes \ {p} : call'[q] = call[q]
      /\ DOMAIN call'[p] = Fields /\ call'[p].pc = next /\ call'[p].documents = c.documents
      /\ call'[p].seen = c.seen /\ call'[p].sound = c.sound /\ call'[p].hashes = c.hashes
      /\ call'[p].changed = c.changed
  BY <1>1, ToEffect
<1>4. TextOf(c.documents)' /\ DOMAIN text' = {"ready", "whole", "entries"}
  BY <1>1, <1>3 DEF TextOf
<1>5. Asking(p)'
  BY <1>1, <1>2, <1>3 DEF Asking, pc, Behind
<1>6. CASE c.changed
  <2>1. Writing(p)'
    BY <1>1, <1>2, <1>3, <1>4, <1>6, Unwritten DEF Writing, Walked, Unsaved, pc
  <2>2. HashesKept'
    BY <1>1, <1>3, <1>6 DEF KInv, HashesKept, SavedAs, OfTorn, pc
  <2>3. TextKept'
    BY <1>3, <1>6 DEF TextKept, pc
  <2>4. Shape' /\ Parsed(saved.documents)'
    BY <1>1, <1>3, <1>4, <1>6 DEF KInv, Shape
  <2>5. CallKept(p)'
    BY <1>2, <1>3, <1>5, <1>6, <2>1 DEF CallKept, pc
  <2> QED
    BY <1>1, <1>3, <2>2, <2>3, <2>4, <2>5, StepKept DEF pc
<1>7. CASE ~c.changed
  <2>1. /\ DOMAIN spent' = DOMAIN spent
        /\ Mends(c.seen) => spent'.torn = {}
        /\ ~Mends(c.seen) => spent'.torn = spent.torn
    BY <1>1, <1>7, MendedEffect
  <2>2. Writing(p)'
    <3>1. Trusted(p)' => Trusted(p)
      BY <1>3, <2>1 DEF Trusted, Mends
    <3>2. Trusted(p) => Current(c)
      BY <1>1, <1>2 DEF Writing, Walked, pc
    <3> QED
      BY <1>3, <1>7, <3>1, <3>2 DEF Writing, Walked, Unsaved, Current, pc
  <2>3. HashesKept'
    BY <1>1, <1>7, <2>1, ServedHashes DEF pc
  <2>4. TextKept'
    BY <1>1, <1>2, <1>4, <1>7 DEF Writing, TextKept, TextOf, pc
  <2>5. Shape' /\ Parsed(saved.documents)'
    BY <1>1, <1>3, <1>4, <2>1 DEF KInv, Shape
  <2>6. CallKept(p)'
    BY <1>2, <1>3, <1>5, <1>7, <2>2 DEF CallKept, pc
  <2> QED
    BY <1>1, <1>3, <2>3, <2>4, <2>5, <2>6, StepKept DEF pc
<1> QED
  BY <1>6, <1>7

\* Then the documents are saved,
LEMMA SaveDocumentsKept ==
  ASSUME KInv, NEW p \in Processes, SaveDocuments(p)
  PROVE  KInv'
<1> DEFINE c == call[p]
<1>1. /\ c.pc = "save_documents" /\ UNCHANGED <<text, reader, spent>> /\ To(p, "save_hashes")
      /\ saved' = [saved EXCEPT !.documents = c.documents]
  BY DEF SaveDocuments, pc
<1>2. /\ Writing(p) /\ Asking(p) /\ Parsed(c.documents) /\ DOMAIN saved = {"documents", "hashes"}
  BY Along DEF Shape
<1>3. /\ DOMAIN call' = Processes /\ \A q \in Processes \ {p} : call'[q] = call[q]
      /\ DOMAIN call'[p] = Fields /\ call'[p].pc = "save_hashes" /\ call'[p].documents = c.documents
      /\ call'[p].seen = c.seen /\ call'[p].sound = c.sound /\ call'[p].hashes = c.hashes
      /\ call'[p].changed = c.changed
  BY <1>1, ToEffect DEF Steps
<1>4. DOMAIN saved' = {"documents", "hashes"} /\ saved'.documents = c.documents
  BY <1>1, <1>2
<1>5. Writing(p)'
  BY <1>1, <1>2, <1>3, <1>4, Unwritten DEF Writing, Walked, Unsaved, TextOf, pc
<1>6. Asking(p)'
  BY <1>1, <1>2, <1>3, <1>4 DEF Asking, pc
<1>7. HashesKept'
  BY <1>3 DEF HashesKept, pc
<1>8. TextKept'
  BY <1>1, <1>2, <1>4 DEF TextKept, TextOf, Writing, pc
<1>9. Shape' /\ Parsed(saved.documents)'
  BY <1>1, <1>2, <1>3, <1>4 DEF KInv, Shape, Steps
<1>10. CallKept(p)'
  BY <1>2, <1>3, <1>5, <1>6 DEF CallKept, pc
<1> QED
  BY <1>1, <1>3, <1>7, <1>8, <1>9, <1>10, StepKept DEF pc

\* and then the hashes, and the files belong together again.
LEMMA SaveHashesKept ==
  ASSUME KInv, NEW p \in Processes, SaveHashes(p)
  PROVE  KInv'
<1> DEFINE c == call[p]
<1>1. /\ c.pc = "save_hashes" /\ UNCHANGED <<text, reader>> /\ To(p, "serve") /\ Mended(p)
      /\ saved' = [saved EXCEPT !.hashes = c.hashes]
  BY DEF SaveHashes, pc
<1>2. /\ Writing(p) /\ Asking(p) /\ Parsed(c.documents) /\ DOMAIN saved = {"documents", "hashes"}
      /\ \A q \in Processes \ {p} : pc(q) = "idle"
  BY <1>1, Along DEF Shape, pc
<1>3. /\ DOMAIN call' = Processes /\ \A q \in Processes \ {p} : call'[q] = call[q]
      /\ DOMAIN call'[p] = Fields /\ call'[p].pc = "serve" /\ call'[p].documents = c.documents
      /\ call'[p].seen = c.seen /\ call'[p].sound = c.sound
  BY <1>1, ToEffect DEF Steps
<1>4. /\ DOMAIN saved' = {"documents", "hashes"} /\ saved'.hashes = c.hashes
      /\ saved'.documents = saved.documents /\ saved.documents = c.documents
  BY <1>1, <1>2 DEF Writing, pc
<1>5. /\ DOMAIN spent' = DOMAIN spent
      /\ Mends(c.seen) => spent'.torn = {}
      /\ ~Mends(c.seen) => spent'.torn = spent.torn
  BY <1>1, MendedEffect
<1>6. /\ Trusted(p) => Current(c)
      /\ NearlyCurrent(c) /\ c.hashes = [d \in DOMAIN c.seen |-> Hash(c.seen[d])]
      /\ TextOf(c.documents)
  BY <1>1, <1>2 DEF Writing, Walked, Unsaved, pc
<1>7. Writing(p)'
  <2>1. Trusted(p)' => Trusted(p)
    BY <1>3, <1>5 DEF Trusted, Mends
  <2> QED
    BY <1>3, <1>6, <2>1 DEF Writing, Walked, Unsaved, Current, pc
<1>8. Asking(p)'
  BY <1>1, <1>2, <1>3, <1>6 DEF Asking, TextOf, pc, Behind
<1>9. HashesKept'
  <2>1. \A d \in DOMAIN c.documents :
          \/ c.documents[d].source = c.seen[d] /\ c.hashes[d] = Hash(c.seen[d]) /\ d \in DOMAIN c.hashes
          \/ OfTorn(d, c.documents[d].source) /\ ~Mends(c.seen)
    BY <1>6 DEF NearlyCurrent, Current, Trusted
  <2>2. ~Mends(c.seen) => \A d, x : OfTorn(d, x) => OfTorn(d, x)'
    BY <1>5 DEF OfTorn
  <2> QED
    BY <1>4, <2>1, <2>2 DEF HashesKept, SavedAs
<1>10. TextKept'
  BY <1>1, <1>4, <1>6 DEF TextKept, TextOf
<1>11. Shape' /\ Parsed(saved.documents)'
  BY <1>1, <1>2, <1>3, <1>4, <1>5 DEF KInv, Shape, Steps
<1>12. CallKept(p)'
  BY <1>2, <1>3, <1>7, <1>8 DEF CallKept, pc
<1> QED
  BY <1>1, <1>3, <1>9, <1>10, <1>11, <1>12, StepKept DEF pc

\* A search asks the text index of its documents, or is turned away.
LEMMA SearchKept ==
  ASSUME KInv, NEW p \in Processes, Search(p)
  PROVE  KInv'
<1> DEFINE c == call[p]
           entries == IF reader[p].open THEN reader[p].entries ELSE text.entries
           hits == Hits(entries, c.question)
<1>1. /\ c.pc = "serve" /\ c.question.tool = "search" /\ UNCHANGED <<saved, text, spent>>
      /\ reader' = [reader EXCEPT ![p] = [open |-> TRUE, entries |-> entries]]
      /\ call' = [call EXCEPT ![p].pc = "spawn", ![p].hits = hits]
  BY DEF Search, pc
<1>2. /\ Writing(p) /\ Asking(p) /\ Parsed(c.documents) /\ Shape
      /\ DOMAIN call = Processes /\ DOMAIN c = Fields /\ DOMAIN reader = Processes
  BY Along DEF Shape
<1>3. c.sound => entries = EntriesOf(c.documents)
  BY <1>1, <1>2 DEF Asking, Behind, pc
<1>4. c.sound => hits = Hits(EntriesOf(c.documents), c.question)
  BY <1>3
<1> HIDE DEF entries, hits
<1>5. /\ DOMAIN call' = Processes /\ \A q \in Processes \ {p} : call'[q] = call[q]
      /\ DOMAIN call'[p] = Fields /\ call'[p].pc = "spawn" /\ call'[p].hits = hits
      /\ call'[p].documents = c.documents /\ call'[p].question = c.question
      /\ call'[p].seen = c.seen /\ call'[p].sound = c.sound
  BY <1>1, <1>2 DEF Fields
<1>6. Writing(p)'
  BY <1>1, <1>2, <1>5, Unwritten DEF Writing, Walked, Unsaved, pc
<1>7. Asking(p)'
  BY <1>4, <1>5 DEF Asking, pc
<1>8. Shape'
  BY <1>1, <1>2, <1>5 DEF Shape, Steps
<1>9. Parsed(saved.documents)' /\ HashesKept' /\ TextKept'
  BY <1>1, <1>5, FilesKept DEF pc
<1>10. CallKept(p)'
  BY <1>2, <1>5, <1>6, <1>7 DEF CallKept, pc
<1> QED
  BY <1>1, <1>5, <1>8, <1>9, <1>10, StepKept DEF pc

\* The task that embeds is begun beside the call.
LEMMA SpawnKept ==
  ASSUME KInv, NEW p \in Processes, Spawn(p)
  PROVE  KInv'
<1> DEFINE c == call[p]
<1>1. c.pc = "spawn" /\ To(p, "rank") /\ UNCHANGED <<saved, text, reader, spent>>
  BY DEF Spawn, pc
<1>2. /\ Writing(p) /\ Asking(p) /\ Parsed(c.documents)
  BY Along
<1>3. /\ DOMAIN call' = Processes /\ \A q \in Processes \ {p} : call'[q] = call[q]
      /\ DOMAIN call'[p] = Fields /\ call'[p].pc = "rank" /\ call'[p].documents = c.documents
      /\ call'[p].seen = c.seen /\ call'[p].sound = c.sound /\ call'[p].hits = c.hits
      /\ call'[p].question = c.question
  BY <1>1, ToEffect DEF Steps
<1>4. Writing(p)'
  BY <1>1, <1>2, <1>3, Unwritten DEF Writing, Walked, Unsaved, pc
<1>5. Asking(p)'
  BY <1>1, <1>2, <1>3 DEF Asking, pc
<1>6. Shape' /\ Parsed(saved.documents)' /\ HashesKept' /\ TextKept'
  BY <1>1, <1>3, FilesKept DEF KInv, Shape, Steps, pc
<1>7. CallKept(p)'
  BY <1>2, <1>3, <1>4, <1>5 DEF CallKept, pc
<1> QED
  BY <1>1, <1>3, <1>6, <1>7, StepKept DEF pc

\* A call that is answered.
AnsweredWith(p, answer) ==
  /\ DOMAIN call' = Processes /\ \A q \in Processes \ {p} : call'[q] = call[q]
  /\ DOMAIN call'[p] = Fields /\ call'[p].pc = "answered" /\ call'[p].answer = answer
  /\ call'[p].documents = call[p].documents /\ call'[p].question = call[p].question
  /\ call'[p].seen = call[p].seen /\ call'[p].sound = call[p].sound /\ call'[p].hits = call[p].hits

\* What the last step of a call does to it.
LEMMA AnsweredEffect ==
  ASSUME KInv, NEW p \in Processes, NEW answer, pc(p) # "idle",
         call' = [call EXCEPT ![p].pc = "answered", ![p].answer = answer]
  PROVE  AnsweredWith(p, answer)
<1>1. DOMAIN call = Processes /\ DOMAIN call[p] = Fields
  BY DEF KInv, Shape
<1> QED
  BY <1>1 DEF Fields, AnsweredWith

LEMMA AnsweredKept ==
  ASSUME KInv, NEW p \in Processes, NEW answer, pc(p) \in {"serve", "rank"},
         UNCHANGED <<saved, text, reader, spent>>, AnsweredWith(p, answer),
         call[p].question.tool = "search" => pc(p) = "rank",
         call[p].question.tool = "read" => DocumentTold(call'[p], call[p].documents)
  PROVE  KInv'
<1> DEFINE c == call[p]
<1>1. Writing(p) /\ Asking(p) /\ Parsed(c.documents)
  BY Along
<1>2. /\ DOMAIN call' = Processes /\ \A q \in Processes \ {p} : call'[q] = call[q]
      /\ DOMAIN call'[p] = Fields /\ call'[p].pc = "answered" /\ call'[p].answer = answer
      /\ call'[p].documents = c.documents /\ call'[p].question = c.question
      /\ call'[p].seen = c.seen /\ call'[p].sound = c.sound /\ call'[p].hits = c.hits
  BY DEF AnsweredWith
<1>3. Writing(p)'
  BY <1>2 DEF Writing, Walked, Unsaved, pc
<1>4. Asking(p)'
  <2>1. c.sound => Current(c)
    BY <1>1 DEF Writing, Walked, Trusted, pc
  <2>2. c.sound /\ c.question.tool = "search" => c.hits = Hits(EntriesOf(c.documents), c.question)
    BY <1>1 DEF Asking, pc
  <2> QED
    BY <1>2, <2>1, <2>2 DEF Asking, Current, pc
<1>5. Shape' /\ Parsed(saved.documents)' /\ HashesKept' /\ TextKept'
  BY <1>2, FilesKept DEF KInv, Shape, Steps, pc
<1>6. CallKept(p)'
  BY <1>1, <1>2, <1>3, <1>4 DEF CallKept, pc
<1> QED
  BY <1>2, <1>5, <1>6, StepKept DEF pc

\* The hits are ranked.
LEMMA RankKept ==
  ASSUME KInv, NEW p \in Processes, Rank(p)
  PROVE  KInv'
<1>1. /\ pc(p) = "rank" /\ UNCHANGED <<saved, text, reader, spent>>
      /\ \E answer : call' = [call EXCEPT ![p].pc = "answered", ![p].answer = answer]
  BY DEF Rank
<1>2. call[p].question.tool = "search"
  BY <1>1, Along DEF Writing
<1>3. PICK answer : call' = [call EXCEPT ![p].pc = "answered", ![p].answer = answer]
  BY <1>1
<1>4. AnsweredWith(p, answer)
  BY <1>1, <1>3, AnsweredEffect
<1> QED
  BY <1>1, <1>2, <1>4, AnsweredKept

\* A document is served with its links and all that link to it.
LEMMA Served ==
  ASSUME NEW c, NEW source
  PROVE  LET d == c.documents[c.question.document]
         IN /\ ServeDocument(c, source).links = d.links
            /\ ServeDocument(c, source).backlinks = ReferencedBy(c.documents, d.path)
BY DEF ServeDocument

\* A document is read again and served.
LEMMA ReadDocumentKept ==
  ASSUME KInv, NEW p \in Processes, ReadDocument(p)
  PROVE  KInv'
<1> DEFINE c == call[p]
           path == c.question.document
           f == files[path]
           answer == IF path \in DOMAIN c.documents /\ f.is = "text" THEN <<ServeDocument(c, f.source)>> ELSE << >>
<1>1. /\ pc(p) = "serve" /\ c.question.tool = "read" /\ UNCHANGED <<saved, text, reader, spent>>
      /\ call' = [call EXCEPT ![p].pc = "answered", ![p].answer = answer]
  BY DEF ReadDocument
<1>2. DOMAIN c = Fields /\ Parsed(c.documents)
  BY Along
<1>3. ASSUME answer # << >>
      PROVE  /\ path \in DOMAIN c.documents /\ answer[1].links = c.documents[path].links
             /\ answer[1].backlinks = {d \in DOMAIN c.documents \ {path} : path \in ToSet(c.documents[d].links)}
  <2>1. path \in DOMAIN c.documents /\ answer[1] = ServeDocument(c, f.source)
    BY <1>3
  <2>2. c.documents[path].path = path
    BY <1>2, <2>1, SourceParsed DEF Parsed
  <2>3. /\ answer[1].links = c.documents[path].links
        /\ answer[1].backlinks = ReferencedBy(c.documents, c.documents[path].path)
    <3> HIDE DEF answer
    <3> QED
      BY <2>1, Served
  <2> QED
    BY <2>1, <2>2, <2>3 DEF ReferencedBy
<1> HIDE DEF answer
<1>4. AnsweredWith(p, answer)
  BY <1>1, AnsweredEffect
<1>5. DocumentTold(call'[p], c.documents)
  BY <1>3, <1>4 DEF DocumentTold, AnsweredWith
<1>6. /\ pc(p) \in {"serve", "rank"} /\ UNCHANGED <<saved, text, reader, spent>>
      /\ call[p].question.tool = "search" => pc(p) = "rank"
      /\ call[p].question.tool = "read" => DocumentTold(call'[p], call[p].documents)
  BY <1>1, <1>5
<1> HIDE DEF c, path, f
<1> QED
  BY <1>4, <1>6, AnsweredKept

\* A call that ends, or a discovery, has nothing to keep.
LEMMA DoneKept ==
  ASSUME KInv, NEW p \in Processes, NEW c, UNCHANGED <<saved, text, reader, spent>>,
         call' = [call EXCEPT ![p] = c], DOMAIN c = Fields, c.documents = << >>,
         pc(p) \in {"serve", "answered"} \/ Calm,
         c.pc = "idle" \/ (c.pc = "answered" /\ c.question.tool = "locate")
  PROVE  KInv'
<1>1. DOMAIN call = Processes
  BY Along
<1>2. DOMAIN call' = Processes /\ call'[p] = c /\ \A q \in Processes \ {p} : call'[q] = call[q]
  BY <1>1
<1>3. Shape' /\ Parsed(saved.documents)' /\ HashesKept' /\ TextKept'
  BY <1>2, FilesKept DEF KInv, Shape, Steps, pc, Calm
<1>4. Writing(p)' /\ Asking(p)'
  BY <1>2 DEF Writing, Walked, Unsaved, Asking, pc
<1>5. CallKept(p)'
  BY <1>2, <1>4, NothingParsed DEF CallKept, pc
<1> QED
  BY <1>2, <1>3, <1>5, StepKept DEF pc

\* A call that is answered is over.
LEMMA AnswerKept ==
  ASSUME KInv, NEW p \in Processes, Answer(p)
  PROVE  KInv'
<1>1. DOMAIN Idle = Fields /\ Idle.documents = << >> /\ Idle.pc = "idle"
  BY DEF Idle, Fields
<1>2. pc(p) = "answered" /\ call' = [call EXCEPT ![p] = Idle] /\ UNCHANGED <<saved, text, reader, spent>>
  BY DEF Answer
<1> QED
  BY <1>1, <1>2, DoneKept

\* A search that cannot open its text index fails.
LEMMA SearchFailsKept ==
  ASSUME KInv, NEW p \in Processes, SearchFails(p)
  PROVE  KInv'
<1>1. DOMAIN Idle = Fields /\ Idle.documents = << >> /\ Idle.pc = "idle"
  BY DEF Idle, Fields
<1>2. pc(p) = "serve" /\ call' = [call EXCEPT ![p] = Idle] /\ UNCHANGED <<saved, text, reader, spent>>
  BY DEF SearchFails
<1> QED
  BY <1>1, <1>2, DoneKept

\* A discovery reads the files and neither reads nor writes the index.
LEMMA LocateKept ==
  ASSUME KInv, NEW p \in Processes, NEW question, Locate(p, question)
  PROVE  KInv'
<1>1. /\ Calm /\ question.tool = "locate" /\ UNCHANGED <<saved, text, reader, spent>>
      /\ \E answer : call' = [call EXCEPT ![p] = [Idle EXCEPT !.pc = "answered", !.question = question,
                                                               !.seen = files, !.answer = answer]]
  BY DEF Locate
<1>2. PICK answer : call' = [call EXCEPT ![p] = [Idle EXCEPT !.pc = "answered", !.question = question,
                                                              !.seen = files, !.answer = answer]]
  BY <1>1
<1> DEFINE c == [Idle EXCEPT !.pc = "answered", !.question = question, !.seen = files, !.answer = answer]
<1>3. DOMAIN c = Fields /\ c.documents = << >> /\ c.pc = "answered" /\ c.question = question
  BY DEF Idle, Fields
<1> HIDE DEF c
<1> QED
  BY <1>1, <1>2, <1>3, DoneKept DEF c

\* A call that is cut short while it writes leaves the files apart as it had
\* read them, and a call that is cut short elsewhere leaves them as they were.
LEMMA TornFiles ==
  ASSUME KInv, NEW p \in Processes, Fault(p), call' = [call EXCEPT ![p] = Idle], UNCHANGED <<saved, text>>
  PROVE  HashesKept' /\ TextKept'
<1> DEFINE c == call[p]
<1>1. /\ DOMAIN call = Processes /\ DOMAIN spent = {"edits", "faults", "torn"} /\ Idle.pc = "idle"
      /\ Writing(p) /\ Parsed(c.documents)
      /\ pc(p) # "idle" => \A q \in Processes \ {p} : pc(q) = "idle"
  BY Along DEF Shape, Idle
<1>2. /\ pc(p)' = "idle" /\ \A q \in Processes \ {p} : pc(q)' = pc(q)
  BY <1>1 DEF pc
<1>3. spent'.torn = spent.torn \cup (IF Tearing(p) THEN {c.seen} ELSE {})
  BY <1>1 DEF Fault
<1>4. saved' = saved /\ spent.torn \subseteq spent'.torn
  BY <1>3
<1>5. \A t : TextLeft(t)' <=> TextLeft(t)
  BY DEF TextLeft, Differs, SavedAs
<1>6. \A t : TextOf(t)' <=> TextOf(t)
  BY DEF TextOf
<1>7. CASE ~Tearing(p)
  <2>1. spent'.torn = spent.torn
    BY <1>3, <1>7
  <2>2. HashesKept'
    BY <1>2, <1>4, <1>7 DEF KInv, HashesKept, Tearing, SavedAs, OfTorn
  <2>3. TextKept'
    <3>1. SUFFICES ASSUME text.ready, \A q \in Processes : pc(q)' \notin {"erase", "save_documents"}
                   PROVE  \/ TextOf(saved.documents)
                          \/ spent.torn # {} /\ \A t \in spent.torn : spent.torn = {t} => TextLeft(t)
      BY <1>5, <2>1 DEF TextKept, TextOf
    <3>2. \A q \in Processes : pc(q) \notin {"erase", "save_documents"}
      BY <1>2, <1>7, <3>1 DEF Tearing
    <3> QED
      BY <3>1, <3>2 DEF KInv, TextKept
  <2> QED
    BY <2>2, <2>3
<1>8. CASE Tearing(p)
  <2>1. spent'.torn = spent.torn \cup {c.seen}
    BY <1>3, <1>8
  <2>2. pc(p) \in {"erase", "save_documents", "save_hashes"} /\ (pc(p) = "erase" => text.ready)
    BY <1>8 DEF Tearing
  <2>3. NearlyCurrent(c) /\ (Mends(c.seen) => Current(c))
    BY <1>1, <2>2 DEF Writing, Walked, Unsaved, Trusted
  <2>4. HashesKept'
    <3>1. CASE pc(p) = "save_hashes"
      <4>1. saved.documents = c.documents
        BY <1>1, <3>1 DEF Writing
      <4>2. \A d \in DOMAIN c.documents :
              \E t \in spent'.torn : d \in DOMAIN t /\ c.documents[d].source = t[d]
        BY <2>1, <2>3 DEF NearlyCurrent, OfTorn
      <4> QED
        BY <1>4, <4>1, <4>2 DEF HashesKept, OfTorn
    <3>2. CASE pc(p) # "save_hashes"
      <4>1. \A q \in Processes : pc(q) # "save_hashes"
        BY <1>1, <2>2, <3>2
      <4> QED
        BY <1>4, <4>1 DEF KInv, HashesKept, SavedAs, OfTorn
    <3> QED
      BY <3>1, <3>2
  <2>5. TextKept'
    <3>1. CASE pc(p) = "save_hashes"
      BY <1>1, <3>1 DEF Writing, TextKept, TextOf
    <3>2. CASE pc(p) \in {"erase", "save_documents"}
      <4>1. SUFFICES ASSUME spent'.torn = {c.seen} PROVE TextLeft(c.seen)
        <5>1. c.seen \in spent'.torn
          BY <2>1
        <5>2. \A t \in spent'.torn : spent'.torn = {t} => t = c.seen
          BY <5>1
        <5> QED
          BY <1>5, <5>1, <5>2 DEF TextKept
      <4>2. Mends(c.seen)
        BY <2>1, <4>1 DEF Mends
      <4>3. CASE pc(p) = "erase"
        BY <1>1, <2>2, <4>3 DEF Writing, TextLeft
      <4>4. CASE pc(p) = "save_documents"
        <5>1. TextOf(c.documents)
          BY <1>1, <4>4 DEF Writing
        <5>2. c.documents = DocumentsOf(c.seen)
          BY <1>1, <2>3, <4>2, CurrentDocuments
        <5> QED
          BY <5>1, <5>2 DEF TextOf, TextLeft
      <4> QED
        BY <3>2, <4>3, <4>4
    <3> QED
      BY <2>2, <3>1, <3>2
  <2> QED
    BY <2>4, <2>5
<1> QED
  BY <1>7, <1>8

LEMMA TornKept ==
  ASSUME KInv, NEW p \in Processes, Fault(p), call' = [call EXCEPT ![p] = Idle],
         UNCHANGED <<saved, text>>,
         DOMAIN reader' = DOMAIN reader, \A q \in Processes \ {p} : reader'[q] = reader[q]
  PROVE  KInv'
<1>1. /\ DOMAIN call = Processes /\ DOMAIN spent = {"edits", "faults", "torn"}
      /\ DOMAIN Idle = Fields /\ Idle.pc = "idle" /\ Idle.documents = << >>
  BY Along DEF Shape, Idle, Fields
<1>2. /\ DOMAIN call' = Processes /\ call'[p] = Idle /\ \A q \in Processes \ {p} : call'[q] = call[q]
  BY <1>1
<1>3. /\ DOMAIN spent' = {"edits", "faults", "torn"}
      /\ ~Tearing(p) => spent'.torn = spent.torn
  BY <1>1 DEF Fault
<1>4. Shape' /\ Parsed(saved.documents)'
  BY <1>1, <1>2, <1>3 DEF KInv, Shape, Steps
<1>5. HashesKept' /\ TextKept'
  BY TornFiles
<1>6. OneCall'
  BY <1>1, <1>2 DEF KInv, OneCall, pc
<1>7. CallKept(p)'
  BY <1>1, <1>2, NothingParsed, RestKept DEF pc
<1>8. ASSUME NEW q \in Processes \ {p} PROVE CallKept(q)'
  <2>1. CallKept(q) /\ call'[q] = call[q] /\ reader'[q] = reader[q]
    BY <1>2 DEF KInv
  <2>2. CASE pc(q) = "idle"
    BY <2>1, <2>2, RestKept DEF CallKept, pc
  <2>3. CASE pc(q) # "idle"
    <3>1. pc(p) = "idle"
      BY <2>3 DEF KInv, OneCall
    <3>2. spent'.torn = spent.torn
      BY <1>3, <3>1 DEF Tearing
    <3>3. (pc(q) = "walk")' => Walking(q)'
      BY <2>1, <3>2 DEF CallKept, Walking, SavedAs, OfTorn, Together, pc
    <3>4. Writing(q)'
      BY <2>1, <3>2 DEF CallKept, Writing, Trusted, Mends, NearlyCurrent, OfTorn, TextOf, Differs, SavedAs, pc
    <3>5. Asking(q)'
      BY <2>1 DEF CallKept, Asking, Behind, pc
    <3> QED
      BY <2>1, <3>3, <3>4, <3>5 DEF CallKept
  <2> QED
    BY <2>2, <2>3
<1> QED
  BY <1>4, <1>5, <1>6, <1>7, <1>8 DEF KInv

\* A call fails,
LEMMA FailKept ==
  ASSUME KInv, NEW p \in Processes, Fail(p)
  PROVE  KInv'
<1>1. /\ Fault(p) /\ call' = [call EXCEPT ![p] = Idle] /\ UNCHANGED <<saved, text, reader>>
  BY DEF Fail
<1> QED
  BY <1>1, TornKept

\* or its process ends.
LEMMA CrashKept ==
  ASSUME KInv, NEW p \in Processes, Crash(p)
  PROVE  KInv'
<1>1. /\ Fault(p) /\ call' = [call EXCEPT ![p] = Idle] /\ UNCHANGED <<saved, text>>
      /\ reader' = [reader EXCEPT ![p] = NoReader]
  BY DEF Crash
<1>2. DOMAIN reader' = DOMAIN reader /\ \A q \in Processes \ {p} : reader'[q] = reader[q]
  BY <1>1, Along DEF Shape
<1> QED
  BY <1>1, <1>2, TornKept

\* The task that embeds touches none of the three files.
LEMMA GenerateKept ==
  ASSUME KInv, NEW p \in Processes, Generate(p)
  PROVE  KInv'
<1>1. DOMAIN spent = {"edits", "faults", "torn"}
  BY DEF KInv, Shape
<1>2. CASE LoadStore(p)
  BY <1>2, AsideKept DEF LoadStore
<1>3. CASE Send(p)
  BY <1>3, AsideKept DEF Send
<1>4. CASE SaveStore(p)
  BY <1>4, AsideKept DEF SaveStore
<1>5. CASE EndTask(p)
  BY <1>5, AsideKept DEF EndTask
<1>6. CASE Embed(p)
  <2>1. PICK i \in With(task[p].chunks, "sent") : Retry(p, i) \/ Respond(p, i)
    BY <1>6 DEF Embed
  <2>2. CASE Retry(p, i)
    BY <2>2, AsideKept DEF Retry
  <2>3. CASE Respond(p, i)
    <3>1. UNCHANGED <<saved, text, reader, call>> /\ \E n : spent' = [spent EXCEPT !.faults = n]
      BY <2>3 DEF Respond
    <3>2. DOMAIN spent' = DOMAIN spent /\ spent'.torn = spent.torn
      BY <1>1, <3>1
    <3> QED
      BY <3>1, <3>2, AsideKept
  <2> QED
    BY <2>1, <2>2, <2>3
<1> QED
  BY <1>2, <1>3, <1>4, <1>5, <1>6 DEF Generate

\* The walk has read what it has read, whatever is edited since.
LEMMA EditKept ==
  ASSUME KInv, NEW path, Edit(path)
  PROVE  KInv'
<1>1. /\ UNCHANGED <<saved, text, reader, call>> /\ spent' = [spent EXCEPT !.edits = @ + 1]
      /\ DOMAIN spent = {"edits", "faults", "torn"}
  BY DEF Edit, KInv, Shape
<1>2. DOMAIN spent' = DOMAIN spent /\ spent'.torn = spent.torn
  BY <1>1
<1> QED
  BY <1>1, <1>2, AsideKept

\* So every step keeps the invariant.
LEMMA KInvStep ==
  ASSUME KInv, [Next]_vars
  PROVE  KInv'
<1>1. CASE UNCHANGED vars
  BY <1>1, AsideKept DEF vars
<1>2. ASSUME NEW path \in DOMAIN files, Edit(path) PROVE KInv'
  BY <1>2, EditKept
<1>3. ASSUME NEW p \in Processes, Serve(p) PROVE KInv'
  BY <1>3, ReadFileKept, DropGoneKept, KeepIndexKept, DiscardKept, EraseKept, BuildKept, SaveDocumentsKept, SaveHashesKept,
     SearchKept, SearchFailsKept, SpawnKept, RankKept, ReadDocumentKept, AnswerKept DEF Serve
<1>4. ASSUME NEW p \in Processes, Generate(p) \/ Fail(p) \/ Crash(p) PROVE KInv'
  BY <1>4, GenerateKept, FailKept, CrashKept
<1>5. ASSUME NEW p \in Processes, NEW q \in Questions(files), Ask(p, q) \/ Locate(p, q) PROVE KInv'
  BY <1>5, AskKept, LocateKept
<1> QED
  BY <1>1, <1>2, <1>3, <1>4, <1>5 DEF Next

\* The invariant holds always.
LEMMA KInvariant == Spec => []KInv
<1>1. Init => KInv
  BY KInvInit
<1>2. KInv /\ [Next]_vars => KInv'
  BY KInvStep
<1> QED
  BY <1>1, <1>2, PTL DEF Spec

\* Between calls every document has the hash of its source and a text index that
\* is ready is whole and theirs, unless a call was cut short while it wrote and
\* none since has gone through that read what it had read (knowledge/mod.rs,
\* ensure_knowledge_index_unlocked; knowledge_bm25.rs, build).
THEOREM FilesKeptTogether == Spec => []KeptTogether
<1>1. KInv => KeptTogether
  <2> SUFFICES ASSUME KInv, Calm, spent.torn = {} PROVE Together
    BY DEF KeptTogether
  <2>1. \A p \in Processes : pc(p) = "idle"
    BY DEF Calm
  <2>2. /\ \A d \in DOMAIN saved.documents : SavedAs(d, saved.documents[d].source)
        /\ text.ready => TextOf(saved.documents)
    BY <2>1 DEF KInv, HashesKept, TextKept, OfTorn
  <2> QED
    BY <2>2 DEF Together, SavedAs, TextOf
<1> QED
  BY <1>1, KInvariant, PTL

\* A call that found files that belong together, or read what every call had read
\* that was cut short, and has no reader another process left behind, is answered from the files it read: a search ranks what
\* the text index of their documents holds, and a document is served with the
\* links its file has and with all documents that link to it.
Faithful(c) ==
  /\ c.documents = DocumentsOf(c.seen)
  /\ c.question.tool = "search" => c.hits = Hits(EntriesOf(DocumentsOf(c.seen)), c.question)
  /\ c.question.tool = "read" => DocumentTold(c, DocumentsOf(c.seen))
AnswersFaithful ==
  \A p \in Processes :
    pc(p) = "answered" /\ call[p].sound /\ call[p].question.tool \in {"search", "read"} => Faithful(call[p])

THEOREM AnsweredFromFiles == Spec => []AnswersFaithful
<1>1. KInv => AnswersFaithful
  <2> SUFFICES ASSUME KInv, NEW p \in Processes, pc(p) = "answered", call[p].sound,
                      call[p].question.tool \in {"search", "read"}
               PROVE  Faithful(call[p])
    BY DEF AnswersFaithful
  <2> DEFINE c == call[p]
  <2>1. /\ Parsed(c.documents) /\ Current(c)
        /\ c.question.tool = "search" => c.hits = Hits(EntriesOf(c.documents), c.question)
        /\ c.question.tool = "read" => DocumentTold(c, c.documents)
    BY Along DEF Asking
  <2>2. c.documents = DocumentsOf(c.seen)
    BY <2>1, CurrentDocuments
  <2> QED
    BY <2>1, <2>2 DEF Faithful
<1> QED
  BY <1>1, KInvariant, PTL
=============================================================================
