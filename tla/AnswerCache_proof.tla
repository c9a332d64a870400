--------------------------- MODULE AnswerCache_proof ---------------------------
(***************************************************************************)
(* Proofs about AnswerCache, for any number of indexers, investigators,    *)
(* queries, saves, flushes and other projects: no stale answer is served,  *)
(* and the answers under the present epoch are those of index.bin.         *)
(*                                                                         *)
(* The epoch of a call is that of its session unless the answers were      *)
(* invalidated, or the session evicted, since it began; and what differs   *)
(* from index.bin is doomed: a writer is under way that drops the snapshot *)
(* before it bumps the epoch, and so before it rests.                      *)
(*                                                                         *)
(* And about ReadMemory, for any number of readers, targets and contents:  *)
(* what the memory of a session no longer holds has been followed by as    *)
(* many others as are kept, because the ticks of reads that come one by    *)
(* one are the order in which they are observed.                           *)
(***************************************************************************)
EXTENDS ReadMemory, SequenceTheorems, FiniteSetTheorems, TLAPS

\* What is kept of a sequence is in it, and the newest entry is kept.
LEMMA NewestFacts ==
  ASSUME NEW S, NEW seq \in Seq(S), NEW n \in Nat \ {0}, NEW x \in S
  PROVE  /\ Newest(Append(seq, x), n) \in Seq(S)
         /\ Len(Newest(Append(seq, x), n)) <= n
         /\ \A i \in DOMAIN Newest(Append(seq, x), n) :
              \/ Newest(Append(seq, x), n)[i] = x
              \/ \E j \in DOMAIN seq : Newest(Append(seq, x), n)[i] = seq[j]
         /\ \E i \in DOMAIN Newest(Append(seq, x), n) : Newest(Append(seq, x), n)[i] = x
<1> DEFINE s == Append(seq, x)
<1>1. s \in Seq(S) /\ Len(s) = Len(seq) + 1 /\ s[Len(s)] = x /\ Len(seq) \in Nat
      /\ \A i \in 1 .. Len(seq) : s[i] = seq[i]
  BY AppendProperties
<1> HIDE DEF s
<1>2. CASE Len(s) <= n
  BY <1>1, <1>2 DEF Newest, s
<1>3. CASE ~(Len(s) <= n)
  <2> DEFINE t == SubSeq(s, Len(s) - n + 1, Len(s))
  <2>1. t \in Seq(S) /\ Len(t) = n /\ \A i \in 1 .. n : t[i] = s[Len(s) - n + i]
    BY <1>1, <1>3, SubSeqProperties
  <2> HIDE DEF t
  <2>2. Newest(s, n) = t
    BY <1>3 DEF Newest, t
  <2> QED
    BY <1>1, <1>3, <2>1, <2>2 DEF s
<1> QED
  BY <1>2, <1>3

LEMMA NewestKept ==
  ASSUME NEW S, NEW seq \in Seq(S), NEW n \in Nat \ {0}, NEW x \in S
  PROVE  /\ Newest(Append(seq, x), n) \in Seq(S)
         /\ Len(Newest(Append(seq, x), n)) <= n
         /\ \E i \in DOMAIN Newest(Append(seq, x), n) : Newest(Append(seq, x), n)[i] = x
  BY NewestFacts

LEMMA WithoutFacts ==
  ASSUME NEW S, NEW seq \in Seq(S), NEW at \in SUBSET DOMAIN seq
  PROVE  /\ Without(seq, at) \in Seq(S)
         /\ \A i \in DOMAIN Without(seq, at) : \E j \in DOMAIN seq : Without(seq, at)[i] = seq[j]
<1>1. CASE at = {}
  BY <1>1 DEF Without
<1>2. CASE at # {}
  <2> DEFINE k == CHOOSE i \in at : TRUE
             a == SubSeq(seq, 1, k - 1)
             b == SubSeq(seq, k + 1, Len(seq))
  <2>1. k \in 1 .. Len(seq) /\ Len(seq) \in Nat
    BY <1>2
  <2> HIDE DEF k
  <2>2. a \in Seq(S) /\ Len(a) = k - 1 /\ \A i \in 1 .. k - 1 : a[i] = seq[i]
    BY <2>1, SubSeqProperties
  <2>3. b \in Seq(S) /\ Len(b) = Len(seq) - k /\ \A i \in 1 .. Len(seq) - k : b[i] = seq[k + i]
    BY <2>1, SubSeqProperties
  <2>4. Without(seq, at) = a \o b
    BY <1>2 DEF Without, RemoveAt, k
  <2> HIDE DEF a, b
  <2>5. a \o b \in Seq(S) /\ Len(a \o b) = Len(seq) - 1
    BY <2>1, <2>2, <2>3, ConcatProperties
  <2>6. ASSUME NEW i \in 1 .. Len(a \o b) PROVE \E j \in 1 .. Len(seq) : (a \o b)[i] = seq[j]
    <3>1. CASE i <= k - 1
      BY <2>1, <2>2, <2>3, <2>6, <3>1, ConcatProperties
    <3>2. CASE i > k - 1
      <4>1. (a \o b)[i] = b[i - Len(a)] /\ i - Len(a) \in 1 .. Len(seq) - k
        BY <2>1, <2>2, <2>3, <2>5, <2>6, <3>2, ConcatProperties
      <4>2. b[i - Len(a)] = seq[k + (i - Len(a))]
        BY <2>3, <4>1
      <4>3. k + (i - Len(a)) \in 1 .. Len(seq)
        BY <2>1, <2>2, <2>6, <4>1
      <4> QED
        BY <4>1, <4>2, <4>3
    <3> QED
      BY <2>1, <2>6, <3>1, <3>2
  <2>7. DOMAIN (a \o b) = 1 .. Len(a \o b) /\ DOMAIN seq = 1 .. Len(seq)
    BY <2>5
  <2> QED
    BY <2>4, <2>5, <2>6, <2>7
<1> QED
  BY <1>1, <1>2

\* The table of sessions.
Projects == Others \cup {Project}

LEMMA TouchedFacts ==
  ASSUME NEW q \in Seq(Projects), NEW x \in Projects
  PROVE  LET new == Newest(Touched(q, x), MaxSessions)
         IN new \in Seq(Projects) /\ Len(new) <= MaxSessions /\ x \in ToSet(new)
<1> DEFINE at == {i \in DOMAIN q : q[i] = x}
           rest == Without(q, at)
<1>1. rest \in Seq(Projects)
  BY WithoutFacts
<1> HIDE DEF rest
<1>2. Touched(q, x) = Append(rest, x)
  BY DEF Touched, rest
<1> DEFINE new == Newest(Append(rest, x), MaxSessions)
<1>3. new \in Seq(Projects) /\ Len(new) <= MaxSessions /\ \E i \in DOMAIN new : new[i] = x
  <2>1. MaxSessions \in Nat \ {0} /\ x \in Projects
    BY SessionAssumption
  <2> QED
    BY <1>1, <2>1, NewestKept
<1> HIDE DEF new
<1>4. x \in ToSet(new)
  BY <1>3 DEF ToSet
<1> QED
  BY <1>2, <1>3, <1>4 DEF new

LEMMA EnteredFacts ==
  ASSUME NEW q \in Seq(Projects), NEW x \in Projects
  PROVE  Entered(q, x) \in Seq(Projects) /\ Len(Entered(q, x)) <= MaxSessions /\ x \in ToSet(Entered(q, x))
  BY TouchedFacts DEF Entered

LEMMA LookedFacts ==
  ASSUME NEW q \in Seq(Projects), Len(q) <= MaxSessions
  PROVE  /\ Looked(q, Project) \in Seq(Projects) /\ Len(Looked(q, Project)) <= MaxSessions
         /\ Project \in ToSet(Looked(q, Project)) <=> Project \in ToSet(q)
  BY TouchedFacts DEF Looked, Projects

\* The answers of a session.
LEMMA StoreAnswerFacts ==
  ASSUME NEW s \in [epoch : Nat, answers : Seq(StoredAnswer)], NEW answer \in StoredAnswer
  PROVE  LET new == StoreAnswer(s, answer)
         IN /\ new \in [epoch : Nat, answers : Seq(StoredAnswer)]
            /\ new.epoch = s.epoch /\ Len(new.answers) <= MaxAnswers
            /\ \A i \in DOMAIN new.answers :
                 new.answers[i] = answer \/ \E j \in DOMAIN s.answers : new.answers[i] = s.answers[j]
<1> DEFINE at == {i \in DOMAIN s.answers : s.answers[i].key = answer.key}
           rest == Without(s.answers, at)
           new == Newest(Append(rest, answer), MaxAnswers)
<1>1. rest \in Seq(StoredAnswer) /\ \A i \in DOMAIN rest : \E j \in DOMAIN s.answers : rest[i] = s.answers[j]
  <2>1. s.answers \in Seq(StoredAnswer) /\ at \in SUBSET DOMAIN s.answers
    OBVIOUS
  <2> QED
    BY <2>1, WithoutFacts
<1> HIDE DEF rest
<1>2. /\ new \in Seq(StoredAnswer) /\ Len(new) <= MaxAnswers
      /\ \A i \in DOMAIN new : new[i] = answer \/ \E j \in DOMAIN rest : new[i] = rest[j]
  BY <1>1, NewestFacts, SessionAssumption
<1>3. StoreAnswer(s, answer) = [s EXCEPT !.answers = new]
  BY DEF StoreAnswer, rest
<1> HIDE DEF new
<1> QED
  BY <1>1, <1>2, <1>3

-----------------------------------------------------------------------------
\* What a step does to the processes: all but one stand, or a history field
\* of those that are asking is set.
Held == [pc : ProcessSteps, idx : Saves, key : Keys, raced : BOOLEAN,
         stale : BOOLEAN, evicted : BOOLEAN]
Alone(p) == /\ local' \in [Processes -> Held]
            /\ \A q \in Processes : q # p => local'[q] = local[q]
Same(q) == /\ pc(q)' = pc(q) /\ local'[q].key = local[q].key /\ local'[q].idx = local[q].idx
TableKept == /\ table' \in Seq(Projects) /\ Len(table') <= MaxSessions /\ session' = session
             /\ Project \in ToSet(table') <=> Project \in ToSet(table)

IndexSaveEffect(w) ==
  /\ w \in Indexers /\ pc(w) = "idle" /\ disk' \in Saves /\ Alone(w)
  /\ local'[w].pc = "publish" /\ local'[w].key = local[w].key
  /\ local'[w].stale = local[w].stale /\ local'[w].evicted = local[w].evicted
  /\ UNCHANGED <<cache, table, session, served>>
AbandonEffect(w) ==
  /\ w \in Indexers /\ pc(w) = "publish"
  /\ local' \in [Processes -> Held] /\ local'[w] = Idle
  /\ \A q \in Processes \ {w} :
       /\ Same(q) /\ local'[q].stale = local[q].stale /\ local'[q].evicted = local[q].evicted
       /\ local'[q].raced = (local[q].raced \/ Asking(q))
  /\ cache' \in [present : BOOLEAN, idx : Saves, raced : BOOLEAN]
  /\ cache'.present => cache'.raced
  /\ session' \in [epoch : Nat, answers : Seq(StoredAnswer)] /\ session'.epoch = session.epoch
  /\ DOMAIN session'.answers = DOMAIN session.answers
  /\ \A i \in DOMAIN session.answers :
       /\ session'.answers[i].raced
       /\ session'.answers[i].key = session.answers[i].key
       /\ session'.answers[i].stale = session.answers[i].stale
       /\ session'.answers[i].evicted = session.answers[i].evicted
  /\ session = NewSession => session' = NewSession
  /\ UNCHANGED <<disk, table, served>>
PublishEffect(w) ==
  /\ w \in Indexers /\ pc(w) = "publish" /\ Alone(w) /\ local'[w].pc = "bump" /\ local'[w].key = NoKey
  /\ cache' \in [present : BOOLEAN, idx : Saves, raced : BOOLEAN]
  /\ ~cache'.raced => cache'.idx = disk
  /\ UNCHANGED <<disk, table, session, served>>
IndexCachedEffect(w) ==
  /\ w \in Indexers /\ pc(w) = "idle" /\ Alone(w)
  /\ local'[w].pc = "insert_cached" /\ local'[w].key = local[w].key
  /\ local'[w].stale = local[w].stale /\ local'[w].evicted = local[w].evicted
  /\ UNCHANGED <<disk, cache, table, session, served>>
InsertCachedEffect(w) ==
  /\ w \in Indexers /\ pc(w) = "insert_cached" /\ Alone(w) /\ local'[w] = Idle
  /\ cache' \in [present : BOOLEAN, idx : Saves, raced : BOOLEAN]
  /\ ~cache'.raced => cache'.idx = disk
  /\ UNCHANGED <<disk, table, session, served>>
FlushSaveEffect ==
  /\ pc(Flusher) = "idle" /\ disk' \in Saves /\ Alone(Flusher)
  /\ local'[Flusher].pc = "drop_cache" /\ local'[Flusher].key = local[Flusher].key
  /\ local'[Flusher].stale = local[Flusher].stale
  /\ local'[Flusher].evicted = local[Flusher].evicted
  /\ UNCHANGED <<cache, table, session, served>>
DropCacheEffect ==
  /\ pc(Flusher) = "drop_cache" /\ Alone(Flusher)
  /\ local'[Flusher].pc = "bump" /\ local'[Flusher].key = local[Flusher].key
  /\ local'[Flusher].stale = local[Flusher].stale
  /\ local'[Flusher].evicted = local[Flusher].evicted
  /\ cache' = NoSnapshot
  /\ UNCHANGED <<disk, table, session, served>>
BumpEffect(w) ==
  /\ w \in Writers /\ pc(w) = "bump"
  /\ local' \in [Processes -> Held] /\ local'[w] = Idle
  /\ \A q \in Processes \ {w} :
       /\ Same(q) /\ local'[q].raced = local[q].raced /\ local'[q].evicted = local[q].evicted
       /\ local'[q].stale = (local[q].stale \/ Asking(q))
  /\ session' \in [epoch : Nat, answers : Seq(StoredAnswer)]
  /\ session'.epoch = session.epoch + 1 /\ session'.answers = << >>
  /\ table' \in Seq(Projects) /\ Len(table') <= MaxSessions /\ Project \in ToSet(table')
  /\ UNCHANGED <<disk, cache, served>>
AskEffect(c) ==
  /\ c \in Investigators /\ pc(c) = "idle" /\ Alone(c) /\ TableKept
  /\ local'[c].pc = "lookup" /\ local'[c].key # NoKey /\ local'[c].key.epoch = session.epoch
  /\ ~local'[c].stale
  /\ UNCHANGED <<disk, cache, served>>
LookupEffect(c) ==
  /\ pc(c) = "lookup" /\ Alone(c) /\ TableKept
  /\ \/ /\ local'[c].pc = "load" /\ local'[c].key = local[c].key
        /\ local'[c].stale = local[c].stale /\ local'[c].evicted = local[c].evicted
        /\ served' = served
     \/ /\ local'[c] = Idle
        /\ \E i \in DOMAIN session.answers :
             /\ session.answers[i].key = local[c].key
             /\ served' = [stale |-> session.answers[i].stale /\ ~local[c].stale,
                           evicted |-> session.answers[i].evicted \/ local[c].evicted]
  /\ UNCHANGED <<disk, cache>>
LoadEffect(c) ==
  /\ pc(c) = "load" /\ Alone(c)
  /\ local'[c].pc \in {"fill", "store"} /\ local'[c].key = local[c].key
  /\ local'[c].stale = local[c].stale /\ local'[c].evicted = local[c].evicted
  /\ local'[c].raced = cache.raced
  /\ local'[c].idx = IF cache.present THEN cache.idx ELSE disk
  /\ UNCHANGED <<disk, cache, table, session, served>>
FillEffect(c) ==
  /\ pc(c) = "fill" /\ Alone(c)
  /\ local'[c].pc = "store" /\ local'[c].key = local[c].key /\ local'[c].idx = local[c].idx
  /\ local'[c].stale = local[c].stale /\ local'[c].evicted = local[c].evicted
  /\ local'[c].raced = local[c].raced
  /\ cache' \in [present : BOOLEAN, idx : Saves, raced : BOOLEAN]
  /\ ~cache'.raced => cache'.idx = disk
  /\ UNCHANGED <<disk, table, session, served>>
StoreEffect(c) ==
  /\ pc(c) = "store" /\ Alone(c) /\ local'[c] = Idle
  /\ session' \in [epoch : Nat, answers : Seq(StoredAnswer)]
  /\ session'.epoch = session.epoch /\ Len(session'.answers) <= MaxAnswers
  /\ \A i \in DOMAIN session'.answers :
       \/ \E j \in DOMAIN session.answers : session'.answers[i] = session.answers[j]
       \/ /\ session'.answers[i].key = local[c].key /\ session'.answers[i].idx = local[c].idx
          /\ session'.answers[i].raced = local[c].raced
          /\ session'.answers[i].stale = local[c].stale
          /\ session'.answers[i].evicted = local[c].evicted
  /\ table' \in Seq(Projects) /\ Len(table') <= MaxSessions /\ Project \in ToSet(table')
  /\ UNCHANGED <<disk, cache, served>>
OtherProjectEffect ==
  /\ local' \in [Processes -> Held]
  /\ \A q \in Processes :
       /\ Same(q) /\ local'[q].raced = local[q].raced /\ local'[q].stale = local[q].stale
       /\ local[q].evicted => local'[q].evicted
  /\ table' \in Seq(Projects) /\ Len(table') <= MaxSessions
  /\ \/ session' = session /\ (Project \notin ToSet(table') => session = NewSession)
     \/ /\ session' = NewSession
        /\ \A q \in Processes : Asking(q) => local'[q].evicted
  /\ UNCHANGED <<disk, cache, served>>

-----------------------------------------------------------------------------
\* A project that is in no session starts from a new one.
NoSessionIsNew == Project \notin ToSet(table) => session = NewSession

\* Writers write and investigators ask.
RoleOf(p) ==
  /\ pc(p) \in {"publish", "drop_cache", "bump", "insert_cached"} => p \in Writers /\ ~Asking(p)
  /\ pc(p) \in {"lookup", "load", "fill", "store"} => Asking(p)
  /\ pc(p) = "idle" => ~Asking(p)
Roles == \A p \in Processes : RoleOf(p)

\* The epoch of a call is the present one until it is bumped.
KeyOf(p) ==
  Asking(p) /\ ~local[p].evicted =>
    /\ local[p].stale => local[p].key.epoch < session.epoch
    /\ ~local[p].stale => local[p].key.epoch = session.epoch
CallKeys == \A p \in Processes : KeyOf(p)
AnswerKeys == \A i \in DOMAIN session.answers :
  ~session.answers[i].evicted /\ session.answers[i].stale
    => session.answers[i].key.epoch < session.epoch

\* What is not of index.bin as it is will be dropped by a writer under way.
WillDrop == \E w \in Writers : pc(w) \in {"publish", "drop_cache"}
Due == \E w \in Writers : pc(w) \in {"publish", "drop_cache", "bump"}
CacheFresh == cache.present /\ ~cache.raced => cache.idx = disk \/ WillDrop
FreshOf(p) ==
  pc(p) \in {"fill", "store"} /\ ~local[p].raced /\ ~local[p].stale /\ ~local[p].evicted
    => local[p].idx = disk \/ Due
CallFresh == \A p \in Processes : FreshOf(p)
AnswerFresh == \A i \in DOMAIN session.answers :
  LET a == session.answers[i]
  IN a.key.epoch = session.epoch /\ ~a.raced /\ ~a.evicted => a.idx = disk \/ Due

IInv == /\ TypeOK /\ NoSessionIsNew /\ Roles /\ CallKeys /\ AnswerKeys /\ NoStaleAnswer
        /\ CacheFresh /\ CallFresh /\ AnswerFresh

-----------------------------------------------------------------------------
LEMMA Dropped ==
  ASSUME NEW e \in Nat, NEW any, NEW new, new = DropAnswers([epoch |-> e, answers |-> any])
  PROVE  new \in [epoch : Nat, answers : Seq(StoredAnswer)] /\ new.epoch = e + 1 /\ new.answers = << >>
  BY EmptySeq DEF DropAnswers

LEMMA KeyEpoch ==
  ASSUME TypeOK, NEW p \in Processes
  PROVE  local[p].key.epoch \in Nat
<1>1. local[p].key \in Keys
  BY DEF TypeOK
<1> QED
  BY <1>1 DEF Keys, NoKey

LEMMA Alike ==
  ASSUME local \in [Processes -> Held], NEW p \in Processes, NEW r \in Held,
         local' = [local EXCEPT ![p] = r]
  PROVE  Alone(p) /\ local'[p] = r
  BY DEF Alone

LEMMA IdleHeld == Idle \in Held
<1>1. NoKey \in Keys /\ 1 \in Saves
  BY AnswerAssumption DEF Keys, Saves
<1> QED
  BY <1>1 DEF Idle, Held, ProcessSteps

LEMMA RestAlone ==
  ASSUME local \in [Processes -> Held], NEW p \in Processes, Rest(p), disk \in Saves
  PROVE  Alone(p) /\ local'[p] = Idle
  BY IdleHeld, Alike DEF Rest

LEMMA SnapshotFacts ==
  ASSUME disk \in Saves, NEW v \in Saves
  PROVE  /\ Snapshot(v) \in [present : BOOLEAN, idx : Saves, raced : BOOLEAN]
         /\ ~Snapshot(v).raced => Snapshot(v).idx = disk
  BY DEF Snapshot

LEMMA LookedAccess ==
  ASSUME table \in Seq(Projects), Len(table) <= MaxSessions, NoSessionIsNew,
         Access(Looked(table, Project), session)
  PROVE  TableKept
  BY LookedFacts DEF Access, TableKept, NoSessionIsNew

LEMMA EnteredAccess ==
  ASSUME table \in Seq(Projects), NEW s, Access(Entered(table, Project), s)
  PROVE  /\ table' \in Seq(Projects) /\ Len(table') <= MaxSessions /\ Project \in ToSet(table')
         /\ session' = s
  BY EnteredFacts DEF Access, Projects

LEMMA IndexSaveFacts ==
  ASSUME TypeOK, NoSessionIsNew, NEW w \in Processes, IndexSave(w)
  PROVE  IndexSaveEffect(w)
<1> USE DEF IndexSaveEffect
<1>1. /\ local \in [Processes -> Held] /\ disk \in Saves /\ table \in Seq(Projects) /\ Len(table) <= MaxSessions
      /\ cache \in [present : BOOLEAN, idx : Saves, raced : BOOLEAN]
      /\ session \in [epoch : Nat, answers : Seq(StoredAnswer)]
  BY DEF TypeOK, Held, Projects
<1>2. pc(w) = "idle" /\ disk' = disk + 1
      /\ local' = [local EXCEPT ![w] = [local[w] EXCEPT !.pc = "publish", !.idx = disk + 1]]
      /\ UNCHANGED <<cache, table, session, served>>
  BY DEF IndexSave
<1>5. disk < MaxSaves
  BY DEF IndexSave
<1>6. disk + 1 \in Saves
  BY <1>1, <1>5, AnswerAssumption DEF Saves
<1>3. local[w] \in Held /\ [local[w] EXCEPT !.pc = "publish", !.idx = disk + 1] \in Held
  BY <1>1, <1>2, <1>6 DEF Held, ProcessSteps
<1>4. Alone(w) /\ local'[w] = [local[w] EXCEPT !.pc = "publish", !.idx = disk + 1]
  BY <1>1, <1>2, <1>3, Alike
<1> QED
  BY <1>2, <1>3, <1>4, <1>6 DEF IndexSave, Held

LEMMA AbandonFacts ==
  ASSUME TypeOK, NoSessionIsNew, NEW w \in Processes, Abandon(w)
  PROVE  AbandonEffect(w)
<1> USE DEF AbandonEffect
<1>1. /\ local \in [Processes -> Held] /\ disk \in Saves /\ table \in Seq(Projects) /\ Len(table) <= MaxSessions
      /\ cache \in [present : BOOLEAN, idx : Saves, raced : BOOLEAN]
      /\ session \in [epoch : Nat, answers : Seq(StoredAnswer)]
  BY DEF TypeOK, Held, Projects
<1>2. w \in Processes /\ Idle \in Held
  BY <1>1, AnswerAssumption DEF Abandon, Processes, Writers, Idle, Held, ProcessSteps, Saves,
     Keys, NoKey
<1>3. local' = [p \in Processes |-> IF p = w THEN Idle
                                    ELSE [local[p] EXCEPT !.raced = local[p].raced \/ Asking(p)]]
  BY DEF Abandon
<1>4. ASSUME NEW q \in Processes
      PROVE  /\ local[q] \in Held /\ [local[q] EXCEPT !.raced = local[q].raced \/ Asking(q)] \in Held
  BY <1>1 DEF Held
<1>5. local' \in [Processes -> Held] /\ local'[w] = Idle
  BY <1>2, <1>3, <1>4
<1>6. ASSUME NEW q \in Processes \ {w}
      PROVE  /\ Same(q) /\ local'[q].stale = local[q].stale /\ local'[q].evicted = local[q].evicted
             /\ local'[q].raced = (local[q].raced \/ Asking(q))
  <2>1. local'[q] = [local[q] EXCEPT !.raced = local[q].raced \/ Asking(q)] /\ local[q] \in Held
    BY <1>3, <1>4
  <2> QED
    BY <2>1 DEF Held, Same, pc
<1>7. cache' \in [present : BOOLEAN, idx : Saves, raced : BOOLEAN] /\ (cache'.present => cache'.raced)
  BY <1>1 DEF Abandon
<1> DEFINE answers == [i \in DOMAIN session.answers |-> [session.answers[i] EXCEPT !.raced = TRUE]]
<1>8. session.answers \in Seq(StoredAnswer) /\ session' = [session EXCEPT !.answers = answers]
  BY <1>1 DEF Abandon
<1>9. ASSUME NEW i \in DOMAIN session.answers
      PROVE  session.answers[i] \in StoredAnswer /\ [session.answers[i] EXCEPT !.raced = TRUE] \in StoredAnswer
  <2>1. session.answers[i] \in StoredAnswer
    BY <1>8, ElementOfSeq
  <2> QED
    BY <2>1 DEF StoredAnswer
<1>10. /\ answers \in Seq(StoredAnswer) /\ DOMAIN answers = DOMAIN session.answers
       /\ \A i \in DOMAIN session.answers : answers[i] = [session.answers[i] EXCEPT !.raced = TRUE]
  <2>1. DOMAIN session.answers = 1 .. Len(session.answers) /\ Len(session.answers) \in Nat
    BY <1>8
  <2>2. answers \in [1 .. Len(session.answers) -> StoredAnswer]
    BY <1>9, <2>1
  <2> QED
    BY <2>1, <2>2, IsASeq
<1>11. ASSUME NEW i \in DOMAIN session.answers
       PROVE  /\ answers[i].raced /\ answers[i].key = session.answers[i].key
              /\ answers[i].stale = session.answers[i].stale
              /\ answers[i].evicted = session.answers[i].evicted
  BY <1>9, <1>10 DEF StoredAnswer
<1>12. session = NewSession => answers = << >>
  BY <1>8 DEF NewSession
<1> HIDE DEF answers
<1>13. session' \in [epoch : Nat, answers : Seq(StoredAnswer)] /\ session'.epoch = session.epoch
       /\ session'.answers = answers
  BY <1>1, <1>8, <1>10
<1>14. session = NewSession => session' = NewSession
  BY <1>1, <1>8, <1>12 DEF NewSession
<1> QED
  BY <1>5, <1>6, <1>7, <1>10, <1>11, <1>13, <1>14 DEF Abandon

LEMMA PublishFacts ==
  ASSUME TypeOK, NoSessionIsNew, NEW w \in Processes, Publish(w)
  PROVE  PublishEffect(w)
<1> USE DEF PublishEffect
<1>1. /\ local \in [Processes -> Held] /\ disk \in Saves /\ table \in Seq(Projects) /\ Len(table) <= MaxSessions
      /\ cache \in [present : BOOLEAN, idx : Saves, raced : BOOLEAN]
      /\ session \in [epoch : Nat, answers : Seq(StoredAnswer)]
  BY DEF TypeOK, Held, Projects
<1>2. w \in Processes /\ local' = [local EXCEPT ![w] = [Idle EXCEPT !.pc = "bump"]]
  BY DEF Publish, Processes, Writers
<1>3. [Idle EXCEPT !.pc = "bump"] \in Held /\ [Idle EXCEPT !.pc = "bump"].key = NoKey
      /\ [Idle EXCEPT !.pc = "bump"].pc = "bump"
  <2>1. Idle \in Held /\ Idle.key = NoKey
    BY IdleHeld DEF Idle
  <2> QED
    BY <2>1 DEF Held, ProcessSteps
<1>4. Alone(w) /\ local'[w] = [Idle EXCEPT !.pc = "bump"]
  BY <1>1, <1>2, <1>3, Alike
<1>5. local[w].idx \in Saves
  BY <1>1, <1>2 DEF Held
<1> QED
  BY <1>1, <1>3, <1>4, <1>5, SnapshotFacts DEF Publish

LEMMA IndexCachedFacts ==
  ASSUME TypeOK, NoSessionIsNew, NEW w \in Processes, IndexCached(w)
  PROVE  IndexCachedEffect(w)
<1> USE DEF IndexCachedEffect
<1>1. /\ local \in [Processes -> Held] /\ disk \in Saves /\ table \in Seq(Projects) /\ Len(table) <= MaxSessions
      /\ cache \in [present : BOOLEAN, idx : Saves, raced : BOOLEAN]
      /\ session \in [epoch : Nat, answers : Seq(StoredAnswer)]
  BY DEF TypeOK, Held, Projects
<1>2. w \in Processes /\ local' = [local EXCEPT ![w] = [local[w] EXCEPT !.pc = "insert_cached", !.idx = disk]]
  BY <1>1 DEF IndexCached, Go, Processes, Writers
<1>3. local[w] \in Held /\ [local[w] EXCEPT !.pc = "insert_cached", !.idx = disk] \in Held
  BY <1>1, <1>2 DEF Held, ProcessSteps
<1>4. Alone(w) /\ local'[w] = [local[w] EXCEPT !.pc = "insert_cached", !.idx = disk]
  BY <1>1, <1>2, <1>3, Alike
<1> QED
  BY <1>1, <1>2, <1>3, <1>4, SnapshotFacts DEF IndexCached, Held

LEMMA InsertCachedFacts ==
  ASSUME TypeOK, NoSessionIsNew, NEW w \in Processes, InsertCached(w)
  PROVE  InsertCachedEffect(w)
<1> USE DEF InsertCachedEffect
<1>1. /\ local \in [Processes -> Held] /\ disk \in Saves /\ table \in Seq(Projects) /\ Len(table) <= MaxSessions
      /\ cache \in [present : BOOLEAN, idx : Saves, raced : BOOLEAN]
      /\ session \in [epoch : Nat, answers : Seq(StoredAnswer)]
  BY DEF TypeOK, Held, Projects
<1>2. w \in Processes /\ Rest(w)
  BY DEF InsertCached, Processes, Writers
<1>3. Alone(w) /\ local'[w] = Idle
  BY <1>1, <1>2, RestAlone
<1>4. local[w].idx \in Saves
  BY <1>1, <1>2 DEF Held
<1> QED
  BY <1>1, <1>3, <1>4, SnapshotFacts DEF InsertCached

LEMMA FlushSaveFacts ==
  ASSUME TypeOK, NoSessionIsNew, FlushSave
  PROVE  FlushSaveEffect
<1> USE DEF FlushSaveEffect
<1>1. /\ local \in [Processes -> Held] /\ disk \in Saves /\ table \in Seq(Projects) /\ Len(table) <= MaxSessions
      /\ cache \in [present : BOOLEAN, idx : Saves, raced : BOOLEAN]
      /\ session \in [epoch : Nat, answers : Seq(StoredAnswer)]
  BY DEF TypeOK, Held, Projects
<1>2. Flusher \in Processes /\ local' = [local EXCEPT ![Flusher] = [local[Flusher] EXCEPT !.pc = "drop_cache"]]
  BY <1>1 DEF FlushSave, Go, Processes, Writers
<1>3. local[Flusher] \in Held /\ [local[Flusher] EXCEPT !.pc = "drop_cache"] \in Held
  BY <1>1, <1>2 DEF Held, ProcessSteps
<1>4. Alone(Flusher) /\ local'[Flusher] = [local[Flusher] EXCEPT !.pc = "drop_cache"]
  BY <1>1, <1>2, <1>3, Alike
<1>5. disk' \in Saves
  <2>1. disk' = disk \/ (disk < MaxSaves /\ disk' = disk + 1)
    BY DEF FlushSave
  <2> QED
    BY <1>1, <2>1, AnswerAssumption DEF Saves
<1>6. pc(Flusher) = "idle" /\ UNCHANGED <<cache, table, session, served>>
  BY DEF FlushSave
<1> QED
  BY <1>1, <1>3, <1>4, <1>5, <1>6 DEF Held

LEMMA DropCacheFacts ==
  ASSUME TypeOK, NoSessionIsNew, DropCache
  PROVE  DropCacheEffect
<1> USE DEF DropCacheEffect
<1>1. /\ local \in [Processes -> Held] /\ disk \in Saves /\ table \in Seq(Projects) /\ Len(table) <= MaxSessions
      /\ cache \in [present : BOOLEAN, idx : Saves, raced : BOOLEAN]
      /\ session \in [epoch : Nat, answers : Seq(StoredAnswer)]
  BY DEF TypeOK, Held, Projects
<1>2. Flusher \in Processes /\ local' = [local EXCEPT ![Flusher] = [local[Flusher] EXCEPT !.pc = "bump"]]
  BY <1>1 DEF DropCache, Go, Processes, Writers
<1>3. local[Flusher] \in Held /\ [local[Flusher] EXCEPT !.pc = "bump"] \in Held
  BY <1>1, <1>2 DEF Held, ProcessSteps
<1>4. Alone(Flusher) /\ local'[Flusher] = [local[Flusher] EXCEPT !.pc = "bump"]
  BY <1>1, <1>2, <1>3, Alike
<1> QED
  BY <1>1, <1>2, <1>3, <1>4, SnapshotFacts DEF DropCache, Held

LEMMA BumpFacts ==
  ASSUME TypeOK, NoSessionIsNew, NEW w \in Processes, Bump(w)
  PROVE  BumpEffect(w)
<1> USE DEF BumpEffect
<1>1. /\ local \in [Processes -> Held] /\ disk \in Saves /\ table \in Seq(Projects) /\ Len(table) <= MaxSessions
      /\ cache \in [present : BOOLEAN, idx : Saves, raced : BOOLEAN]
      /\ session \in [epoch : Nat, answers : Seq(StoredAnswer)]
  BY DEF TypeOK, Held, Projects
<1>2. w \in Processes /\ Idle \in Held
  BY <1>1, AnswerAssumption DEF Bump, Processes, Idle, Held, ProcessSteps, Saves, Keys, NoKey
<1>3. local' = [p \in Processes |-> IF p = w THEN Idle
                                    ELSE [local[p] EXCEPT !.stale = local[p].stale \/ Asking(p)]]
  BY DEF Bump
<1>4. ASSUME NEW q \in Processes
      PROVE  /\ local[q] \in Held /\ [local[q] EXCEPT !.stale = local[q].stale \/ Asking(q)] \in Held
  BY <1>1 DEF Held
<1>5. local' \in [Processes -> Held] /\ local'[w] = Idle
  BY <1>2, <1>3, <1>4
<1>6. ASSUME NEW q \in Processes \ {w}
      PROVE  /\ Same(q) /\ local'[q].raced = local[q].raced /\ local'[q].evicted = local[q].evicted
             /\ local'[q].stale = (local[q].stale \/ Asking(q))
  <2>1. local'[q] = [local[q] EXCEPT !.stale = local[q].stale \/ Asking(q)] /\ local[q] \in Held
    BY <1>3, <1>4
  <2> QED
    BY <2>1 DEF Held, Same, pc
<1> DEFINE old == [session EXCEPT !.answers = [i \in DOMAIN @ |-> [@[i] EXCEPT !.stale = TRUE]]]
<1>7. /\ table' \in Seq(Projects) /\ Len(table') <= MaxSessions /\ Project \in ToSet(table')
      /\ session' = DropAnswers(old)
  BY <1>1, EnteredAccess DEF Bump
<1>8. DropAnswers(old) \in [epoch : Nat, answers : Seq(StoredAnswer)]
      /\ DropAnswers(old).epoch = session.epoch + 1 /\ DropAnswers(old).answers = << >>
  <2>1. \E any : old = [session EXCEPT !.answers = any]
    OBVIOUS
  <2>2. PICK any : old = [session EXCEPT !.answers = any]
    BY <2>1
  <2> HIDE DEF old
  <2>3. old = [epoch |-> session.epoch, answers |-> any]
    BY <1>1, <2>2
  <2> QED
    BY <1>1, <2>3, Dropped
<1> HIDE DEF old
<1> QED
  BY <1>5, <1>6, <1>7, <1>8 DEF Bump

LEMMA AskFacts ==
  ASSUME TypeOK, NoSessionIsNew, NEW c \in Processes, Ask(c)
  PROVE  AskEffect(c)
<1> USE DEF AskEffect
<1>1. /\ local \in [Processes -> Held] /\ disk \in Saves /\ table \in Seq(Projects) /\ Len(table) <= MaxSessions
      /\ cache \in [present : BOOLEAN, idx : Saves, raced : BOOLEAN]
      /\ session \in [epoch : Nat, answers : Seq(StoredAnswer)]
  BY DEF TypeOK, Held, Projects
<1>2. c \in Processes /\ c \in Investigators /\ pc(c) = "idle" /\ UNCHANGED <<disk, cache, served>>
  BY DEF Ask, Processes
<1>3. PICK query \in Queries :
        local' = [local EXCEPT ![c] = [Idle EXCEPT !.pc = "lookup", !.key = CacheKey(query)]]
  BY DEF Ask
<1>4. CacheKey(query) \in Keys /\ CacheKey(query).epoch = session.epoch /\ CacheKey(query) # NoKey
  <2>1. CacheKey(query).query = query /\ NoKey.query = "none" /\ query # "none"
    BY AnswerAssumption DEF CacheKey, NoKey
  <2>2. CacheKey(query) # NoKey
    BY <2>1
  <2> QED
    BY <1>1, <2>2 DEF CacheKey, Keys
<1> HIDE DEF CacheKey
<1> DEFINE r == [Idle EXCEPT !.pc = "lookup", !.key = CacheKey(query)]
<1>5. r \in Held /\ r.pc = "lookup" /\ r.key = CacheKey(query) /\ ~r.stale
  <2>1. Idle \in Held /\ ~Idle.stale
    BY IdleHeld DEF Idle
  <2> QED
    BY <1>4, <2>1 DEF Held, ProcessSteps
<1> HIDE DEF r
<1>6. Alone(c) /\ local'[c] = r
  BY <1>1, <1>2, <1>3, <1>5, Alike DEF r
<1>7. TableKept
  BY <1>1, LookedAccess DEF Ask
<1> QED
  BY <1>2, <1>4, <1>5, <1>6, <1>7

LEMMA LookupFacts ==
  ASSUME TypeOK, NoSessionIsNew, NEW c \in Processes, Lookup(c)
  PROVE  LookupEffect(c)
<1> USE DEF LookupEffect
<1>1. /\ local \in [Processes -> Held] /\ disk \in Saves /\ table \in Seq(Projects) /\ Len(table) <= MaxSessions
      /\ cache \in [present : BOOLEAN, idx : Saves, raced : BOOLEAN]
      /\ session \in [epoch : Nat, answers : Seq(StoredAnswer)]
  BY DEF TypeOK, Held, Projects
<1>2. pc(c) = "lookup" /\ UNCHANGED <<disk, cache>> /\ TableKept
  BY <1>1, LookedAccess DEF Lookup
<1> DEFINE hits == Answers(session, local[c].key)
<1>3. CASE Go(c, "load") /\ UNCHANGED served
  <2>1. local[c] \in Held /\ [local[c] EXCEPT !.pc = "load"] \in Held
        /\ local' = [local EXCEPT ![c] = [local[c] EXCEPT !.pc = "load"]]
    BY <1>1, <1>3 DEF Held, ProcessSteps, Go
  <2>2. Alone(c) /\ local'[c] = [local[c] EXCEPT !.pc = "load"]
    BY <1>1, <2>1, Alike
  <2> QED
    BY <1>2, <1>3, <2>1, <2>2 DEF Held
<1>4. ASSUME NEW hit \in hits, Rest(c),
             served' = [stale |-> hit.stale /\ ~local[c].stale, evicted |-> hit.evicted \/ local[c].evicted]
      PROVE  LookupEffect(c)
  <2>1. PICK i \in DOMAIN session.answers : hit = session.answers[i] /\ hit.key = local[c].key
    BY DEF Answers, ToSet
  <2>2. Alone(c) /\ local'[c] = Idle
    BY <1>1, <1>4, RestAlone
  <2> QED
    BY <1>2, <1>4, <2>1, <2>2
<1> QED
  BY <1>3, <1>4 DEF Lookup

LEMMA LoadFacts ==
  ASSUME TypeOK, NoSessionIsNew, NEW c \in Processes, Load(c)
  PROVE  LoadEffect(c)
<1> USE DEF LoadEffect
<1>1. /\ local \in [Processes -> Held] /\ disk \in Saves /\ table \in Seq(Projects) /\ Len(table) <= MaxSessions
      /\ cache \in [present : BOOLEAN, idx : Saves, raced : BOOLEAN]
      /\ session \in [epoch : Nat, answers : Seq(StoredAnswer)]
  BY DEF TypeOK, Held, Projects
<1> DEFINE r == [local[c] EXCEPT !.pc = IF cache.present THEN "store" ELSE "fill",
                                !.idx = IF cache.present THEN cache.idx ELSE disk, !.raced = cache.raced]
<1>2. local' = [local EXCEPT ![c] = r] /\ pc(c) = "load" /\ UNCHANGED <<disk, cache, table, session, served>>
  BY DEF Load
<1>3. local[c] \in Held
  BY <1>1
<1>4. r \in Held
  BY <1>1, <1>3 DEF Held, ProcessSteps
<1>5. /\ r.pc \in {"fill", "store"} /\ r.key = local[c].key /\ r.stale = local[c].stale
      /\ r.evicted = local[c].evicted /\ r.raced = cache.raced
      /\ r.idx = IF cache.present THEN cache.idx ELSE disk
  BY <1>3 DEF Held
<1> HIDE DEF r
<1>6. Alone(c) /\ local'[c] = r
  BY <1>1, <1>2, <1>4, Alike
<1> QED
  BY <1>2, <1>5, <1>6

LEMMA FillFacts ==
  ASSUME TypeOK, NoSessionIsNew, NEW c \in Processes, Fill(c)
  PROVE  FillEffect(c)
<1> USE DEF FillEffect
<1>1. /\ local \in [Processes -> Held] /\ disk \in Saves /\ table \in Seq(Projects) /\ Len(table) <= MaxSessions
      /\ cache \in [present : BOOLEAN, idx : Saves, raced : BOOLEAN]
      /\ session \in [epoch : Nat, answers : Seq(StoredAnswer)]
  BY DEF TypeOK, Held, Projects
<1>2. c \in Processes /\ local' = [local EXCEPT ![c] = [local[c] EXCEPT !.pc = "store"]]
  BY <1>1 DEF Fill, Go, Processes, Writers
<1>3. local[c] \in Held /\ [local[c] EXCEPT !.pc = "store"] \in Held
  BY <1>1, <1>2 DEF Held, ProcessSteps
<1>4. Alone(c) /\ local'[c] = [local[c] EXCEPT !.pc = "store"]
  BY <1>1, <1>2, <1>3, Alike
<1> QED
  BY <1>1, <1>2, <1>3, <1>4, SnapshotFacts DEF Fill, Held

LEMMA StoreFacts ==
  ASSUME TypeOK, NoSessionIsNew, NEW c \in Processes, Store(c)
  PROVE  StoreEffect(c)
<1> USE DEF StoreEffect
<1>1. /\ local \in [Processes -> Held] /\ disk \in Saves /\ table \in Seq(Projects) /\ Len(table) <= MaxSessions
      /\ cache \in [present : BOOLEAN, idx : Saves, raced : BOOLEAN]
      /\ session \in [epoch : Nat, answers : Seq(StoredAnswer)]
  BY DEF TypeOK, Held, Projects
<1>2. pc(c) = "store" /\ Rest(c) /\ UNCHANGED <<disk, cache, served>>
  BY DEF Store
<1>3. Alone(c) /\ local'[c] = Idle
  BY <1>1, <1>2, RestAlone
<1>4. Answer(c) \in StoredAnswer
  BY <1>1 DEF Answer, StoredAnswer, Held
<1>5. /\ table' \in Seq(Projects) /\ Len(table') <= MaxSessions /\ Project \in ToSet(table')
      /\ session' = StoreAnswer(session, Answer(c))
  BY <1>1, EnteredAccess DEF Store
<1>6. /\ session' \in [epoch : Nat, answers : Seq(StoredAnswer)]
      /\ session'.epoch = session.epoch /\ Len(session'.answers) <= MaxAnswers
      /\ \A i \in DOMAIN session'.answers :
           session'.answers[i] = Answer(c) \/ \E j \in DOMAIN session.answers : session'.answers[i] = session.answers[j]
  BY <1>1, <1>4, <1>5, StoreAnswerFacts
<1>7. /\ Answer(c).key = local[c].key /\ Answer(c).idx = local[c].idx /\ Answer(c).raced = local[c].raced
      /\ Answer(c).stale = local[c].stale /\ Answer(c).evicted = local[c].evicted
  BY DEF Answer
<1> QED
  BY <1>2, <1>3, <1>5, <1>6, <1>7

LEMMA OtherProjectFacts ==
  ASSUME TypeOK, NoSessionIsNew, OtherProject
  PROVE  OtherProjectEffect
<1> USE DEF OtherProjectEffect
<1>1. /\ local \in [Processes -> Held] /\ disk \in Saves /\ table \in Seq(Projects) /\ Len(table) <= MaxSessions
      /\ cache \in [present : BOOLEAN, idx : Saves, raced : BOOLEAN]
      /\ session \in [epoch : Nat, answers : Seq(StoredAnswer)]
  BY DEF TypeOK, Held, Projects
<1>2. PICK other \in Others :
        /\ Access(Entered(table, other), session)
        /\ local' = [p \in Processes |->
                       [local[p] EXCEPT !.evicted =
                          local[p].evicted \/ (Asking(p) /\ Project \in ToSet(table) \ ToSet(Entered(table, other)))]]
  BY DEF OtherProject
<1> DEFINE gone == Project \in ToSet(table) \ ToSet(Entered(table, other))
<1>3. ASSUME NEW q \in Processes
      PROVE  /\ local[q] \in Held /\ [local[q] EXCEPT !.evicted = local[q].evicted \/ (Asking(q) /\ gone)] \in Held
  BY <1>1 DEF Held
<1>4. /\ table' = Entered(table, other) /\ table' \in Seq(Projects) /\ Len(table') <= MaxSessions
      /\ session' = IF Project \in ToSet(table') THEN session ELSE NewSession
  BY <1>1, <1>2, EnteredFacts DEF Access, Projects
<1> HIDE DEF gone
<1>5. local' = [p \in Processes |-> [local[p] EXCEPT !.evicted = local[p].evicted \/ (Asking(p) /\ gone)]]
  BY <1>2 DEF gone
<1>6. local' \in [Processes -> Held]
  BY <1>3, <1>5
<1>7. ASSUME NEW q \in Processes
      PROVE  /\ Same(q) /\ local'[q].raced = local[q].raced /\ local'[q].stale = local[q].stale
             /\ local'[q].evicted = (local[q].evicted \/ (Asking(q) /\ gone))
  <2>1. local'[q] = [local[q] EXCEPT !.evicted = local[q].evicted \/ (Asking(q) /\ gone)] /\ local[q] \in Held
    BY <1>3, <1>5
  <2> QED
    BY <2>1 DEF Held, Same, pc
<1>8. \/ session' = session /\ (Project \notin ToSet(table') => session = NewSession)
      \/ session' = NewSession /\ gone
  BY <1>4 DEF gone, NoSessionIsNew
<1>9. UNCHANGED <<disk, cache, served>>
  BY DEF OtherProject
<1> QED
  BY <1>4, <1>6, <1>7, <1>8, <1>9

LEMMA TypeOKStep ==
  ASSUME TypeOK, NoSessionIsNew, [Next]_vars
  PROVE  TypeOK'
<1> USE AnswerAssumption
<1>1. ASSUME NEW w \in Indexers, IndexSave(w) PROVE TypeOK'
  <2>1. IndexSaveEffect(w)
    BY <1>1, IndexSaveFacts DEF Processes, Writers
  <2>2. disk' \in Saves /\ cache' \in [present : BOOLEAN, idx : Saves, raced : BOOLEAN]
    BY <2>1 DEF IndexSaveEffect, Alone, TableKept, TypeOK, Saves, NoSnapshot
  <2>3. table' \in Seq(Projects) /\ Len(table') <= MaxSessions
    BY <2>1 DEF IndexSaveEffect, Alone, TableKept, TypeOK, Projects
  <2>4. session' \in [epoch : Nat, answers : Seq(StoredAnswer)] /\ Len(session'.answers) <= MaxAnswers
    BY <2>1 DEF IndexSaveEffect, Alone, TableKept, TypeOK, NewSession
  <2>5. local' \in [Processes -> Held]
    BY <2>1 DEF IndexSaveEffect, Alone, TableKept, TypeOK, Held
  <2>6. served' \in [stale : BOOLEAN, evicted : BOOLEAN]
    BY <2>1 DEF IndexSaveEffect, Alone, TableKept, TypeOK
  <2> QED
    BY <2>2, <2>3, <2>4, <2>5, <2>6 DEF TypeOK, Held, Projects
<1>2. ASSUME NEW w \in Indexers, Abandon(w) PROVE TypeOK'
  <2>1. AbandonEffect(w)
    BY <1>2, AbandonFacts DEF Processes, Writers
  <2>2. disk' \in Saves /\ cache' \in [present : BOOLEAN, idx : Saves, raced : BOOLEAN]
    BY <2>1 DEF AbandonEffect, Alone, TableKept, TypeOK, Saves, NoSnapshot
  <2>3. table' \in Seq(Projects) /\ Len(table') <= MaxSessions
    BY <2>1 DEF AbandonEffect, Alone, TableKept, TypeOK, Projects
  <2>4. session' \in [epoch : Nat, answers : Seq(StoredAnswer)] /\ Len(session'.answers) <= MaxAnswers
    BY <2>1 DEF AbandonEffect, Alone, TableKept, TypeOK, NewSession
  <2>5. local' \in [Processes -> Held]
    BY <2>1 DEF AbandonEffect, Alone, TableKept, TypeOK, Held
  <2>6. served' \in [stale : BOOLEAN, evicted : BOOLEAN]
    BY <2>1 DEF AbandonEffect, Alone, TableKept, TypeOK
  <2> QED
    BY <2>2, <2>3, <2>4, <2>5, <2>6 DEF TypeOK, Held, Projects
<1>3. ASSUME NEW w \in Indexers, Publish(w) PROVE TypeOK'
  <2>1. PublishEffect(w)
    BY <1>3, PublishFacts DEF Processes, Writers
  <2>2. disk' \in Saves /\ cache' \in [present : BOOLEAN, idx : Saves, raced : BOOLEAN]
    BY <2>1 DEF PublishEffect, Alone, TableKept, TypeOK, Saves, NoSnapshot
  <2>3. table' \in Seq(Projects) /\ Len(table') <= MaxSessions
    BY <2>1 DEF PublishEffect, Alone, TableKept, TypeOK, Projects
  <2>4. session' \in [epoch : Nat, answers : Seq(StoredAnswer)] /\ Len(session'.answers) <= MaxAnswers
    BY <2>1 DEF PublishEffect, Alone, TableKept, TypeOK, NewSession
  <2>5. local' \in [Processes -> Held]
    BY <2>1 DEF PublishEffect, Alone, TableKept, TypeOK, Held
  <2>6. served' \in [stale : BOOLEAN, evicted : BOOLEAN]
    BY <2>1 DEF PublishEffect, Alone, TableKept, TypeOK
  <2> QED
    BY <2>2, <2>3, <2>4, <2>5, <2>6 DEF TypeOK, Held, Projects
<1>4. ASSUME NEW w \in Indexers, IndexCached(w) PROVE TypeOK'
  <2>1. IndexCachedEffect(w)
    BY <1>4, IndexCachedFacts DEF Processes, Writers
  <2>2. disk' \in Saves /\ cache' \in [present : BOOLEAN, idx : Saves, raced : BOOLEAN]
    BY <2>1 DEF IndexCachedEffect, Alone, TableKept, TypeOK, Saves, NoSnapshot
  <2>3. table' \in Seq(Projects) /\ Len(table') <= MaxSessions
    BY <2>1 DEF IndexCachedEffect, Alone, TableKept, TypeOK, Projects
  <2>4. session' \in [epoch : Nat, answers : Seq(StoredAnswer)] /\ Len(session'.answers) <= MaxAnswers
    BY <2>1 DEF IndexCachedEffect, Alone, TableKept, TypeOK, NewSession
  <2>5. local' \in [Processes -> Held]
    BY <2>1 DEF IndexCachedEffect, Alone, TableKept, TypeOK, Held
  <2>6. served' \in [stale : BOOLEAN, evicted : BOOLEAN]
    BY <2>1 DEF IndexCachedEffect, Alone, TableKept, TypeOK
  <2> QED
    BY <2>2, <2>3, <2>4, <2>5, <2>6 DEF TypeOK, Held, Projects
<1>5. ASSUME NEW w \in Indexers, InsertCached(w) PROVE TypeOK'
  <2>1. InsertCachedEffect(w)
    BY <1>5, InsertCachedFacts DEF Processes, Writers
  <2>2. disk' \in Saves /\ cache' \in [present : BOOLEAN, idx : Saves, raced : BOOLEAN]
    BY <2>1 DEF InsertCachedEffect, Alone, TableKept, TypeOK, Saves, NoSnapshot
  <2>3. table' \in Seq(Projects) /\ Len(table') <= MaxSessions
    BY <2>1 DEF InsertCachedEffect, Alone, TableKept, TypeOK, Projects
  <2>4. session' \in [epoch : Nat, answers : Seq(StoredAnswer)] /\ Len(session'.answers) <= MaxAnswers
    BY <2>1 DEF InsertCachedEffect, Alone, TableKept, TypeOK, NewSession
  <2>5. local' \in [Processes -> Held]
    BY <2>1 DEF InsertCachedEffect, Alone, TableKept, TypeOK, Held
  <2>6. served' \in [stale : BOOLEAN, evicted : BOOLEAN]
    BY <2>1 DEF InsertCachedEffect, Alone, TableKept, TypeOK
  <2> QED
    BY <2>2, <2>3, <2>4, <2>5, <2>6 DEF TypeOK, Held, Projects
<1>6. ASSUME FlushSave PROVE TypeOK'
  <2>1. FlushSaveEffect
    BY <1>6, FlushSaveFacts DEF Processes, Writers
  <2>2. disk' \in Saves /\ cache' \in [present : BOOLEAN, idx : Saves, raced : BOOLEAN]
    BY <2>1 DEF FlushSaveEffect, Alone, TableKept, TypeOK, Saves, NoSnapshot
  <2>3. table' \in Seq(Projects) /\ Len(table') <= MaxSessions
    BY <2>1 DEF FlushSaveEffect, Alone, TableKept, TypeOK, Projects
  <2>4. session' \in [epoch : Nat, answers : Seq(StoredAnswer)] /\ Len(session'.answers) <= MaxAnswers
    BY <2>1 DEF FlushSaveEffect, Alone, TableKept, TypeOK, NewSession
  <2>5. local' \in [Processes -> Held]
    BY <2>1 DEF FlushSaveEffect, Alone, TableKept, TypeOK, Held
  <2>6. served' \in [stale : BOOLEAN, evicted : BOOLEAN]
    BY <2>1 DEF FlushSaveEffect, Alone, TableKept, TypeOK
  <2> QED
    BY <2>2, <2>3, <2>4, <2>5, <2>6 DEF TypeOK, Held, Projects
<1>7. ASSUME DropCache PROVE TypeOK'
  <2>1. DropCacheEffect
    BY <1>7, DropCacheFacts DEF Processes, Writers
  <2>2. disk' \in Saves /\ cache' \in [present : BOOLEAN, idx : Saves, raced : BOOLEAN]
    BY <2>1 DEF DropCacheEffect, Alone, TableKept, TypeOK, Saves, NoSnapshot
  <2>3. table' \in Seq(Projects) /\ Len(table') <= MaxSessions
    BY <2>1 DEF DropCacheEffect, Alone, TableKept, TypeOK, Projects
  <2>4. session' \in [epoch : Nat, answers : Seq(StoredAnswer)] /\ Len(session'.answers) <= MaxAnswers
    BY <2>1 DEF DropCacheEffect, Alone, TableKept, TypeOK, NewSession
  <2>5. local' \in [Processes -> Held]
    BY <2>1 DEF DropCacheEffect, Alone, TableKept, TypeOK, Held
  <2>6. served' \in [stale : BOOLEAN, evicted : BOOLEAN]
    BY <2>1 DEF DropCacheEffect, Alone, TableKept, TypeOK
  <2> QED
    BY <2>2, <2>3, <2>4, <2>5, <2>6 DEF TypeOK, Held, Projects
<1>8. ASSUME NEW w \in Writers, Bump(w) PROVE TypeOK'
  <2>1. BumpEffect(w)
    BY <1>8, BumpFacts DEF Processes, Writers
  <2>2. disk' \in Saves /\ cache' \in [present : BOOLEAN, idx : Saves, raced : BOOLEAN]
    BY <2>1 DEF BumpEffect, Alone, TableKept, TypeOK, Saves, NoSnapshot
  <2>3. table' \in Seq(Projects) /\ Len(table') <= MaxSessions
    BY <2>1 DEF BumpEffect, Alone, TableKept, TypeOK, Projects
  <2>4. session' \in [epoch : Nat, answers : Seq(StoredAnswer)] /\ Len(session'.answers) <= MaxAnswers
    BY <2>1, SessionAssumption, EmptySeq DEF BumpEffect
  <2>5. local' \in [Processes -> Held]
    BY <2>1 DEF BumpEffect, Alone, TableKept, TypeOK, Held
  <2>6. served' \in [stale : BOOLEAN, evicted : BOOLEAN]
    BY <2>1 DEF BumpEffect, Alone, TableKept, TypeOK
  <2> QED
    BY <2>2, <2>3, <2>4, <2>5, <2>6 DEF TypeOK, Held, Projects
<1>9. ASSUME NEW c \in Investigators, Ask(c) PROVE TypeOK'
  <2>1. AskEffect(c)
    BY <1>9, AskFacts DEF Processes, Writers
  <2>2. disk' \in Saves /\ cache' \in [present : BOOLEAN, idx : Saves, raced : BOOLEAN]
    BY <2>1 DEF AskEffect, Alone, TableKept, TypeOK, Saves, NoSnapshot
  <2>3. table' \in Seq(Projects) /\ Len(table') <= MaxSessions
    BY <2>1 DEF AskEffect, Alone, TableKept, TypeOK, Projects
  <2>4. session' \in [epoch : Nat, answers : Seq(StoredAnswer)] /\ Len(session'.answers) <= MaxAnswers
    BY <2>1 DEF AskEffect, Alone, TableKept, TypeOK, NewSession
  <2>5. local' \in [Processes -> Held]
    BY <2>1 DEF AskEffect, Alone, TableKept, TypeOK, Held
  <2>6. served' \in [stale : BOOLEAN, evicted : BOOLEAN]
    BY <2>1 DEF AskEffect, Alone, TableKept, TypeOK
  <2> QED
    BY <2>2, <2>3, <2>4, <2>5, <2>6 DEF TypeOK, Held, Projects
<1>10. ASSUME NEW c \in Investigators, Lookup(c) PROVE TypeOK'
  <2>1. LookupEffect(c)
    BY <1>10, LookupFacts DEF Processes, Writers
  <2>2. disk' \in Saves /\ cache' \in [present : BOOLEAN, idx : Saves, raced : BOOLEAN]
    BY <2>1 DEF LookupEffect, Alone, TableKept, TypeOK, Saves, NoSnapshot
  <2>3. table' \in Seq(Projects) /\ Len(table') <= MaxSessions
    BY <2>1 DEF LookupEffect, Alone, TableKept, TypeOK, Projects
  <2>4. session' \in [epoch : Nat, answers : Seq(StoredAnswer)] /\ Len(session'.answers) <= MaxAnswers
    BY <2>1 DEF LookupEffect, Alone, TableKept, TypeOK, NewSession
  <2>5. local' \in [Processes -> Held]
    BY <2>1 DEF LookupEffect, Alone, TableKept, TypeOK, Held
  <2>6. served' \in [stale : BOOLEAN, evicted : BOOLEAN]
    <3>1. \A i \in DOMAIN session.answers : session.answers[i] \in StoredAnswer
      BY ElementOfSeq DEF TypeOK
    <3>2. local[c].stale \in BOOLEAN /\ local[c].evicted \in BOOLEAN
      BY DEF TypeOK, Processes
    <3>3. CASE served' = served
      BY <3>3 DEF TypeOK
    <3>4. ASSUME NEW i \in DOMAIN session.answers,
                 served' = [stale |-> session.answers[i].stale /\ ~local[c].stale,
                            evicted |-> session.answers[i].evicted \/ local[c].evicted]
          PROVE  served' \in [stale : BOOLEAN, evicted : BOOLEAN]
      BY <3>1, <3>2, <3>4 DEF StoredAnswer
    <3> QED
      BY <2>1, <3>3, <3>4 DEF LookupEffect
  <2> QED
    BY <2>2, <2>3, <2>4, <2>5, <2>6 DEF TypeOK, Held, Projects
<1>11. ASSUME NEW c \in Investigators, Load(c) PROVE TypeOK'
  <2>1. LoadEffect(c)
    BY <1>11, LoadFacts DEF Processes, Writers
  <2>2. disk' \in Saves /\ cache' \in [present : BOOLEAN, idx : Saves, raced : BOOLEAN]
    BY <2>1 DEF LoadEffect, Alone, TableKept, TypeOK, Saves, NoSnapshot
  <2>3. table' \in Seq(Projects) /\ Len(table') <= MaxSessions
    BY <2>1 DEF LoadEffect, Alone, TableKept, TypeOK, Projects
  <2>4. session' \in [epoch : Nat, answers : Seq(StoredAnswer)] /\ Len(session'.answers) <= MaxAnswers
    BY <2>1 DEF LoadEffect, Alone, TableKept, TypeOK, NewSession
  <2>5. local' \in [Processes -> Held]
    BY <2>1 DEF LoadEffect, Alone, TableKept, TypeOK, Held
  <2>6. served' \in [stale : BOOLEAN, evicted : BOOLEAN]
    BY <2>1 DEF LoadEffect, Alone, TableKept, TypeOK
  <2> QED
    BY <2>2, <2>3, <2>4, <2>5, <2>6 DEF TypeOK, Held, Projects
<1>12. ASSUME NEW c \in Investigators, Fill(c) PROVE TypeOK'
  <2>1. FillEffect(c)
    BY <1>12, FillFacts DEF Processes, Writers
  <2>2. disk' \in Saves /\ cache' \in [present : BOOLEAN, idx : Saves, raced : BOOLEAN]
    BY <2>1 DEF FillEffect, Alone, TableKept, TypeOK, Saves, NoSnapshot
  <2>3. table' \in Seq(Projects) /\ Len(table') <= MaxSessions
    BY <2>1 DEF FillEffect, Alone, TableKept, TypeOK, Projects
  <2>4. session' \in [epoch : Nat, answers : Seq(StoredAnswer)] /\ Len(session'.answers) <= MaxAnswers
    BY <2>1 DEF FillEffect, Alone, TableKept, TypeOK, NewSession
  <2>5. local' \in [Processes -> Held]
    BY <2>1 DEF FillEffect, Alone, TableKept, TypeOK, Held
  <2>6. served' \in [stale : BOOLEAN, evicted : BOOLEAN]
    BY <2>1 DEF FillEffect, Alone, TableKept, TypeOK
  <2> QED
    BY <2>2, <2>3, <2>4, <2>5, <2>6 DEF TypeOK, Held, Projects
<1>13. ASSUME NEW c \in Investigators, Store(c) PROVE TypeOK'
  <2>1. StoreEffect(c)
    BY <1>13, StoreFacts DEF Processes, Writers
  <2>2. disk' \in Saves /\ cache' \in [present : BOOLEAN, idx : Saves, raced : BOOLEAN]
    BY <2>1 DEF StoreEffect, Alone, TableKept, TypeOK, Saves, NoSnapshot
  <2>3. table' \in Seq(Projects) /\ Len(table') <= MaxSessions
    BY <2>1 DEF StoreEffect, Alone, TableKept, TypeOK, Projects
  <2>4. session' \in [epoch : Nat, answers : Seq(StoredAnswer)] /\ Len(session'.answers) <= MaxAnswers
    BY <2>1 DEF StoreEffect, Alone, TableKept, TypeOK, NewSession
  <2>5. local' \in [Processes -> Held]
    BY <2>1 DEF StoreEffect, Alone, TableKept, TypeOK, Held
  <2>6. served' \in [stale : BOOLEAN, evicted : BOOLEAN]
    BY <2>1 DEF StoreEffect, Alone, TableKept, TypeOK
  <2> QED
    BY <2>2, <2>3, <2>4, <2>5, <2>6 DEF TypeOK, Held, Projects
<1>14. ASSUME OtherProject PROVE TypeOK'
  <2>1. OtherProjectEffect
    BY <1>14, OtherProjectFacts DEF Processes, Writers
  <2>2. disk' \in Saves /\ cache' \in [present : BOOLEAN, idx : Saves, raced : BOOLEAN]
    BY <2>1 DEF OtherProjectEffect, Alone, TableKept, TypeOK, Saves, NoSnapshot
  <2>3. table' \in Seq(Projects) /\ Len(table') <= MaxSessions
    BY <2>1 DEF OtherProjectEffect, Alone, TableKept, TypeOK, Projects
  <2>4. session' \in [epoch : Nat, answers : Seq(StoredAnswer)] /\ Len(session'.answers) <= MaxAnswers
    <3>1. NewSession \in [epoch : Nat, answers : Seq(StoredAnswer)] /\ Len(NewSession.answers) <= MaxAnswers
      BY SessionAssumption, EmptySeq DEF NewSession
    <3> QED
      BY <2>1, <3>1 DEF OtherProjectEffect, TypeOK
  <2>5. local' \in [Processes -> Held]
    BY <2>1 DEF OtherProjectEffect, Alone, TableKept, TypeOK, Held
  <2>6. served' \in [stale : BOOLEAN, evicted : BOOLEAN]
    BY <2>1 DEF OtherProjectEffect, Alone, TableKept, TypeOK
  <2> QED
    BY <2>2, <2>3, <2>4, <2>5, <2>6 DEF TypeOK, Held, Projects
<1>15. CASE UNCHANGED vars
  BY <1>15 DEF vars, TypeOK, Held, Projects, NoSnapshot, NewSession
<1> QED
  BY <1>1, <1>2, <1>3, <1>4, <1>5, <1>6, <1>7, <1>8, <1>9, <1>10, <1>11, <1>12, <1>13, <1>14,
     <1>15 DEF Next

LEMMA NoSessionIsNewStep ==
  ASSUME TypeOK, NoSessionIsNew, [Next]_vars
  PROVE  NoSessionIsNew'
<1> USE AnswerAssumption
<1>1. ASSUME NEW w \in Indexers, IndexSave(w) PROVE NoSessionIsNew'
  <2>1. IndexSaveEffect(w)
    BY <1>1, IndexSaveFacts DEF Processes, Writers
  <2> QED
    BY <2>1 DEF IndexSaveEffect, Alone, Processes, Writers, NoSessionIsNew, TableKept,
       NewSession, TypeOK
<1>2. ASSUME NEW w \in Indexers, Abandon(w) PROVE NoSessionIsNew'
  <2>1. AbandonEffect(w)
    BY <1>2, AbandonFacts DEF Processes, Writers
  <2> QED
    BY <2>1 DEF AbandonEffect, Alone, Processes, Writers, NoSessionIsNew, TableKept, NewSession,
       TypeOK
<1>3. ASSUME NEW w \in Indexers, Publish(w) PROVE NoSessionIsNew'
  <2>1. PublishEffect(w)
    BY <1>3, PublishFacts DEF Processes, Writers
  <2> QED
    BY <2>1 DEF PublishEffect, Alone, Processes, Writers, NoSessionIsNew, TableKept, NewSession,
       TypeOK
<1>4. ASSUME NEW w \in Indexers, IndexCached(w) PROVE NoSessionIsNew'
  <2>1. IndexCachedEffect(w)
    BY <1>4, IndexCachedFacts DEF Processes, Writers
  <2> QED
    BY <2>1 DEF IndexCachedEffect, Alone, Processes, Writers, NoSessionIsNew, TableKept,
       NewSession, TypeOK
<1>5. ASSUME NEW w \in Indexers, InsertCached(w) PROVE NoSessionIsNew'
  <2>1. InsertCachedEffect(w)
    BY <1>5, InsertCachedFacts DEF Processes, Writers
  <2> QED
    BY <2>1 DEF InsertCachedEffect, Alone, Processes, Writers, NoSessionIsNew, TableKept,
       NewSession, TypeOK
<1>6. ASSUME FlushSave PROVE NoSessionIsNew'
  <2>1. FlushSaveEffect
    BY <1>6, FlushSaveFacts DEF Processes, Writers
  <2> QED
    BY <2>1 DEF FlushSaveEffect, Alone, Processes, Writers, NoSessionIsNew, TableKept,
       NewSession, TypeOK
<1>7. ASSUME DropCache PROVE NoSessionIsNew'
  <2>1. DropCacheEffect
    BY <1>7, DropCacheFacts DEF Processes, Writers
  <2> QED
    BY <2>1 DEF DropCacheEffect, Alone, Processes, Writers, NoSessionIsNew, TableKept,
       NewSession, TypeOK
<1>8. ASSUME NEW w \in Writers, Bump(w) PROVE NoSessionIsNew'
  <2>1. BumpEffect(w)
    BY <1>8, BumpFacts DEF Processes, Writers
  <2> QED
    BY <2>1 DEF BumpEffect, Alone, Processes, Writers, NoSessionIsNew, TableKept, NewSession,
       TypeOK
<1>9. ASSUME NEW c \in Investigators, Ask(c) PROVE NoSessionIsNew'
  <2>1. AskEffect(c)
    BY <1>9, AskFacts DEF Processes, Writers
  <2> QED
    BY <2>1 DEF AskEffect, Alone, Processes, Writers, NoSessionIsNew, TableKept, NewSession,
       TypeOK
<1>10. ASSUME NEW c \in Investigators, Lookup(c) PROVE NoSessionIsNew'
  <2>1. LookupEffect(c)
    BY <1>10, LookupFacts DEF Processes, Writers
  <2> QED
    BY <2>1 DEF LookupEffect, Alone, Processes, Writers, NoSessionIsNew, TableKept, NewSession,
       TypeOK
<1>11. ASSUME NEW c \in Investigators, Load(c) PROVE NoSessionIsNew'
  <2>1. LoadEffect(c)
    BY <1>11, LoadFacts DEF Processes, Writers
  <2> QED
    BY <2>1 DEF LoadEffect, Alone, Processes, Writers, NoSessionIsNew, TableKept, NewSession,
       TypeOK
<1>12. ASSUME NEW c \in Investigators, Fill(c) PROVE NoSessionIsNew'
  <2>1. FillEffect(c)
    BY <1>12, FillFacts DEF Processes, Writers
  <2> QED
    BY <2>1 DEF FillEffect, Alone, Processes, Writers, NoSessionIsNew, TableKept, NewSession,
       TypeOK
<1>13. ASSUME NEW c \in Investigators, Store(c) PROVE NoSessionIsNew'
  <2>1. StoreEffect(c)
    BY <1>13, StoreFacts DEF Processes, Writers
  <2> QED
    BY <2>1 DEF StoreEffect, Alone, Processes, Writers, NoSessionIsNew, TableKept, NewSession,
       TypeOK
<1>14. ASSUME OtherProject PROVE NoSessionIsNew'
  <2>1. OtherProjectEffect
    BY <1>14, OtherProjectFacts DEF Processes, Writers
  <2> QED
    BY <2>1 DEF OtherProjectEffect, Alone, Processes, Writers, NoSessionIsNew, TableKept,
       NewSession, TypeOK
<1>15. CASE UNCHANGED vars
  BY <1>15 DEF vars, TypeOK, NoSessionIsNew, TableKept, NewSession
<1> QED
  BY <1>1, <1>2, <1>3, <1>4, <1>5, <1>6, <1>7, <1>8, <1>9, <1>10, <1>11, <1>12, <1>13, <1>14,
     <1>15 DEF Next

LEMMA RolesStep ==
  ASSUME TypeOK, NoSessionIsNew, Roles, [Next]_vars
  PROVE  Roles'
<1> USE AnswerAssumption
<1>1. ASSUME NEW w \in Indexers, IndexSave(w) PROVE Roles'
  <2>1. IndexSaveEffect(w)
    BY <1>1, IndexSaveFacts DEF Processes, Writers
  <2>2. RoleOf(w)'
    BY <2>1 DEF IndexSaveEffect, Alone, Processes, Writers, Roles, RoleOf, Asking, Same, pc,
       Idle, TableKept, TypeOK
  <2>3. ASSUME NEW q \in Processes, q # w PROVE RoleOf(q)'
    BY <2>1, <2>3 DEF IndexSaveEffect, Alone, Processes, Writers, Roles, RoleOf, Asking, Same,
       pc, Idle, TableKept, TypeOK
  <2> QED
    BY <2>2, <2>3 DEF Roles
<1>2. ASSUME NEW w \in Indexers, Abandon(w) PROVE Roles'
  <2>1. AbandonEffect(w)
    BY <1>2, AbandonFacts DEF Processes, Writers
  <2>2. RoleOf(w)'
    BY <2>1 DEF AbandonEffect, Alone, Processes, Writers, Roles, RoleOf, Asking, Same, pc, Idle,
       TableKept, TypeOK
  <2>3. ASSUME NEW q \in Processes, q # w PROVE RoleOf(q)'
    BY <2>1, <2>3 DEF AbandonEffect, Alone, Processes, Writers, Roles, RoleOf, Asking, Same, pc,
       Idle, TableKept, TypeOK
  <2> QED
    BY <2>2, <2>3 DEF Roles
<1>3. ASSUME NEW w \in Indexers, Publish(w) PROVE Roles'
  <2>1. PublishEffect(w)
    BY <1>3, PublishFacts DEF Processes, Writers
  <2>2. RoleOf(w)'
    BY <2>1 DEF PublishEffect, Alone, Processes, Writers, Roles, RoleOf, Asking, Same, pc, Idle,
       TableKept, TypeOK
  <2>3. ASSUME NEW q \in Processes, q # w PROVE RoleOf(q)'
    BY <2>1, <2>3 DEF PublishEffect, Alone, Processes, Writers, Roles, RoleOf, Asking, Same, pc,
       Idle, TableKept, TypeOK
  <2> QED
    BY <2>2, <2>3 DEF Roles
<1>4. ASSUME NEW w \in Indexers, IndexCached(w) PROVE Roles'
  <2>1. IndexCachedEffect(w)
    BY <1>4, IndexCachedFacts DEF Processes, Writers
  <2>2. RoleOf(w)'
    BY <2>1 DEF IndexCachedEffect, Alone, Processes, Writers, Roles, RoleOf, Asking, Same, pc,
       Idle, TableKept, TypeOK
  <2>3. ASSUME NEW q \in Processes, q # w PROVE RoleOf(q)'
    BY <2>1, <2>3 DEF IndexCachedEffect, Alone, Processes, Writers, Roles, RoleOf, Asking, Same,
       pc, Idle, TableKept, TypeOK
  <2> QED
    BY <2>2, <2>3 DEF Roles
<1>5. ASSUME NEW w \in Indexers, InsertCached(w) PROVE Roles'
  <2>1. InsertCachedEffect(w)
    BY <1>5, InsertCachedFacts DEF Processes, Writers
  <2>2. RoleOf(w)'
    BY <2>1 DEF InsertCachedEffect, Alone, Processes, Writers, Roles, RoleOf, Asking, Same, pc,
       Idle, TableKept, TypeOK
  <2>3. ASSUME NEW q \in Processes, q # w PROVE RoleOf(q)'
    BY <2>1, <2>3 DEF InsertCachedEffect, Alone, Processes, Writers, Roles, RoleOf, Asking,
       Same, pc, Idle, TableKept, TypeOK
  <2> QED
    BY <2>2, <2>3 DEF Roles
<1>6. ASSUME FlushSave PROVE Roles'
  <2>1. FlushSaveEffect
    BY <1>6, FlushSaveFacts DEF Processes, Writers
  <2> QED
    BY <2>1 DEF FlushSaveEffect, Alone, Processes, Writers, Roles, RoleOf, Asking, Same, pc,
       Idle, TableKept, TypeOK
<1>7. ASSUME DropCache PROVE Roles'
  <2>1. DropCacheEffect
    BY <1>7, DropCacheFacts DEF Processes, Writers
  <2> QED
    BY <2>1 DEF DropCacheEffect, Alone, Processes, Writers, Roles, RoleOf, Asking, Same, pc,
       Idle, TableKept, TypeOK
<1>8. ASSUME NEW w \in Writers, Bump(w) PROVE Roles'
  <2>1. BumpEffect(w)
    BY <1>8, BumpFacts DEF Processes, Writers
  <2>2. RoleOf(w)'
    BY <2>1 DEF BumpEffect, Alone, Processes, Writers, Roles, RoleOf, Asking, Same, pc, Idle,
       TableKept, TypeOK
  <2>3. ASSUME NEW q \in Processes, q # w PROVE RoleOf(q)'
    BY <2>1, <2>3 DEF BumpEffect, Alone, Processes, Writers, Roles, RoleOf, Asking, Same, pc,
       Idle, TableKept, TypeOK
  <2> QED
    BY <2>2, <2>3 DEF Roles
<1>9. ASSUME NEW c \in Investigators, Ask(c) PROVE Roles'
  <2>1. AskEffect(c)
    BY <1>9, AskFacts DEF Processes, Writers
  <2>2. RoleOf(c)'
    BY <2>1 DEF AskEffect, Alone, Processes, Writers, Roles, RoleOf, Asking, Same, pc, Idle,
       TableKept, TypeOK
  <2>3. ASSUME NEW q \in Processes, q # c PROVE RoleOf(q)'
    BY <2>1, <2>3 DEF AskEffect, Alone, Processes, Writers, Roles, RoleOf, Asking, Same, pc,
       Idle, TableKept, TypeOK
  <2> QED
    BY <2>2, <2>3 DEF Roles
<1>10. ASSUME NEW c \in Investigators, Lookup(c) PROVE Roles'
  <2>1. LookupEffect(c)
    BY <1>10, LookupFacts DEF Processes, Writers
  <2>2. RoleOf(c)'
    BY <2>1 DEF LookupEffect, Alone, Processes, Writers, Roles, RoleOf, Asking, Same, pc, Idle,
       TableKept, TypeOK
  <2>3. ASSUME NEW q \in Processes, q # c PROVE RoleOf(q)'
    BY <2>1, <2>3 DEF LookupEffect, Alone, Processes, Writers, Roles, RoleOf, Asking, Same, pc,
       Idle, TableKept, TypeOK
  <2> QED
    BY <2>2, <2>3 DEF Roles
<1>11. ASSUME NEW c \in Investigators, Load(c) PROVE Roles'
  <2>1. LoadEffect(c)
    BY <1>11, LoadFacts DEF Processes, Writers
  <2>2. RoleOf(c)'
    BY <2>1 DEF LoadEffect, Alone, Processes, Writers, Roles, RoleOf, Asking, Same, pc, Idle,
       TableKept, TypeOK
  <2>3. ASSUME NEW q \in Processes, q # c PROVE RoleOf(q)'
    BY <2>1, <2>3 DEF LoadEffect, Alone, Processes, Writers, Roles, RoleOf, Asking, Same, pc,
       Idle, TableKept, TypeOK
  <2> QED
    BY <2>2, <2>3 DEF Roles
<1>12. ASSUME NEW c \in Investigators, Fill(c) PROVE Roles'
  <2>1. FillEffect(c)
    BY <1>12, FillFacts DEF Processes, Writers
  <2>2. RoleOf(c)'
    BY <2>1 DEF FillEffect, Alone, Processes, Writers, Roles, RoleOf, Asking, Same, pc, Idle,
       TableKept, TypeOK
  <2>3. ASSUME NEW q \in Processes, q # c PROVE RoleOf(q)'
    BY <2>1, <2>3 DEF FillEffect, Alone, Processes, Writers, Roles, RoleOf, Asking, Same, pc,
       Idle, TableKept, TypeOK
  <2> QED
    BY <2>2, <2>3 DEF Roles
<1>13. ASSUME NEW c \in Investigators, Store(c) PROVE Roles'
  <2>1. StoreEffect(c)
    BY <1>13, StoreFacts DEF Processes, Writers
  <2>2. RoleOf(c)'
    BY <2>1 DEF StoreEffect, Alone, Processes, Writers, Roles, RoleOf, Asking, Same, pc, Idle,
       TableKept, TypeOK
  <2>3. ASSUME NEW q \in Processes, q # c PROVE RoleOf(q)'
    BY <2>1, <2>3 DEF StoreEffect, Alone, Processes, Writers, Roles, RoleOf, Asking, Same, pc,
       Idle, TableKept, TypeOK
  <2> QED
    BY <2>2, <2>3 DEF Roles
<1>14. ASSUME OtherProject PROVE Roles'
  <2>1. OtherProjectEffect
    BY <1>14, OtherProjectFacts DEF Processes, Writers
  <2> QED
    BY <2>1 DEF OtherProjectEffect, Alone, Processes, Writers, Roles, RoleOf, Asking, Same, pc,
       Idle, TableKept, TypeOK
<1>15. CASE UNCHANGED vars
  BY <1>15 DEF vars, TypeOK, Roles, RoleOf, Asking, Same, pc, Idle, TableKept
<1> QED
  BY <1>1, <1>2, <1>3, <1>4, <1>5, <1>6, <1>7, <1>8, <1>9, <1>10, <1>11, <1>12, <1>13, <1>14,
     <1>15 DEF Next

LEMMA CallKeysStep ==
  ASSUME TypeOK, NoSessionIsNew, Roles, CallKeys, [Next]_vars
  PROVE  CallKeys'
<1> USE AnswerAssumption
<1>1. ASSUME NEW w \in Indexers, IndexSave(w) PROVE CallKeys'
  <2>1. IndexSaveEffect(w)
    BY <1>1, IndexSaveFacts DEF Processes, Writers
  <2>2. KeyOf(w)'
    BY <2>1 DEF IndexSaveEffect, Alone, Processes, Writers, CallKeys, KeyOf, Roles, RoleOf,
       Asking, Same, pc, Idle, TableKept, NewSession, TypeOK
  <2>3. ASSUME NEW q \in Processes, q # w PROVE KeyOf(q)'
    BY <2>1, <2>3 DEF IndexSaveEffect, Alone, Processes, Writers, CallKeys, KeyOf, Roles,
       RoleOf, Asking, Same, pc, Idle, TableKept, NewSession, TypeOK
  <2> QED
    BY <2>2, <2>3 DEF CallKeys
<1>2. ASSUME NEW w \in Indexers, Abandon(w) PROVE CallKeys'
  <2>1. AbandonEffect(w)
    BY <1>2, AbandonFacts DEF Processes, Writers
  <2>2. KeyOf(w)'
    BY <2>1 DEF AbandonEffect, Alone, Processes, Writers, CallKeys, KeyOf, Roles, RoleOf,
       Asking, Same, pc, Idle, TableKept, NewSession, TypeOK
  <2>3. ASSUME NEW q \in Processes, q # w PROVE KeyOf(q)'
    BY <2>1, <2>3 DEF AbandonEffect, Alone, Processes, Writers, CallKeys, KeyOf, Roles, RoleOf,
       Asking, Same, pc, Idle, TableKept, NewSession, TypeOK
  <2> QED
    BY <2>2, <2>3 DEF CallKeys
<1>3. ASSUME NEW w \in Indexers, Publish(w) PROVE CallKeys'
  <2>1. PublishEffect(w)
    BY <1>3, PublishFacts DEF Processes, Writers
  <2>2. KeyOf(w)'
    BY <2>1 DEF PublishEffect, Alone, Processes, Writers, CallKeys, KeyOf, Roles, RoleOf,
       Asking, Same, pc, Idle, TableKept, NewSession, TypeOK
  <2>3. ASSUME NEW q \in Processes, q # w PROVE KeyOf(q)'
    BY <2>1, <2>3 DEF PublishEffect, Alone, Processes, Writers, CallKeys, KeyOf, Roles, RoleOf,
       Asking, Same, pc, Idle, TableKept, NewSession, TypeOK
  <2> QED
    BY <2>2, <2>3 DEF CallKeys
<1>4. ASSUME NEW w \in Indexers, IndexCached(w) PROVE CallKeys'
  <2>1. IndexCachedEffect(w)
    BY <1>4, IndexCachedFacts DEF Processes, Writers
  <2>2. KeyOf(w)'
    BY <2>1 DEF IndexCachedEffect, Alone, Processes, Writers, CallKeys, KeyOf, Roles, RoleOf,
       Asking, Same, pc, Idle, TableKept, NewSession, TypeOK
  <2>3. ASSUME NEW q \in Processes, q # w PROVE KeyOf(q)'
    BY <2>1, <2>3 DEF IndexCachedEffect, Alone, Processes, Writers, CallKeys, KeyOf, Roles,
       RoleOf, Asking, Same, pc, Idle, TableKept, NewSession, TypeOK
  <2> QED
    BY <2>2, <2>3 DEF CallKeys
<1>5. ASSUME NEW w \in Indexers, InsertCached(w) PROVE CallKeys'
  <2>1. InsertCachedEffect(w)
    BY <1>5, InsertCachedFacts DEF Processes, Writers
  <2>2. KeyOf(w)'
    BY <2>1 DEF InsertCachedEffect, Alone, Processes, Writers, CallKeys, KeyOf, Roles, RoleOf,
       Asking, Same, pc, Idle, TableKept, NewSession, TypeOK
  <2>3. ASSUME NEW q \in Processes, q # w PROVE KeyOf(q)'
    BY <2>1, <2>3 DEF InsertCachedEffect, Alone, Processes, Writers, CallKeys, KeyOf, Roles,
       RoleOf, Asking, Same, pc, Idle, TableKept, NewSession, TypeOK
  <2> QED
    BY <2>2, <2>3 DEF CallKeys
<1>6. ASSUME FlushSave PROVE CallKeys'
  <2>1. FlushSaveEffect
    BY <1>6, FlushSaveFacts DEF Processes, Writers
  <2> QED
    BY <2>1 DEF FlushSaveEffect, Alone, Processes, Writers, CallKeys, KeyOf, Roles, RoleOf,
       Asking, Same, pc, Idle, TableKept, NewSession, TypeOK
<1>7. ASSUME DropCache PROVE CallKeys'
  <2>1. DropCacheEffect
    BY <1>7, DropCacheFacts DEF Processes, Writers
  <2> QED
    BY <2>1 DEF DropCacheEffect, Alone, Processes, Writers, CallKeys, KeyOf, Roles, RoleOf,
       Asking, Same, pc, Idle, TableKept, NewSession, TypeOK
<1>8. ASSUME NEW w \in Writers, Bump(w) PROVE CallKeys'
  <2>1. BumpEffect(w)
    BY <1>8, BumpFacts DEF Processes, Writers
  <2>2. KeyOf(w)'
    BY <2>1 DEF BumpEffect, KeyOf, Asking, Idle
  <2>3. ASSUME NEW q \in Processes, q # w PROVE KeyOf(q)'
    <3>1. /\ local'[q].key = local[q].key /\ local'[q].evicted = local[q].evicted
          /\ Asking(q) => local'[q].stale
          /\ session'.epoch = session.epoch + 1 /\ session.epoch \in Nat
      BY <2>1, <2>3 DEF BumpEffect, Same, TypeOK
    <3>2. Asking(q) /\ ~local[q].evicted => local[q].key.epoch <= session.epoch
      BY <3>1, KeyEpoch DEF CallKeys, KeyOf, TypeOK
    <3> QED
      BY <3>1, <3>2, KeyEpoch DEF KeyOf, Asking
  <2> QED
    BY <2>2, <2>3 DEF CallKeys
<1>9. ASSUME NEW c \in Investigators, Ask(c) PROVE CallKeys'
  <2>1. AskEffect(c)
    BY <1>9, AskFacts DEF Processes, Writers
  <2>2. KeyOf(c)'
    BY <2>1 DEF AskEffect, Alone, Processes, Writers, CallKeys, KeyOf, Roles, RoleOf, Asking,
       Same, pc, Idle, TableKept, NewSession, TypeOK
  <2>3. ASSUME NEW q \in Processes, q # c PROVE KeyOf(q)'
    BY <2>1, <2>3 DEF AskEffect, Alone, Processes, Writers, CallKeys, KeyOf, Roles, RoleOf,
       Asking, Same, pc, Idle, TableKept, NewSession, TypeOK
  <2> QED
    BY <2>2, <2>3 DEF CallKeys
<1>10. ASSUME NEW c \in Investigators, Lookup(c) PROVE CallKeys'
  <2>1. LookupEffect(c)
    BY <1>10, LookupFacts DEF Processes, Writers
  <2>2. KeyOf(c)'
    BY <2>1 DEF LookupEffect, Alone, Processes, Writers, CallKeys, KeyOf, Roles, RoleOf, Asking,
       Same, pc, Idle, TableKept, NewSession, TypeOK
  <2>3. ASSUME NEW q \in Processes, q # c PROVE KeyOf(q)'
    BY <2>1, <2>3 DEF LookupEffect, Alone, Processes, Writers, CallKeys, KeyOf, Roles, RoleOf,
       Asking, Same, pc, Idle, TableKept, NewSession, TypeOK
  <2> QED
    BY <2>2, <2>3 DEF CallKeys
<1>11. ASSUME NEW c \in Investigators, Load(c) PROVE CallKeys'
  <2>1. LoadEffect(c)
    BY <1>11, LoadFacts DEF Processes, Writers
  <2>2. KeyOf(c)'
    BY <2>1 DEF LoadEffect, Alone, Processes, Writers, CallKeys, KeyOf, Roles, RoleOf, Asking,
       Same, pc, Idle, TableKept, NewSession, TypeOK
  <2>3. ASSUME NEW q \in Processes, q # c PROVE KeyOf(q)'
    BY <2>1, <2>3 DEF LoadEffect, Alone, Processes, Writers, CallKeys, KeyOf, Roles, RoleOf,
       Asking, Same, pc, Idle, TableKept, NewSession, TypeOK
  <2> QED
    BY <2>2, <2>3 DEF CallKeys
<1>12. ASSUME NEW c \in Investigators, Fill(c) PROVE CallKeys'
  <2>1. FillEffect(c)
    BY <1>12, FillFacts DEF Processes, Writers
  <2>2. KeyOf(c)'
    BY <2>1 DEF FillEffect, Alone, Processes, Writers, CallKeys, KeyOf, Roles, RoleOf, Asking,
       Same, pc, Idle, TableKept, NewSession, TypeOK
  <2>3. ASSUME NEW q \in Processes, q # c PROVE KeyOf(q)'
    BY <2>1, <2>3 DEF FillEffect, Alone, Processes, Writers, CallKeys, KeyOf, Roles, RoleOf,
       Asking, Same, pc, Idle, TableKept, NewSession, TypeOK
  <2> QED
    BY <2>2, <2>3 DEF CallKeys
<1>13. ASSUME NEW c \in Investigators, Store(c) PROVE CallKeys'
  <2>1. StoreEffect(c)
    BY <1>13, StoreFacts DEF Processes, Writers
  <2>2. KeyOf(c)'
    BY <2>1 DEF StoreEffect, Alone, Processes, Writers, CallKeys, KeyOf, Roles, RoleOf, Asking,
       Same, pc, Idle, TableKept, NewSession, TypeOK
  <2>3. ASSUME NEW q \in Processes, q # c PROVE KeyOf(q)'
    BY <2>1, <2>3 DEF StoreEffect, Alone, Processes, Writers, CallKeys, KeyOf, Roles, RoleOf,
       Asking, Same, pc, Idle, TableKept, NewSession, TypeOK
  <2> QED
    BY <2>2, <2>3 DEF CallKeys
<1>14. ASSUME OtherProject PROVE CallKeys'
  <2>1. OtherProjectEffect
    BY <1>14, OtherProjectFacts DEF Processes, Writers
  <2> QED
    BY <2>1 DEF OtherProjectEffect, Alone, Processes, Writers, CallKeys, KeyOf, Roles, RoleOf,
       Asking, Same, pc, Idle, TableKept, NewSession, TypeOK
<1>15. CASE UNCHANGED vars
  BY <1>15 DEF vars, TypeOK, CallKeys, KeyOf, Roles, RoleOf, Asking, Same, pc, Idle, TableKept,
     NewSession
<1> QED
  BY <1>1, <1>2, <1>3, <1>4, <1>5, <1>6, <1>7, <1>8, <1>9, <1>10, <1>11, <1>12, <1>13, <1>14,
     <1>15 DEF Next

LEMMA AnswerKeysStep ==
  ASSUME TypeOK, NoSessionIsNew, Roles, CallKeys, AnswerKeys, [Next]_vars
  PROVE  AnswerKeys'
<1> USE AnswerAssumption
<1>1. ASSUME NEW w \in Indexers, IndexSave(w) PROVE AnswerKeys'
  <2>1. IndexSaveEffect(w)
    BY <1>1, IndexSaveFacts DEF Processes, Writers
  <2> QED
    BY <2>1 DEF IndexSaveEffect, Alone, Processes, Writers, AnswerKeys, CallKeys, KeyOf, Roles,
       RoleOf, Asking, TableKept, NewSession, pc, TypeOK
<1>2. ASSUME NEW w \in Indexers, Abandon(w) PROVE AnswerKeys'
  <2>1. AbandonEffect(w)
    BY <1>2, AbandonFacts DEF Processes, Writers
  <2> QED
    BY <2>1 DEF AbandonEffect, Alone, Processes, Writers, AnswerKeys, CallKeys, KeyOf, Roles,
       RoleOf, Asking, TableKept, NewSession, pc, TypeOK
<1>3. ASSUME NEW w \in Indexers, Publish(w) PROVE AnswerKeys'
  <2>1. PublishEffect(w)
    BY <1>3, PublishFacts DEF Processes, Writers
  <2> QED
    BY <2>1 DEF PublishEffect, Alone, Processes, Writers, AnswerKeys, CallKeys, KeyOf, Roles,
       RoleOf, Asking, TableKept, NewSession, pc, TypeOK
<1>4. ASSUME NEW w \in Indexers, IndexCached(w) PROVE AnswerKeys'
  <2>1. IndexCachedEffect(w)
    BY <1>4, IndexCachedFacts DEF Processes, Writers
  <2> QED
    BY <2>1 DEF IndexCachedEffect, Alone, Processes, Writers, AnswerKeys, CallKeys, KeyOf,
       Roles, RoleOf, Asking, TableKept, NewSession, pc, TypeOK
<1>5. ASSUME NEW w \in Indexers, InsertCached(w) PROVE AnswerKeys'
  <2>1. InsertCachedEffect(w)
    BY <1>5, InsertCachedFacts DEF Processes, Writers
  <2> QED
    BY <2>1 DEF InsertCachedEffect, Alone, Processes, Writers, AnswerKeys, CallKeys, KeyOf,
       Roles, RoleOf, Asking, TableKept, NewSession, pc, TypeOK
<1>6. ASSUME FlushSave PROVE AnswerKeys'
  <2>1. FlushSaveEffect
    BY <1>6, FlushSaveFacts DEF Processes, Writers
  <2> QED
    BY <2>1 DEF FlushSaveEffect, Alone, Processes, Writers, AnswerKeys, CallKeys, KeyOf, Roles,
       RoleOf, Asking, TableKept, NewSession, pc, TypeOK
<1>7. ASSUME DropCache PROVE AnswerKeys'
  <2>1. DropCacheEffect
    BY <1>7, DropCacheFacts DEF Processes, Writers
  <2> QED
    BY <2>1 DEF DropCacheEffect, Alone, Processes, Writers, AnswerKeys, CallKeys, KeyOf, Roles,
       RoleOf, Asking, TableKept, NewSession, pc, TypeOK
<1>8. ASSUME NEW w \in Writers, Bump(w) PROVE AnswerKeys'
  <2>1. BumpEffect(w)
    BY <1>8, BumpFacts DEF Processes, Writers
  <2> QED
    BY <2>1 DEF BumpEffect, Alone, Processes, Writers, AnswerKeys, CallKeys, KeyOf, Roles,
       RoleOf, Asking, TableKept, NewSession, pc, TypeOK
<1>9. ASSUME NEW c \in Investigators, Ask(c) PROVE AnswerKeys'
  <2>1. AskEffect(c)
    BY <1>9, AskFacts DEF Processes, Writers
  <2> QED
    BY <2>1 DEF AskEffect, Alone, Processes, Writers, AnswerKeys, CallKeys, KeyOf, Roles,
       RoleOf, Asking, TableKept, NewSession, pc, TypeOK
<1>10. ASSUME NEW c \in Investigators, Lookup(c) PROVE AnswerKeys'
  <2>1. LookupEffect(c)
    BY <1>10, LookupFacts DEF Processes, Writers
  <2> QED
    BY <2>1 DEF LookupEffect, Alone, Processes, Writers, AnswerKeys, CallKeys, KeyOf, Roles,
       RoleOf, Asking, TableKept, NewSession, pc, TypeOK
<1>11. ASSUME NEW c \in Investigators, Load(c) PROVE AnswerKeys'
  <2>1. LoadEffect(c)
    BY <1>11, LoadFacts DEF Processes, Writers
  <2> QED
    BY <2>1 DEF LoadEffect, Alone, Processes, Writers, AnswerKeys, CallKeys, KeyOf, Roles,
       RoleOf, Asking, TableKept, NewSession, pc, TypeOK
<1>12. ASSUME NEW c \in Investigators, Fill(c) PROVE AnswerKeys'
  <2>1. FillEffect(c)
    BY <1>12, FillFacts DEF Processes, Writers
  <2> QED
    BY <2>1 DEF FillEffect, Alone, Processes, Writers, AnswerKeys, CallKeys, KeyOf, Roles,
       RoleOf, Asking, TableKept, NewSession, pc, TypeOK
<1>13. ASSUME NEW c \in Investigators, Store(c) PROVE AnswerKeys'
  <2>1. StoreEffect(c)
    BY <1>13, StoreFacts DEF Processes, Writers
  <2> QED
    BY <2>1 DEF StoreEffect, Alone, Processes, Writers, AnswerKeys, CallKeys, KeyOf, Roles,
       RoleOf, Asking, TableKept, NewSession, pc, TypeOK
<1>14. ASSUME OtherProject PROVE AnswerKeys'
  <2>1. OtherProjectEffect
    BY <1>14, OtherProjectFacts DEF Processes, Writers
  <2> QED
    BY <2>1 DEF OtherProjectEffect, Alone, Processes, Writers, AnswerKeys, CallKeys, KeyOf,
       Roles, RoleOf, Asking, TableKept, NewSession, pc, TypeOK
<1>15. CASE UNCHANGED vars
  BY <1>15 DEF vars, TypeOK, AnswerKeys, CallKeys, KeyOf, Roles, RoleOf, Asking, TableKept,
     NewSession, pc
<1> QED
  BY <1>1, <1>2, <1>3, <1>4, <1>5, <1>6, <1>7, <1>8, <1>9, <1>10, <1>11, <1>12, <1>13, <1>14,
     <1>15 DEF Next

LEMMA NoStaleAnswerStep ==
  ASSUME TypeOK, NoSessionIsNew, Roles, CallKeys, AnswerKeys, NoStaleAnswer, [Next]_vars
  PROVE  NoStaleAnswer'
<1> USE AnswerAssumption
<1>1. ASSUME NEW w \in Indexers, IndexSave(w) PROVE NoStaleAnswer'
  <2>1. IndexSaveEffect(w)
    BY <1>1, IndexSaveFacts DEF Processes, Writers
  <2> QED
    BY <2>1 DEF IndexSaveEffect, Alone, Processes, Writers, NoStaleAnswer, AnswerKeys, CallKeys,
       KeyOf, Roles, RoleOf, Asking, pc, TableKept, TypeOK
<1>2. ASSUME NEW w \in Indexers, Abandon(w) PROVE NoStaleAnswer'
  <2>1. AbandonEffect(w)
    BY <1>2, AbandonFacts DEF Processes, Writers
  <2> QED
    BY <2>1 DEF AbandonEffect, Alone, Processes, Writers, NoStaleAnswer, AnswerKeys, CallKeys,
       KeyOf, Roles, RoleOf, Asking, pc, TableKept, TypeOK
<1>3. ASSUME NEW w \in Indexers, Publish(w) PROVE NoStaleAnswer'
  <2>1. PublishEffect(w)
    BY <1>3, PublishFacts DEF Processes, Writers
  <2> QED
    BY <2>1 DEF PublishEffect, Alone, Processes, Writers, NoStaleAnswer, AnswerKeys, CallKeys,
       KeyOf, Roles, RoleOf, Asking, pc, TableKept, TypeOK
<1>4. ASSUME NEW w \in Indexers, IndexCached(w) PROVE NoStaleAnswer'
  <2>1. IndexCachedEffect(w)
    BY <1>4, IndexCachedFacts DEF Processes, Writers
  <2> QED
    BY <2>1 DEF IndexCachedEffect, Alone, Processes, Writers, NoStaleAnswer, AnswerKeys,
       CallKeys, KeyOf, Roles, RoleOf, Asking, pc, TableKept, TypeOK
<1>5. ASSUME NEW w \in Indexers, InsertCached(w) PROVE NoStaleAnswer'
  <2>1. InsertCachedEffect(w)
    BY <1>5, InsertCachedFacts DEF Processes, Writers
  <2> QED
    BY <2>1 DEF InsertCachedEffect, Alone, Processes, Writers, NoStaleAnswer, AnswerKeys,
       CallKeys, KeyOf, Roles, RoleOf, Asking, pc, TableKept, TypeOK
<1>6. ASSUME FlushSave PROVE NoStaleAnswer'
  <2>1. FlushSaveEffect
    BY <1>6, FlushSaveFacts DEF Processes, Writers
  <2> QED
    BY <2>1 DEF FlushSaveEffect, Alone, Processes, Writers, NoStaleAnswer, AnswerKeys, CallKeys,
       KeyOf, Roles, RoleOf, Asking, pc, TableKept, TypeOK
<1>7. ASSUME DropCache PROVE NoStaleAnswer'
  <2>1. DropCacheEffect
    BY <1>7, DropCacheFacts DEF Processes, Writers
  <2> QED
    BY <2>1 DEF DropCacheEffect, Alone, Processes, Writers, NoStaleAnswer, AnswerKeys, CallKeys,
       KeyOf, Roles, RoleOf, Asking, pc, TableKept, TypeOK
<1>8. ASSUME NEW w \in Writers, Bump(w) PROVE NoStaleAnswer'
  <2>1. BumpEffect(w)
    BY <1>8, BumpFacts DEF Processes, Writers
  <2> QED
    BY <2>1 DEF BumpEffect, Alone, Processes, Writers, NoStaleAnswer, AnswerKeys, CallKeys,
       KeyOf, Roles, RoleOf, Asking, pc, TableKept, TypeOK
<1>9. ASSUME NEW c \in Investigators, Ask(c) PROVE NoStaleAnswer'
  <2>1. AskEffect(c)
    BY <1>9, AskFacts DEF Processes, Writers
  <2> QED
    BY <2>1 DEF AskEffect, Alone, Processes, Writers, NoStaleAnswer, AnswerKeys, CallKeys,
       KeyOf, Roles, RoleOf, Asking, pc, TableKept, TypeOK
<1>10. ASSUME NEW c \in Investigators, Lookup(c) PROVE NoStaleAnswer'
  <2>1. LookupEffect(c)
    BY <1>10, LookupFacts DEF Processes, Writers
  <2> QED
    BY <2>1 DEF LookupEffect, Alone, Processes, Writers, NoStaleAnswer, AnswerKeys, CallKeys,
       KeyOf, Roles, RoleOf, Asking, pc, TableKept, TypeOK
<1>11. ASSUME NEW c \in Investigators, Load(c) PROVE NoStaleAnswer'
  <2>1. LoadEffect(c)
    BY <1>11, LoadFacts DEF Processes, Writers
  <2> QED
    BY <2>1 DEF LoadEffect, Alone, Processes, Writers, NoStaleAnswer, AnswerKeys, CallKeys,
       KeyOf, Roles, RoleOf, Asking, pc, TableKept, TypeOK
<1>12. ASSUME NEW c \in Investigators, Fill(c) PROVE NoStaleAnswer'
  <2>1. FillEffect(c)
    BY <1>12, FillFacts DEF Processes, Writers
  <2> QED
    BY <2>1 DEF FillEffect, Alone, Processes, Writers, NoStaleAnswer, AnswerKeys, CallKeys,
       KeyOf, Roles, RoleOf, Asking, pc, TableKept, TypeOK
<1>13. ASSUME NEW c \in Investigators, Store(c) PROVE NoStaleAnswer'
  <2>1. StoreEffect(c)
    BY <1>13, StoreFacts DEF Processes, Writers
  <2> QED
    BY <2>1 DEF StoreEffect, Alone, Processes, Writers, NoStaleAnswer, AnswerKeys, CallKeys,
       KeyOf, Roles, RoleOf, Asking, pc, TableKept, TypeOK
<1>14. ASSUME OtherProject PROVE NoStaleAnswer'
  <2>1. OtherProjectEffect
    BY <1>14, OtherProjectFacts DEF Processes, Writers
  <2> QED
    BY <2>1 DEF OtherProjectEffect, Alone, Processes, Writers, NoStaleAnswer, AnswerKeys,
       CallKeys, KeyOf, Roles, RoleOf, Asking, pc, TableKept, TypeOK
<1>15. CASE UNCHANGED vars
  BY <1>15 DEF vars, TypeOK, NoStaleAnswer, AnswerKeys, CallKeys, KeyOf, Roles, RoleOf, Asking,
     pc, TableKept
<1> QED
  BY <1>1, <1>2, <1>3, <1>4, <1>5, <1>6, <1>7, <1>8, <1>9, <1>10, <1>11, <1>12, <1>13, <1>14,
     <1>15 DEF Next

LEMMA CacheFreshStep ==
  ASSUME TypeOK, NoSessionIsNew, Roles, CacheFresh, [Next]_vars
  PROVE  CacheFresh'
<1> USE AnswerAssumption
<1>1. ASSUME NEW w \in Indexers, IndexSave(w) PROVE CacheFresh'
  <2>1. IndexSaveEffect(w)
    BY <1>1, IndexSaveFacts DEF Processes, Writers
  <2> QED
    BY <2>1 DEF IndexSaveEffect, Alone, Processes, Writers, CacheFresh, WillDrop, Same, pc,
       NoSnapshot, Roles, RoleOf, Idle, Asking, TypeOK
<1>2. ASSUME NEW w \in Indexers, Abandon(w) PROVE CacheFresh'
  <2>1. AbandonEffect(w)
    BY <1>2, AbandonFacts DEF Processes, Writers
  <2> QED
    BY <2>1 DEF AbandonEffect, Alone, Processes, Writers, CacheFresh, WillDrop, Same, pc,
       NoSnapshot, Roles, RoleOf, Idle, Asking, TypeOK
<1>3. ASSUME NEW w \in Indexers, Publish(w) PROVE CacheFresh'
  <2>1. PublishEffect(w)
    BY <1>3, PublishFacts DEF Processes, Writers
  <2> QED
    BY <2>1 DEF PublishEffect, Alone, Processes, Writers, CacheFresh, WillDrop, Same, pc,
       NoSnapshot, Roles, RoleOf, Idle, Asking, TypeOK
<1>4. ASSUME NEW w \in Indexers, IndexCached(w) PROVE CacheFresh'
  <2>1. IndexCachedEffect(w)
    BY <1>4, IndexCachedFacts DEF Processes, Writers
  <2> QED
    BY <2>1 DEF IndexCachedEffect, Alone, Processes, Writers, CacheFresh, WillDrop, Same, pc,
       NoSnapshot, Roles, RoleOf, Idle, Asking, TypeOK
<1>5. ASSUME NEW w \in Indexers, InsertCached(w) PROVE CacheFresh'
  <2>1. InsertCachedEffect(w)
    BY <1>5, InsertCachedFacts DEF Processes, Writers
  <2> QED
    BY <2>1 DEF InsertCachedEffect, Alone, Processes, Writers, CacheFresh, WillDrop, Same, pc,
       NoSnapshot, Roles, RoleOf, Idle, Asking, TypeOK
<1>6. ASSUME FlushSave PROVE CacheFresh'
  <2>1. FlushSaveEffect
    BY <1>6, FlushSaveFacts DEF Processes, Writers
  <2> QED
    BY <2>1 DEF FlushSaveEffect, Alone, Processes, Writers, CacheFresh, WillDrop, Same, pc,
       NoSnapshot, Roles, RoleOf, Idle, Asking, TypeOK
<1>7. ASSUME DropCache PROVE CacheFresh'
  <2>1. DropCacheEffect
    BY <1>7, DropCacheFacts DEF Processes, Writers
  <2> QED
    BY <2>1 DEF DropCacheEffect, Alone, Processes, Writers, CacheFresh, WillDrop, Same, pc,
       NoSnapshot, Roles, RoleOf, Idle, Asking, TypeOK
<1>8. ASSUME NEW w \in Writers, Bump(w) PROVE CacheFresh'
  <2>1. BumpEffect(w)
    BY <1>8, BumpFacts DEF Processes, Writers
  <2> QED
    BY <2>1 DEF BumpEffect, Alone, Processes, Writers, CacheFresh, WillDrop, Same, pc,
       NoSnapshot, Roles, RoleOf, Idle, Asking, TypeOK
<1>9. ASSUME NEW c \in Investigators, Ask(c) PROVE CacheFresh'
  <2>1. AskEffect(c)
    BY <1>9, AskFacts DEF Processes, Writers
  <2> QED
    BY <2>1 DEF AskEffect, Alone, Processes, Writers, CacheFresh, WillDrop, Same, pc,
       NoSnapshot, Roles, RoleOf, Idle, Asking, TypeOK
<1>10. ASSUME NEW c \in Investigators, Lookup(c) PROVE CacheFresh'
  <2>1. LookupEffect(c)
    BY <1>10, LookupFacts DEF Processes, Writers
  <2> QED
    BY <2>1 DEF LookupEffect, Alone, Processes, Writers, CacheFresh, WillDrop, Same, pc,
       NoSnapshot, Roles, RoleOf, Idle, Asking, TypeOK
<1>11. ASSUME NEW c \in Investigators, Load(c) PROVE CacheFresh'
  <2>1. LoadEffect(c)
    BY <1>11, LoadFacts DEF Processes, Writers
  <2> QED
    BY <2>1 DEF LoadEffect, Alone, Processes, Writers, CacheFresh, WillDrop, Same, pc,
       NoSnapshot, Roles, RoleOf, Idle, Asking, TypeOK
<1>12. ASSUME NEW c \in Investigators, Fill(c) PROVE CacheFresh'
  <2>1. FillEffect(c)
    BY <1>12, FillFacts DEF Processes, Writers
  <2> QED
    BY <2>1 DEF FillEffect, Alone, Processes, Writers, CacheFresh, WillDrop, Same, pc,
       NoSnapshot, Roles, RoleOf, Idle, Asking, TypeOK
<1>13. ASSUME NEW c \in Investigators, Store(c) PROVE CacheFresh'
  <2>1. StoreEffect(c)
    BY <1>13, StoreFacts DEF Processes, Writers
  <2> QED
    BY <2>1 DEF StoreEffect, Alone, Processes, Writers, CacheFresh, WillDrop, Same, pc,
       NoSnapshot, Roles, RoleOf, Idle, Asking, TypeOK
<1>14. ASSUME OtherProject PROVE CacheFresh'
  <2>1. OtherProjectEffect
    BY <1>14, OtherProjectFacts DEF Processes, Writers
  <2> QED
    BY <2>1 DEF OtherProjectEffect, Alone, Processes, Writers, CacheFresh, WillDrop, Same, pc,
       NoSnapshot, Roles, RoleOf, Idle, Asking, TypeOK
<1>15. CASE UNCHANGED vars
  BY <1>15 DEF vars, TypeOK, CacheFresh, WillDrop, Same, pc, NoSnapshot, Roles, RoleOf, Idle,
     Asking
<1> QED
  BY <1>1, <1>2, <1>3, <1>4, <1>5, <1>6, <1>7, <1>8, <1>9, <1>10, <1>11, <1>12, <1>13, <1>14,
     <1>15 DEF Next

LEMMA CallFreshStep ==
  ASSUME TypeOK, NoSessionIsNew, Roles, CallKeys, CacheFresh, CallFresh, [Next]_vars
  PROVE  CallFresh'
<1> USE AnswerAssumption
<1>1. ASSUME NEW w \in Indexers, IndexSave(w) PROVE CallFresh'
  <2>1. IndexSaveEffect(w)
    BY <1>1, IndexSaveFacts DEF Processes, Writers
  <2>2. FreshOf(w)'
    BY <2>1 DEF IndexSaveEffect, Alone, Processes, Writers, CallFresh, FreshOf, CallKeys, KeyOf,
       CacheFresh, Due, WillDrop, Same, pc, Roles, RoleOf, Idle, Asking, TableKept, TypeOK
  <2>3. ASSUME NEW q \in Processes, q # w PROVE FreshOf(q)'
    BY <2>1, <2>3 DEF IndexSaveEffect, Alone, Processes, Writers, CallFresh, FreshOf, CallKeys,
       KeyOf, CacheFresh, Due, WillDrop, Same, pc, Roles, RoleOf, Idle, Asking, TableKept,
       TypeOK
  <2> QED
    BY <2>2, <2>3 DEF CallFresh
<1>2. ASSUME NEW w \in Indexers, Abandon(w) PROVE CallFresh'
  <2>1. AbandonEffect(w)
    BY <1>2, AbandonFacts DEF Processes, Writers
  <2>2. FreshOf(w)'
    BY <2>1 DEF AbandonEffect, FreshOf, Idle, pc
  <2>3. ASSUME NEW q \in Processes, q # w PROVE FreshOf(q)'
    <3>1. pc(q)' = pc(q) /\ (Asking(q) => local'[q].raced)
      BY <2>1, <2>3 DEF AbandonEffect, Same
    <3>2. pc(q) \in {"fill", "store"} => Asking(q)
      BY DEF Roles, RoleOf
    <3> QED
      BY <3>1, <3>2 DEF FreshOf
  <2> QED
    BY <2>2, <2>3 DEF CallFresh
<1>3. ASSUME NEW w \in Indexers, Publish(w) PROVE CallFresh'
  <2>1. PublishEffect(w)
    BY <1>3, PublishFacts DEF Processes, Writers
  <2>2. FreshOf(w)'
    BY <2>1 DEF PublishEffect, Alone, Processes, Writers, CallFresh, FreshOf, CallKeys, KeyOf,
       CacheFresh, Due, WillDrop, Same, pc, Roles, RoleOf, Idle, Asking, TableKept, TypeOK
  <2>3. ASSUME NEW q \in Processes, q # w PROVE FreshOf(q)'
    BY <2>1, <2>3 DEF PublishEffect, Alone, Processes, Writers, CallFresh, FreshOf, CallKeys,
       KeyOf, CacheFresh, Due, WillDrop, Same, pc, Roles, RoleOf, Idle, Asking, TableKept,
       TypeOK
  <2> QED
    BY <2>2, <2>3 DEF CallFresh
<1>4. ASSUME NEW w \in Indexers, IndexCached(w) PROVE CallFresh'
  <2>1. IndexCachedEffect(w)
    BY <1>4, IndexCachedFacts DEF Processes, Writers
  <2>2. FreshOf(w)'
    BY <2>1 DEF IndexCachedEffect, Alone, Processes, Writers, CallFresh, FreshOf, CallKeys,
       KeyOf, CacheFresh, Due, WillDrop, Same, pc, Roles, RoleOf, Idle, Asking, TableKept,
       TypeOK
  <2>3. ASSUME NEW q \in Processes, q # w PROVE FreshOf(q)'
    BY <2>1, <2>3 DEF IndexCachedEffect, Alone, Processes, Writers, CallFresh, FreshOf,
       CallKeys, KeyOf, CacheFresh, Due, WillDrop, Same, pc, Roles, RoleOf, Idle, Asking,
       TableKept, TypeOK
  <2> QED
    BY <2>2, <2>3 DEF CallFresh
<1>5. ASSUME NEW w \in Indexers, InsertCached(w) PROVE CallFresh'
  <2>1. InsertCachedEffect(w)
    BY <1>5, InsertCachedFacts DEF Processes, Writers
  <2>2. FreshOf(w)'
    BY <2>1 DEF InsertCachedEffect, Alone, Processes, Writers, CallFresh, FreshOf, CallKeys,
       KeyOf, CacheFresh, Due, WillDrop, Same, pc, Roles, RoleOf, Idle, Asking, TableKept,
       TypeOK
  <2>3. ASSUME NEW q \in Processes, q # w PROVE FreshOf(q)'
    BY <2>1, <2>3 DEF InsertCachedEffect, Alone, Processes, Writers, CallFresh, FreshOf,
       CallKeys, KeyOf, CacheFresh, Due, WillDrop, Same, pc, Roles, RoleOf, Idle, Asking,
       TableKept, TypeOK
  <2> QED
    BY <2>2, <2>3 DEF CallFresh
<1>6. ASSUME FlushSave PROVE CallFresh'
  <2>1. FlushSaveEffect
    BY <1>6, FlushSaveFacts DEF Processes, Writers
  <2> QED
    BY <2>1 DEF FlushSaveEffect, Alone, Processes, Writers, CallFresh, FreshOf, CallKeys, KeyOf,
       CacheFresh, Due, WillDrop, Same, pc, Roles, RoleOf, Idle, Asking, TableKept, TypeOK
<1>7. ASSUME DropCache PROVE CallFresh'
  <2>1. DropCacheEffect
    BY <1>7, DropCacheFacts DEF Processes, Writers
  <2> QED
    BY <2>1 DEF DropCacheEffect, Alone, Processes, Writers, CallFresh, FreshOf, CallKeys, KeyOf,
       CacheFresh, Due, WillDrop, Same, pc, Roles, RoleOf, Idle, Asking, TableKept, TypeOK
<1>8. ASSUME NEW w \in Writers, Bump(w) PROVE CallFresh'
  <2>1. BumpEffect(w)
    BY <1>8, BumpFacts DEF Processes, Writers
  <2>2. FreshOf(w)'
    BY <2>1 DEF BumpEffect, Alone, Processes, Writers, CallFresh, FreshOf, CallKeys, KeyOf,
       CacheFresh, Due, WillDrop, Same, pc, Roles, RoleOf, Idle, Asking, TableKept, TypeOK
  <2>3. ASSUME NEW q \in Processes, q # w PROVE FreshOf(q)'
    BY <2>1, <2>3 DEF BumpEffect, Alone, Processes, Writers, CallFresh, FreshOf, CallKeys,
       KeyOf, CacheFresh, Due, WillDrop, Same, pc, Roles, RoleOf, Idle, Asking, TableKept,
       TypeOK
  <2> QED
    BY <2>2, <2>3 DEF CallFresh
<1>9. ASSUME NEW c \in Investigators, Ask(c) PROVE CallFresh'
  <2>1. AskEffect(c)
    BY <1>9, AskFacts DEF Processes, Writers
  <2>2. FreshOf(c)'
    BY <2>1 DEF AskEffect, Alone, Processes, Writers, CallFresh, FreshOf, CallKeys, KeyOf,
       CacheFresh, Due, WillDrop, Same, pc, Roles, RoleOf, Idle, Asking, TableKept, TypeOK
  <2>3. ASSUME NEW q \in Processes, q # c PROVE FreshOf(q)'
    BY <2>1, <2>3 DEF AskEffect, Alone, Processes, Writers, CallFresh, FreshOf, CallKeys, KeyOf,
       CacheFresh, Due, WillDrop, Same, pc, Roles, RoleOf, Idle, Asking, TableKept, TypeOK
  <2> QED
    BY <2>2, <2>3 DEF CallFresh
<1>10. ASSUME NEW c \in Investigators, Lookup(c) PROVE CallFresh'
  <2>1. LookupEffect(c)
    BY <1>10, LookupFacts DEF Processes, Writers
  <2>2. FreshOf(c)'
    BY <2>1 DEF LookupEffect, Alone, Processes, Writers, CallFresh, FreshOf, CallKeys, KeyOf,
       CacheFresh, Due, WillDrop, Same, pc, Roles, RoleOf, Idle, Asking, TableKept, TypeOK
  <2>3. ASSUME NEW q \in Processes, q # c PROVE FreshOf(q)'
    BY <2>1, <2>3 DEF LookupEffect, Alone, Processes, Writers, CallFresh, FreshOf, CallKeys,
       KeyOf, CacheFresh, Due, WillDrop, Same, pc, Roles, RoleOf, Idle, Asking, TableKept,
       TypeOK
  <2> QED
    BY <2>2, <2>3 DEF CallFresh
<1>11. ASSUME NEW c \in Investigators, Load(c) PROVE CallFresh'
  <2>1. LoadEffect(c)
    BY <1>11, LoadFacts DEF Processes, Writers
  <2>2. FreshOf(c)'
    BY <2>1 DEF LoadEffect, Alone, Processes, Writers, CallFresh, FreshOf, CallKeys, KeyOf,
       CacheFresh, Due, WillDrop, Same, pc, Roles, RoleOf, Idle, Asking, TableKept, TypeOK
  <2>3. ASSUME NEW q \in Processes, q # c PROVE FreshOf(q)'
    BY <2>1, <2>3 DEF LoadEffect, Alone, Processes, Writers, CallFresh, FreshOf, CallKeys,
       KeyOf, CacheFresh, Due, WillDrop, Same, pc, Roles, RoleOf, Idle, Asking, TableKept,
       TypeOK
  <2> QED
    BY <2>2, <2>3 DEF CallFresh
<1>12. ASSUME NEW c \in Investigators, Fill(c) PROVE CallFresh'
  <2>1. FillEffect(c)
    BY <1>12, FillFacts DEF Processes, Writers
  <2>2. FreshOf(c)'
    BY <2>1 DEF FillEffect, Alone, Processes, Writers, CallFresh, FreshOf, CallKeys, KeyOf,
       CacheFresh, Due, WillDrop, Same, pc, Roles, RoleOf, Idle, Asking, TableKept, TypeOK
  <2>3. ASSUME NEW q \in Processes, q # c PROVE FreshOf(q)'
    BY <2>1, <2>3 DEF FillEffect, Alone, Processes, Writers, CallFresh, FreshOf, CallKeys,
       KeyOf, CacheFresh, Due, WillDrop, Same, pc, Roles, RoleOf, Idle, Asking, TableKept,
       TypeOK
  <2> QED
    BY <2>2, <2>3 DEF CallFresh
<1>13. ASSUME NEW c \in Investigators, Store(c) PROVE CallFresh'
  <2>1. StoreEffect(c)
    BY <1>13, StoreFacts DEF Processes, Writers
  <2>2. FreshOf(c)'
    BY <2>1 DEF StoreEffect, Alone, Processes, Writers, CallFresh, FreshOf, CallKeys, KeyOf,
       CacheFresh, Due, WillDrop, Same, pc, Roles, RoleOf, Idle, Asking, TableKept, TypeOK
  <2>3. ASSUME NEW q \in Processes, q # c PROVE FreshOf(q)'
    BY <2>1, <2>3 DEF StoreEffect, Alone, Processes, Writers, CallFresh, FreshOf, CallKeys,
       KeyOf, CacheFresh, Due, WillDrop, Same, pc, Roles, RoleOf, Idle, Asking, TableKept,
       TypeOK
  <2> QED
    BY <2>2, <2>3 DEF CallFresh
<1>14. ASSUME OtherProject PROVE CallFresh'
  <2>1. OtherProjectEffect
    BY <1>14, OtherProjectFacts DEF Processes, Writers
  <2> QED
    BY <2>1 DEF OtherProjectEffect, Alone, Processes, Writers, CallFresh, FreshOf, CallKeys,
       KeyOf, CacheFresh, Due, WillDrop, Same, pc, Roles, RoleOf, Idle, Asking, TableKept,
       TypeOK
<1>15. CASE UNCHANGED vars
  BY <1>15 DEF vars, TypeOK, CallFresh, FreshOf, CallKeys, KeyOf, CacheFresh, Due, WillDrop,
     Same, pc, Roles, RoleOf, Idle, Asking, TableKept
<1> QED
  BY <1>1, <1>2, <1>3, <1>4, <1>5, <1>6, <1>7, <1>8, <1>9, <1>10, <1>11, <1>12, <1>13, <1>14,
     <1>15 DEF Next

LEMMA AnswerFreshStep ==
  ASSUME TypeOK, NoSessionIsNew, Roles, CallKeys, AnswerKeys, CallFresh, AnswerFresh, [Next]_vars
  PROVE  AnswerFresh'
<1> USE AnswerAssumption
<1>1. ASSUME NEW w \in Indexers, IndexSave(w) PROVE AnswerFresh'
  <2>1. IndexSaveEffect(w)
    BY <1>1, IndexSaveFacts DEF Processes, Writers
  <2> QED
    BY <2>1 DEF IndexSaveEffect, Alone, Processes, Writers, AnswerFresh, CallFresh, FreshOf,
       CallKeys, KeyOf, Due, Same, pc, Roles, RoleOf, Idle, Asking, TableKept, NewSession,
       TypeOK
<1>2. ASSUME NEW w \in Indexers, Abandon(w) PROVE AnswerFresh'
  <2>1. AbandonEffect(w)
    BY <1>2, AbandonFacts DEF Processes, Writers
  <2> QED
    BY <2>1 DEF AbandonEffect, Alone, Processes, Writers, AnswerFresh, CallFresh, FreshOf,
       CallKeys, KeyOf, Due, Same, pc, Roles, RoleOf, Idle, Asking, TableKept, NewSession,
       TypeOK
<1>3. ASSUME NEW w \in Indexers, Publish(w) PROVE AnswerFresh'
  <2>1. PublishEffect(w)
    BY <1>3, PublishFacts DEF Processes, Writers
  <2> QED
    BY <2>1 DEF PublishEffect, Alone, Processes, Writers, AnswerFresh, CallFresh, FreshOf,
       CallKeys, KeyOf, Due, Same, pc, Roles, RoleOf, Idle, Asking, TableKept, NewSession,
       TypeOK
<1>4. ASSUME NEW w \in Indexers, IndexCached(w) PROVE AnswerFresh'
  <2>1. IndexCachedEffect(w)
    BY <1>4, IndexCachedFacts DEF Processes, Writers
  <2> QED
    BY <2>1 DEF IndexCachedEffect, Alone, Processes, Writers, AnswerFresh, CallFresh, FreshOf,
       CallKeys, KeyOf, Due, Same, pc, Roles, RoleOf, Idle, Asking, TableKept, NewSession,
       TypeOK
<1>5. ASSUME NEW w \in Indexers, InsertCached(w) PROVE AnswerFresh'
  <2>1. InsertCachedEffect(w)
    BY <1>5, InsertCachedFacts DEF Processes, Writers
  <2> QED
    BY <2>1 DEF InsertCachedEffect, Alone, Processes, Writers, AnswerFresh, CallFresh, FreshOf,
       CallKeys, KeyOf, Due, Same, pc, Roles, RoleOf, Idle, Asking, TableKept, NewSession,
       TypeOK
<1>6. ASSUME FlushSave PROVE AnswerFresh'
  <2>1. FlushSaveEffect
    BY <1>6, FlushSaveFacts DEF Processes, Writers
  <2> QED
    BY <2>1 DEF FlushSaveEffect, Alone, Processes, Writers, AnswerFresh, CallFresh, FreshOf,
       CallKeys, KeyOf, Due, Same, pc, Roles, RoleOf, Idle, Asking, TableKept, NewSession,
       TypeOK
<1>7. ASSUME DropCache PROVE AnswerFresh'
  <2>1. DropCacheEffect
    BY <1>7, DropCacheFacts DEF Processes, Writers
  <2> QED
    BY <2>1 DEF DropCacheEffect, Alone, Processes, Writers, AnswerFresh, CallFresh, FreshOf,
       CallKeys, KeyOf, Due, Same, pc, Roles, RoleOf, Idle, Asking, TableKept, NewSession,
       TypeOK
<1>8. ASSUME NEW w \in Writers, Bump(w) PROVE AnswerFresh'
  <2>1. BumpEffect(w)
    BY <1>8, BumpFacts DEF Processes, Writers
  <2> QED
    BY <2>1 DEF BumpEffect, Alone, Processes, Writers, AnswerFresh, CallFresh, FreshOf,
       CallKeys, KeyOf, Due, Same, pc, Roles, RoleOf, Idle, Asking, TableKept, NewSession,
       TypeOK
<1>9. ASSUME NEW c \in Investigators, Ask(c) PROVE AnswerFresh'
  <2>1. AskEffect(c)
    BY <1>9, AskFacts DEF Processes, Writers
  <2> QED
    BY <2>1 DEF AskEffect, Alone, Processes, Writers, AnswerFresh, CallFresh, FreshOf, CallKeys,
       KeyOf, Due, Same, pc, Roles, RoleOf, Idle, Asking, TableKept, NewSession, TypeOK
<1>10. ASSUME NEW c \in Investigators, Lookup(c) PROVE AnswerFresh'
  <2>1. LookupEffect(c)
    BY <1>10, LookupFacts DEF Processes, Writers
  <2> QED
    BY <2>1 DEF LookupEffect, Alone, Processes, Writers, AnswerFresh, CallFresh, FreshOf,
       CallKeys, KeyOf, Due, Same, pc, Roles, RoleOf, Idle, Asking, TableKept, NewSession,
       TypeOK
<1>11. ASSUME NEW c \in Investigators, Load(c) PROVE AnswerFresh'
  <2>1. LoadEffect(c)
    BY <1>11, LoadFacts DEF Processes, Writers
  <2> QED
    BY <2>1 DEF LoadEffect, Alone, Processes, Writers, AnswerFresh, CallFresh, FreshOf,
       CallKeys, KeyOf, Due, Same, pc, Roles, RoleOf, Idle, Asking, TableKept, NewSession,
       TypeOK
<1>12. ASSUME NEW c \in Investigators, Fill(c) PROVE AnswerFresh'
  <2>1. FillEffect(c)
    BY <1>12, FillFacts DEF Processes, Writers
  <2> QED
    BY <2>1 DEF FillEffect, Alone, Processes, Writers, AnswerFresh, CallFresh, FreshOf,
       CallKeys, KeyOf, Due, Same, pc, Roles, RoleOf, Idle, Asking, TableKept, NewSession,
       TypeOK
<1>13. ASSUME NEW c \in Investigators, Store(c) PROVE AnswerFresh'
  <2>1. StoreEffect(c)
    BY <1>13, StoreFacts DEF Processes
  <2>2. Due => Due'
    BY <2>1 DEF StoreEffect, Alone, Due, Idle, pc, Writers, Processes
  <2>3. ASSUME NEW i \in DOMAIN session'.answers, NEW j \in DOMAIN session.answers,
               session'.answers[i] = session.answers[j],
               session'.answers[i].key.epoch = session'.epoch,
               ~session'.answers[i].raced, ~session'.answers[i].evicted
        PROVE  session'.answers[i].idx = disk' \/ Due'
    BY <2>1, <2>2, <2>3 DEF StoreEffect, AnswerFresh
  <2>4. ASSUME local[c].key.epoch = session.epoch, ~local[c].raced, ~local[c].evicted
        PROVE  local[c].idx = disk \/ Due
    <3>1. ~local[c].stale
      BY <2>1, <2>4 DEF StoreEffect, CallKeys, KeyOf, Roles, RoleOf, TypeOK, Processes
    <3> QED
      BY <2>1, <2>4, <3>1 DEF StoreEffect, CallFresh, FreshOf, Processes
  <2>5. ASSUME NEW i \in DOMAIN session'.answers,
               session'.answers[i].key = local[c].key, session'.answers[i].idx = local[c].idx,
               session'.answers[i].raced = local[c].raced,
               session'.answers[i].evicted = local[c].evicted,
               session'.answers[i].key.epoch = session'.epoch,
               ~session'.answers[i].raced, ~session'.answers[i].evicted
        PROVE  session'.answers[i].idx = disk' \/ Due'
    BY <2>1, <2>2, <2>4, <2>5 DEF StoreEffect
  <2> QED
    BY <2>1, <2>3, <2>5 DEF StoreEffect, AnswerFresh
<1>14. ASSUME OtherProject PROVE AnswerFresh'
  <2>1. OtherProjectEffect
    BY <1>14, OtherProjectFacts
  <2>2. Due => Due'
    BY <2>1 DEF OtherProjectEffect, Due, Same, Writers, Processes
  <2>3. CASE session' = session
    BY <2>1, <2>2, <2>3 DEF OtherProjectEffect, AnswerFresh
  <2>4. CASE session' = NewSession
    BY <2>4 DEF AnswerFresh, NewSession
  <2> QED
    BY <2>1, <2>3, <2>4 DEF OtherProjectEffect
<1>15. CASE UNCHANGED vars
  BY <1>15 DEF vars, TypeOK, AnswerFresh, CallFresh, FreshOf, CallKeys, KeyOf, Due, Same, pc,
     Roles, RoleOf, Idle, Asking, TableKept, NewSession
<1> QED
  BY <1>1, <1>2, <1>3, <1>4, <1>5, <1>6, <1>7, <1>8, <1>9, <1>10, <1>11, <1>12, <1>13, <1>14,
     <1>15 DEF Next

LEMMA InitInv ==
  ASSUME Init
  PROVE  IInv
<1>1. NewSession \in [epoch : Nat, answers : Seq(StoredAnswer)] /\ NewSession.answers = << >>
      /\ Len(NewSession.answers) <= MaxAnswers
  BY SessionAssumption, EmptySeq DEF NewSession
<1>2. 1 \in Saves /\ Idle \in Held
  BY AnswerAssumption, IdleHeld DEF Saves
<1>3. TypeOK
  BY <1>1, <1>2, SessionAssumption, EmptySeq DEF Init, TypeOK, Held, NoSnapshot
<1>4. NoSessionIsNew /\ NoStaleAnswer /\ CacheFresh
  BY DEF Init, NoSessionIsNew, NoStaleAnswer, CacheFresh, NoSnapshot
<1>5. Roles /\ CallKeys /\ CallFresh
  BY DEF Init, Roles, RoleOf, CallKeys, KeyOf, CallFresh, FreshOf, Asking, Idle, pc
<1>6. AnswerKeys /\ AnswerFresh
  BY <1>1 DEF Init, AnswerKeys, AnswerFresh
<1> QED
  BY <1>3, <1>4, <1>5, <1>6 DEF IInv

LEMMA InvStep ==
  ASSUME IInv, [Next]_vars
  PROVE  IInv'
  BY TypeOKStep, NoSessionIsNewStep, RolesStep, CallKeysStep, AnswerKeysStep, NoStaleAnswerStep,
     CacheFreshStep, CallFreshStep, AnswerFreshStep DEF IInv

LEMMA Invariant == Spec => []IInv
<1>1. Init => IInv
  BY InitInv
<1>2. IInv /\ [Next]_vars => IInv'
  BY InvStep
<1> QED
  BY <1>1, <1>2, PTL DEF Spec

\* Types; the table of sessions and the answers of one stay within capacity.
THEOREM AnswerTypes == Spec => []TypeOK
<1>1. IInv => TypeOK
  BY DEF IInv
<1> QED
  BY <1>1, Invariant, PTL

\* No call is served an answer that was invalidated before it began, unless the
\* session was evicted in between (session.rs, get_investigate_cache).
THEOREM NeverStale == Spec => []NoStaleAnswer
<1>1. IInv => NoStaleAnswer
  BY DEF IInv
<1> QED
  BY <1>1, Invariant, PTL

\* Between writers, an answer under the present epoch is that of index.bin
\* (cache.rs, invalidate; index_project.rs, the end of a run).
THEOREM AlwaysCurrent == Spec => []CurrentAnswers
<1>1. IInv => CurrentAnswers
  BY DEF IInv, CurrentAnswers, AnswerFresh, Due
<1> QED
  BY <1>1, Invariant, PTL

-----------------------------------------------------------------------------
(* A read enters the session in the table, and leaves the answers alone.   *)

LEMMA ObserveAnswers ==
  ASSUME IInv, NEW r \in Readers, Observe(r)
  PROVE  IInv'
<1>1. UNCHANGED <<disk, cache, local, served>> /\ Access(Entered(table, Project), session)
  BY DEF Observe
<1>2. table \in Seq(Projects)
  BY DEF IInv, TypeOK, Projects
<1>3. /\ table' \in Seq(Projects) /\ Len(table') <= MaxSessions /\ Project \in ToSet(table')
      /\ session' = session
  BY <1>1, <1>2, EnteredAccess
<1>4. TypeOK'
  BY <1>1, <1>3 DEF IInv, TypeOK, Projects
<1>5. NoSessionIsNew'
  BY <1>3 DEF NoSessionIsNew
<1>6. Roles' /\ CallKeys' /\ AnswerKeys' /\ NoStaleAnswer'
  BY <1>1, <1>3 DEF IInv, Roles, RoleOf, CallKeys, KeyOf, AnswerKeys, NoStaleAnswer, Asking, pc
<1>7. CacheFresh' /\ CallFresh' /\ AnswerFresh'
  BY <1>1, <1>3 DEF IInv, CacheFresh, CallFresh, FreshOf, AnswerFresh, WillDrop, Due, pc
<1> QED
  BY <1>4, <1>5, <1>6, <1>7 DEF IInv

LEMMA SessionInvariant == SessionSpec => []IInv
<1>1. SessionInit => IInv
  BY InitInv DEF SessionInit
<1>2. IInv /\ [Next]_vars => IInv'
  BY InvStep
<1>3. IInv /\ [SessionNext]_sessionVars => IInv'
  <2> SUFFICES ASSUME IInv, [SessionNext]_sessionVars PROVE IInv'
    OBVIOUS
  <2>1. CASE UNCHANGED sessionVars
    BY <1>2, <2>1 DEF sessionVars
  <2>2. CASE Next /\ Forgets
    BY <1>2, <2>2
  <2>3. CASE ReadNext
    <3>1. ASSUME NEW t \in Targets, EditTarget(t) PROVE IInv'
      BY <1>2, <3>1 DEF EditTarget
    <3>2. ASSUME NEW r \in Readers, Read(r) PROVE IInv'
      BY <1>2, <3>2 DEF Read
    <3>3. ASSUME NEW r \in Readers, TakeTick(r) PROVE IInv'
      BY <1>2, <3>3 DEF TakeTick
    <3>4. ASSUME NEW r \in Readers, Observe(r) PROVE IInv'
      BY <3>4, ObserveAnswers
    <3> QED
      BY <2>3, <3>1, <3>2, <3>3, <3>4 DEF ReadNext
  <2> QED
    BY <2>1, <2>2, <2>3 DEF SessionNext
<1> QED
  BY <1>1, <1>3, PTL DEF SessionSpec

\* Reads that push sessions about the table make no answer stale: the two
\* properties above hold of investigate and of reads together.
THEOREM AnswersBesideReads == SessionSpec => [](NoStaleAnswer /\ CurrentAnswers)
<1>1. IInv => NoStaleAnswer /\ CurrentAnswers
  BY DEF IInv, CurrentAnswers, AnswerFresh, Due
<1> QED
  BY <1>1, SessionInvariant, PTL

-----------------------------------------------------------------------------
(* What a session remembers of reads.  The histories know every target and *)
(* content shown since the session began; what prune_recent drops has as   *)
(* many newer entries as are kept, and while reads do not overlap each of  *)
(* these was shown after it.                                               *)

OneReader == \A r, q \in Readers : reader[r].pc # "idle" /\ reader[q].pc # "idle" => r = q

\* A read under way has the newest tick.
InTurn ==
  /\ \A k \in DOMAIN memory.contents : memory.contents[k].tick \in Nat /\ memory.contents[k].tick < clock
  /\ \A t \in DOMAIN memory.targets : memory.targets[t].tick \in Nat /\ memory.targets[t].tick < clock
  /\ \A r \in Readers : reader[r].pc = "observe" =>
       /\ reader[r].tick < clock
       /\ \A k \in DOMAIN memory.contents : memory.contents[k].tick < reader[r].tick
       /\ \A t \in DOMAIN memory.targets : memory.targets[t].tick < reader[r].tick

\* The histories and the memory speak of the same things.
Histories ==
  /\ IsFiniteSet(shown) /\ DOMAIN since \subseteq shown /\ DOMAIN memory.contents \subseteq DOMAIN since
  /\ \A k \in DOMAIN since : since[k] \subseteq shown /\ k[1] \in DOMAIN last
  /\ \A t \in DOMAIN last : <<t, last[t]>> \in DOMAIN since
  /\ \A t \in DOMAIN memory.targets : t \in DOMAIN last /\ memory.targets[t].content = last[t]

ContentsKept ==
  \A k \in DOMAIN since :
    IF k \in DOMAIN memory.contents THEN Newer(memory.contents, k) \subseteq since[k]
                                    ELSE Cardinality(since[k]) >= MaxRecent
TargetsKept ==
  \A t \in DOMAIN last :
    IF t \in DOMAIN memory.targets
    THEN \A u \in Newer(memory.targets, t) : <<u, last[u]>> \in since[<<t, last[t]>>]
    ELSE Cardinality(since[<<t, last[t]>>]) >= MaxRecent

ReaderSteps == {"idle", "tick", "observe"}
ReaderTypes ==
  /\ clock \in Nat /\ tree \in [Targets -> Contents]
  /\ reader \in [Readers -> [pc : ReaderSteps, target : Targets \cup {"none"},
                             content : Contents \cup {"none"}, tick : Nat]]

MemInv == /\ ReaderTypes /\ Histories
          /\ ~overlapped => OneReader /\ InTurn /\ ContentsKept /\ TargetsKept

LEMMA RecentFacts ==
  ASSUME NEW m
  PROVE  /\ DOMAIN Recent(m) = {k \in DOMAIN m : Cardinality(Newer(m, k)) < MaxRecent}
         /\ \A k \in DOMAIN Recent(m) : Recent(m)[k] = m[k] /\ Newer(Recent(m), k) \subseteq Newer(m, k)
<1> DEFINE ids == {k \in DOMAIN m : Cardinality(Newer(m, k)) < MaxRecent}
<1>1. Recent(m) = [k \in ids |-> m[k]]
  BY DEF Recent, Restrict
<1>2. ids \subseteq DOMAIN m
  OBVIOUS
<1> HIDE DEF ids
<1>3. DOMAIN Recent(m) = ids /\ \A k \in ids : Recent(m)[k] = m[k]
  BY <1>1
<1>4. \A k \in ids : Newer(Recent(m), k) \subseteq Newer(m, k)
  BY <1>2, <1>3 DEF Newer
<1> QED
  BY <1>3, <1>4 DEF ids

LEMMA RecentWithin ==
  ASSUME NEW m
  PROVE  DOMAIN Recent(m) \subseteq DOMAIN m /\ \A k \in DOMAIN Recent(m) : Recent(m)[k] = m[k]
  BY RecentFacts

\* A map with a new entry, under a tick later than all others.
LEMMA NewestPut ==
  ASSUME NEW m, NEW key, NEW entry, entry.tick \in Nat,
         \A k \in DOMAIN m : m[k].tick \in Nat /\ m[k].tick < entry.tick
  PROVE  /\ Newer(Put(m, key, entry), key) = {}
         /\ \A k \in DOMAIN m \ {key} : Newer(Put(m, key, entry), k) \subseteq Newer(m, k) \cup {key}
<1> DEFINE new == Put(m, key, entry)
<1>1. /\ DOMAIN new = DOMAIN m \cup {key} /\ new[key] = entry
      /\ \A k \in DOMAIN m : k # key => new[k] = m[k]
  BY DEF Put
<1> HIDE DEF new
<1>2. \A k \in DOMAIN new : ~(new[k].tick > new[key].tick)
  BY <1>1
<1>3. Newer(new, key) = {}
  BY <1>2 DEF Newer
<1>4. ASSUME NEW k \in DOMAIN m \ {key}, NEW u \in Newer(new, k), u # key PROVE u \in Newer(m, k)
  BY <1>1, <1>4 DEF Newer
<1> QED
  BY <1>3, <1>4 DEF new

\* What pruning drops has as many newer entries as are kept.
LEMMA PrunedAway ==
  ASSUME NEW m, NEW k \in DOMAIN m \ DOMAIN Recent(m), NEW all, IsFiniteSet(all), Newer(m, k) \subseteq all
  PROVE  Cardinality(all) >= MaxRecent
<1>1. ~(Cardinality(Newer(m, k)) < MaxRecent)
  BY RecentFacts
<1>2. IsFiniteSet(Newer(m, k)) /\ Cardinality(Newer(m, k)) <= Cardinality(all)
  BY FS_Subset
<1>3. Cardinality(Newer(m, k)) \in Nat /\ Cardinality(all) \in Nat
  BY <1>2, FS_CardinalityType
<1> QED
  BY <1>1, <1>2, <1>3, ReadAssumption

\* The memory and the histories after an observation, before the session is
\* entered in the table.
LEMMA ObservedFacts ==
  ASSUME NEW m, NEW target, NEW content, NEW tick
  PROVE  LET new == Observed(m, target, content, tick)
         IN /\ new.contents = Recent(Put(m.contents, <<target, content>>, [tick |-> tick]))
            /\ new.targets = Recent(Put(m.targets, target, [content |-> content, tick |-> tick]))
  BY DEF Observed, Pruned

LEMMA ObserveSteps ==
  ASSUME NEW r \in Readers, Observe(r)
  PROVE  LET t == reader[r].target
             c == reader[r].content
         IN /\ memory'.contents = Recent(Put(memory.contents, <<t, c>>, [tick |-> reader[r].tick]))
            /\ memory'.targets = Recent(Put(memory.targets, t, [content |-> c, tick |-> reader[r].tick]))
            /\ shown' = shown \cup {<<t, c>>}
            /\ DOMAIN since' = DOMAIN since \cup {<<t, c>>} /\ since'[<<t, c>>] = {}
            /\ \A k \in DOMAIN since : k # <<t, c>> => since'[k] = since[k] \cup {<<t, c>>}
            /\ DOMAIN last' = DOMAIN last \cup {t} /\ last'[t] = c
            /\ \A u \in DOMAIN last : u # t => last'[u] = last[u]
<1> DEFINE key == <<reader[r].target, reader[r].content>>
           aged == [k \in DOMAIN since |-> since[k] \cup {key}]
<1>1. /\ memory' = Observed(memory, reader[r].target, reader[r].content, reader[r].tick)
      /\ shown' = shown \cup {key} /\ since' = Put(aged, key, {})
      /\ last' = Put(last, reader[r].target, reader[r].content)
  BY DEF Observe
<1>2. DOMAIN aged = DOMAIN since /\ \A k \in DOMAIN since : aged[k] = since[k] \cup {key}
  OBVIOUS
<1> HIDE DEF aged
<1>3. /\ DOMAIN since' = DOMAIN aged \cup {key} /\ since'[key] = {}
      /\ \A k \in DOMAIN aged : k # key => since'[k] = aged[k]
  BY <1>1 DEF Put
<1>4. /\ DOMAIN last' = DOMAIN last \cup {reader[r].target}
      /\ last'[reader[r].target] = reader[r].content
      /\ \A u \in DOMAIN last : u # reader[r].target => last'[u] = last[u]
  BY <1>1 DEF Put
<1> HIDE DEF key
<1>5. /\ DOMAIN since' = DOMAIN since \cup {key} /\ since'[key] = {}
      /\ \A k \in DOMAIN since : k # key => since'[k] = since[k] \cup {key}
  BY <1>2, <1>3
<1>6. /\ memory'.contents = Recent(Put(memory.contents, key, [tick |-> reader[r].tick]))
      /\ memory'.targets = Recent(Put(memory.targets, reader[r].target,
                                      [content |-> reader[r].content, tick |-> reader[r].tick]))
  BY <1>1, ObservedFacts DEF key
<1> QED
  BY <1>1, <1>4, <1>5, <1>6 DEF key

LEMMA ObserveHistories ==
  ASSUME Histories, NEW r \in Readers, Observe(r)
  PROVE  Histories'
<1> DEFINE t == reader[r].target
           c == reader[r].content
           contents == Put(memory.contents, <<t, c>>, [tick |-> reader[r].tick])
           targets == Put(memory.targets, t, [content |-> c, tick |-> reader[r].tick])
<1>1. /\ memory'.contents = Recent(contents) /\ memory'.targets = Recent(targets)
      /\ shown' = shown \cup {<<t, c>>}
      /\ DOMAIN since' = DOMAIN since \cup {<<t, c>>} /\ since'[<<t, c>>] = {}
      /\ \A k \in DOMAIN since : k # <<t, c>> => since'[k] = since[k] \cup {<<t, c>>}
      /\ DOMAIN last' = DOMAIN last \cup {t} /\ last'[t] = c
      /\ \A u \in DOMAIN last : u # t => last'[u] = last[u]
  BY ObserveSteps
<1>2. DOMAIN contents = DOMAIN memory.contents \cup {<<t, c>>}
  BY DEF Put
<1>3. /\ DOMAIN targets = DOMAIN memory.targets \cup {t} /\ targets[t].content = c
      /\ \A u \in DOMAIN memory.targets : u # t => targets[u] = memory.targets[u]
  BY DEF Put
<1> HIDE DEF contents, targets, t, c
<1>4. DOMAIN memory'.contents \subseteq DOMAIN since'
  BY <1>1, <1>2, RecentWithin DEF Histories
<1>5. IsFiniteSet(shown')
  BY <1>1, FS_AddElement DEF Histories
<1>6. DOMAIN since' \subseteq shown'
  BY <1>1 DEF Histories
<1>7. \A k \in DOMAIN since' : since'[k] \subseteq shown'
  <2> SUFFICES ASSUME NEW k \in DOMAIN since' PROVE since'[k] \subseteq shown'
    OBVIOUS
  <2>1. CASE k = <<t, c>>
    BY <1>1, <2>1
  <2>2. CASE k # <<t, c>>
    <3>1. k \in DOMAIN since /\ since'[k] = since[k] \cup {<<t, c>>} /\ since[k] \subseteq shown
      BY <1>1, <2>2 DEF Histories
    <3> QED
      BY <1>1, <3>1
  <2> QED
    BY <2>1, <2>2
<1>8. \A k \in DOMAIN since' : k[1] \in DOMAIN last'
  BY <1>1 DEF Histories
<1>9. \A u \in DOMAIN last' : <<u, last'[u]>> \in DOMAIN since'
  BY <1>1 DEF Histories
<1>10. \A u \in DOMAIN memory'.targets : u \in DOMAIN last' /\ memory'.targets[u].content = last'[u]
  <2> SUFFICES ASSUME NEW u \in DOMAIN memory'.targets
               PROVE  u \in DOMAIN last' /\ memory'.targets[u].content = last'[u]
    OBVIOUS
  <2>1. u \in DOMAIN targets /\ memory'.targets[u] = targets[u]
    BY <1>1, RecentWithin
  <2>2. CASE u = t
    BY <1>1, <1>3, <2>1, <2>2
  <2>3. CASE u # t
    <3>1. u \in DOMAIN memory.targets /\ targets[u] = memory.targets[u]
      BY <1>3, <2>1, <2>3
    <3>2. u \in DOMAIN last /\ memory.targets[u].content = last[u]
      BY <3>1 DEF Histories
    <3> QED
      BY <1>1, <2>1, <2>3, <3>1, <3>2
  <2> QED
    BY <2>2, <2>3
<1> QED
  BY <1>4, <1>5, <1>6, <1>7, <1>8, <1>9, <1>10 DEF Histories

LEMMA ObserveContents ==
  ASSUME ReaderTypes, Histories, InTurn, ContentsKept, NEW r \in Readers, reader[r].pc = "observe", Observe(r)
  PROVE  ContentsKept'
<1> DEFINE key == <<reader[r].target, reader[r].content>>
           entry == [tick |-> reader[r].tick]
           old == memory.contents
           new == Put(old, key, entry)
<1>1. /\ memory'.contents = Recent(new) /\ shown' = shown \cup {key}
      /\ DOMAIN since' = DOMAIN since \cup {key} /\ since'[key] = {}
      /\ \A k \in DOMAIN since : k # key => since'[k] = since[k] \cup {key}
  BY ObserveSteps
<1>2. entry.tick \in Nat /\ \A k \in DOMAIN old : old[k].tick \in Nat /\ old[k].tick < entry.tick
  BY DEF ReaderTypes, InTurn
<1>3. DOMAIN new = DOMAIN old \cup {key}
  BY DEF Put
<1> HIDE DEF entry
<1>4. /\ Newer(new, key) = {}
      /\ \A k \in DOMAIN old \ {key} : Newer(new, k) \subseteq Newer(old, k) \cup {key}
  BY <1>2, NewestPut
<1> HIDE DEF new, key
<1>5. /\ DOMAIN Recent(new) = {k \in DOMAIN new : Cardinality(Newer(new, k)) < MaxRecent}
      /\ \A k \in DOMAIN Recent(new) : Newer(Recent(new), k) \subseteq Newer(new, k)
  BY RecentFacts
<1>6. /\ IsFiniteSet(shown') /\ \A k \in DOMAIN since' : since'[k] \subseteq shown'
  BY ObserveHistories DEF Histories
<1> SUFFICES ASSUME NEW k \in DOMAIN since'
             PROVE  IF k \in DOMAIN memory'.contents THEN Newer(memory'.contents, k) \subseteq since'[k]
                                                     ELSE Cardinality(since'[k]) >= MaxRecent
  BY DEF ContentsKept
<1>7. IsFiniteSet(since'[k])
  BY <1>6, FS_Subset
<1>8. CASE k = key
  <2>1. Cardinality(Newer(new, key)) < MaxRecent
    BY <1>4, FS_EmptySet, ReadAssumption
  <2>2. key \in DOMAIN Recent(new) /\ Newer(Recent(new), key) = {}
    BY <1>3, <1>4, <1>5, <2>1
  <2> QED
    BY <1>1, <1>8, <2>2
<1>9. CASE k # key /\ k \in DOMAIN old
  <2>1. k \in DOMAIN since /\ since'[k] = since[k] \cup {key} /\ Newer(old, k) \subseteq since[k]
    BY <1>1, <1>9 DEF Histories, ContentsKept
  <2>2. Newer(new, k) \subseteq since'[k]
    BY <1>4, <1>9, <2>1
  <2>3. CASE k \in DOMAIN Recent(new)
    BY <1>1, <1>5, <2>2, <2>3
  <2>4. CASE k \notin DOMAIN Recent(new)
    <3>1. k \in DOMAIN new \ DOMAIN Recent(new)
      BY <1>3, <1>9, <2>4
    <3> QED
      BY <1>1, <1>7, <2>2, <2>4, <3>1, PrunedAway
  <2> QED
    BY <2>3, <2>4
<1>10. CASE k # key /\ k \notin DOMAIN old
  <2>1. k \notin DOMAIN memory'.contents
    BY <1>1, <1>3, <1>5, <1>10
  <2>2. k \in DOMAIN since /\ since[k] \subseteq since'[k] /\ Cardinality(since[k]) >= MaxRecent
    BY <1>1, <1>10 DEF ContentsKept
  <2>3. IsFiniteSet(since[k]) /\ Cardinality(since[k]) <= Cardinality(since'[k])
    BY <1>7, <2>2, FS_Subset
  <2>4. Cardinality(since[k]) \in Nat /\ Cardinality(since'[k]) \in Nat
    BY <1>7, <2>3, FS_CardinalityType
  <2>5. Cardinality(since'[k]) >= MaxRecent
    BY <2>2, <2>3, <2>4, ReadAssumption
  <2> QED
    BY <2>1, <2>5
<1> QED
  BY <1>8, <1>9, <1>10

\* Targets with what they were shown with last are as many as the targets.
LEMMA AsManyShown ==
  ASSUME NEW S, NEW now, NEW all, IsFiniteSet(all), \A u \in S : <<u, now[u]>> \in all
  PROVE  IsFiniteSet(S) /\ Cardinality(S) <= Cardinality(all)
<1> DEFINE f == [u \in S |-> <<u, now[u]>>]
<1>1. f \in Injection(S, all)
  BY DEF Injection, IsInjective
<1> HIDE DEF f
<1> QED
  BY <1>1, FS_Injection

LEMMA ObserveTargets ==
  ASSUME ReaderTypes, Histories, InTurn, TargetsKept, NEW r \in Readers, reader[r].pc = "observe", Observe(r)
  PROVE  TargetsKept'
<1> DEFINE t == reader[r].target
           key == <<t, reader[r].content>>
           entry == [content |-> reader[r].content, tick |-> reader[r].tick]
           old == memory.targets
           new == Put(old, t, entry)
<1>1. /\ memory'.targets = Recent(new) /\ shown' = shown \cup {key}
      /\ DOMAIN since' = DOMAIN since \cup {key} /\ since'[key] = {}
      /\ \A k \in DOMAIN since : k # key => since'[k] = since[k] \cup {key}
      /\ DOMAIN last' = DOMAIN last \cup {t} /\ <<t, last'[t]>> = key
      /\ \A u \in DOMAIN last : u # t => last'[u] = last[u]
  BY ObserveSteps
<1>2. entry.tick \in Nat /\ \A u \in DOMAIN old : old[u].tick \in Nat /\ old[u].tick < entry.tick
  BY DEF ReaderTypes, InTurn
<1>3. DOMAIN new = DOMAIN old \cup {t}
  BY DEF Put
<1>4. \A u : <<u, last[u]>> = key => u = t
  BY DEF key
<1> HIDE DEF entry, t
<1>5. /\ Newer(new, t) = {}
      /\ \A u \in DOMAIN old \ {t} : Newer(new, u) \subseteq Newer(old, u) \cup {t}
  BY <1>2, NewestPut
<1> HIDE DEF new, key
<1>6. /\ DOMAIN Recent(new) = {u \in DOMAIN new : Cardinality(Newer(new, u)) < MaxRecent}
      /\ \A u \in DOMAIN Recent(new) : Newer(Recent(new), u) \subseteq Newer(new, u)
  BY RecentFacts
<1>7. /\ IsFiniteSet(shown') /\ \A k \in DOMAIN since' : since'[k] \subseteq shown'
      /\ \A u \in DOMAIN last' : <<u, last'[u]>> \in DOMAIN since'
  BY ObserveHistories DEF Histories
<1> SUFFICES ASSUME NEW u \in DOMAIN last'
             PROVE  IF u \in DOMAIN memory'.targets
                    THEN \A v \in Newer(memory'.targets, u) : <<v, last'[v]>> \in since'[<<u, last'[u]>>]
                    ELSE Cardinality(since'[<<u, last'[u]>>]) >= MaxRecent
  BY DEF TargetsKept
<1> DEFINE all == since'[<<u, last'[u]>>]
<1>8. IsFiniteSet(all)
  BY <1>7, FS_Subset
<1>9. CASE u = t
  <2>1. Cardinality(Newer(new, t)) < MaxRecent
    BY <1>5, FS_EmptySet, ReadAssumption
  <2>2. t \in DOMAIN Recent(new) /\ Newer(Recent(new), t) = {}
    BY <1>3, <1>5, <1>6, <2>1
  <2> QED
    BY <1>1, <1>9, <2>2
<1>10. ASSUME u # t
       PROVE  /\ u \in DOMAIN last /\ last'[u] = last[u] /\ <<u, last[u]>> \in DOMAIN since
              /\ <<u, last[u]>> # key /\ all = since[<<u, last[u]>>] \cup {key}
  BY <1>1, <1>4, <1>10 DEF Histories
<1> HIDE DEF all
<1>11. CASE u # t /\ u \in DOMAIN old
  <2>1. \A v \in Newer(old, u) : <<v, last[v]>> \in since[<<u, last[u]>>]
    BY <1>10, <1>11 DEF TargetsKept
  <2>2. ASSUME NEW v \in Newer(new, u) PROVE <<v, last'[v]>> \in all
    <3>1. CASE v = t
      BY <1>1, <1>10, <1>11, <3>1
    <3>2. CASE v # t
      <4>1. v \in Newer(old, u) /\ v \in DOMAIN old
        BY <1>5, <1>11, <2>2, <3>2 DEF Newer
      <4>2. last'[v] = last[v]
        BY <1>1, <3>2, <4>1 DEF Histories
      <4> QED
        BY <1>10, <1>11, <2>1, <4>1, <4>2
    <3> QED
      BY <3>1, <3>2
  <2>3. CASE u \in DOMAIN Recent(new)
    BY <1>1, <1>6, <2>2, <2>3 DEF all
  <2>4. CASE u \notin DOMAIN Recent(new)
    <3>1. ~(Cardinality(Newer(new, u)) < MaxRecent)
      BY <1>3, <1>6, <1>11, <2>4
    <3>2. IsFiniteSet(Newer(new, u)) /\ Cardinality(Newer(new, u)) <= Cardinality(all)
      BY <1>8, <2>2, AsManyShown
    <3>3. Cardinality(Newer(new, u)) \in Nat /\ Cardinality(all) \in Nat
      BY <1>8, <3>2, FS_CardinalityType
    <3>4. Cardinality(all) >= MaxRecent
      BY <3>1, <3>2, <3>3, ReadAssumption
    <3> QED
      BY <1>1, <2>4, <3>4 DEF all
  <2> QED
    BY <2>3, <2>4
<1>12. CASE u # t /\ u \notin DOMAIN old
  <2>1. u \notin DOMAIN memory'.targets
    BY <1>1, <1>3, <1>6, <1>12
  <2>2. since[<<u, last[u]>>] \subseteq all /\ Cardinality(since[<<u, last[u]>>]) >= MaxRecent
    BY <1>10, <1>12 DEF TargetsKept
  <2>3. /\ IsFiniteSet(since[<<u, last[u]>>])
        /\ Cardinality(since[<<u, last[u]>>]) <= Cardinality(all)
    BY <1>8, <2>2, FS_Subset
  <2>4. Cardinality(since[<<u, last[u]>>]) \in Nat /\ Cardinality(all) \in Nat
    BY <1>8, <2>3, FS_CardinalityType
  <2>5. Cardinality(all) >= MaxRecent
    BY <2>2, <2>3, <2>4, ReadAssumption
  <2> QED
    BY <2>1, <2>5 DEF all
<1> QED
  BY <1>9, <1>11, <1>12

LEMMA ObserveOrder ==
  ASSUME ReaderTypes, OneReader, InTurn, NEW r \in Readers, Observe(r)
  PROVE  ReaderTypes' /\ OneReader' /\ InTurn'
<1> DEFINE t == reader[r].target
           key == <<t, reader[r].content>>
           contents == Put(memory.contents, key, [tick |-> reader[r].tick])
           targets == Put(memory.targets, t, [content |-> reader[r].content, tick |-> reader[r].tick])
<1>1. reader[r].pc = "observe" /\ reader' = [reader EXCEPT ![r] = Resting] /\ UNCHANGED <<tree, clock>>
  BY DEF Observe
<1>2. ReaderTypes'
  BY <1>1 DEF ReaderTypes, ReaderSteps, Resting
<1>3. \A q \in Readers : reader'[q].pc = "idle"
  BY <1>1 DEF ReaderTypes, OneReader, Resting
<1>4. reader[r].tick \in Nat /\ reader[r].tick < clock
  BY <1>1 DEF ReaderTypes, InTurn
<1>5. memory'.contents = Recent(contents) /\ memory'.targets = Recent(targets)
  BY ObserveSteps
<1>6. \A k \in DOMAIN contents : contents[k].tick \in Nat /\ contents[k].tick < clock
  BY <1>4 DEF InTurn, Put
<1>7. \A u \in DOMAIN targets : targets[u].tick \in Nat /\ targets[u].tick < clock
  BY <1>4 DEF InTurn, Put
<1> HIDE DEF contents, targets
<1>8. \A k \in DOMAIN memory'.contents : memory'.contents[k].tick \in Nat /\ memory'.contents[k].tick < clock'
  BY <1>1, <1>5, <1>6, RecentWithin
<1>9. \A u \in DOMAIN memory'.targets : memory'.targets[u].tick \in Nat /\ memory'.targets[u].tick < clock'
  BY <1>1, <1>5, <1>7, RecentWithin
<1>10. InTurn'
  BY <1>3, <1>8, <1>9 DEF InTurn
<1> QED
  BY <1>2, <1>3, <1>10 DEF OneReader

LEMMA ObserveKeeps ==
  ASSUME MemInv, NEW r \in Readers, Observe(r)
  PROVE  MemInv'
<1>1. reader[r].pc = "observe" /\ overlapped' = overlapped
  BY DEF Observe
<1>2. Histories'
  BY ObserveHistories DEF MemInv
<1>3. ReaderTypes'
  BY <1>1 DEF MemInv, ReaderTypes, ReaderSteps, Observe, Resting
<1>4. CASE overlapped
  BY <1>1, <1>2, <1>3, <1>4 DEF MemInv
<1>5. CASE ~overlapped
  BY <1>1, <1>2, <1>5, ObserveOrder, ObserveContents, ObserveTargets DEF MemInv
<1> QED
  BY <1>4, <1>5

\* A step that leaves the memory and its histories alone.
SameMemory == UNCHANGED <<memory, shown, since, last>>

LEMMA SameMemoryKeeps ==
  ASSUME SameMemory
  PROVE  /\ Histories => Histories'
         /\ ContentsKept => ContentsKept'
         /\ TargetsKept => TargetsKept'
<1>1. memory' = memory /\ shown' = shown /\ since' = since /\ last' = last
  BY DEF SameMemory
<1> QED
  BY <1>1 DEF Histories, ContentsKept, TargetsKept, Newer

LEMMA ReadKeeps ==
  ASSUME MemInv, NEW r \in Readers, Read(r)
  PROVE  MemInv'
<1>1. PICK t \in Targets :
        reader' = [reader EXCEPT ![r] = [Resting EXCEPT !.pc = "tick", !.target = t, !.content = tree[t]]]
  BY DEF Read
<1>2. /\ reader[r].pc = "idle" /\ UNCHANGED <<tree, clock, memory>> /\ SameMemory
      /\ overlapped' = (overlapped \/ \E q \in Readers : reader[q].pc # "idle")
  BY DEF Read, SameMemory
<1>3. ReaderTypes'
  BY <1>1, <1>2 DEF MemInv, ReaderTypes, ReaderSteps, Resting
<1>4. ASSUME ~overlapped' PROVE OneReader' /\ InTurn'
  <2>1. InTurn /\ ~overlapped /\ \A q \in Readers : reader[q].pc = "idle"
    BY <1>2, <1>4 DEF MemInv
  <2>2. \A q \in Readers : q # r => reader'[q].pc = "idle"
    BY <1>1, <2>1 DEF MemInv, ReaderTypes
  <2>3. reader'[r].pc = "tick"
    BY <1>1 DEF MemInv, ReaderTypes, Resting
  <2>4. OneReader'
    BY <2>2 DEF OneReader
  <2>5. \A q \in Readers : reader'[q].pc # "observe"
    BY <2>2, <2>3
  <2> QED
    BY <1>2, <2>1, <2>4, <2>5 DEF InTurn
<1> QED
  BY <1>2, <1>3, <1>4, SameMemoryKeeps DEF MemInv

LEMMA TakeTickKeeps ==
  ASSUME MemInv, NEW r \in Readers, TakeTick(r)
  PROVE  MemInv'
<1>1. /\ reader[r].pc = "tick" /\ UNCHANGED <<tree, memory, overlapped>> /\ SameMemory
      /\ reader' = [reader EXCEPT ![r].pc = "observe", ![r].tick = clock] /\ clock' = clock + 1
  BY DEF TakeTick, SameMemory
<1> DEFINE turned == [reader EXCEPT ![r].pc = "observe"]
           Readings == [pc : ReaderSteps, target : Targets \cup {"none"}, content : Contents \cup {"none"}, tick : Nat]
<1>a. /\ reader \in [Readers -> Readings] /\ clock \in Nat /\ tree \in [Targets -> Contents]
      /\ reader' = [turned EXCEPT ![r].tick = clock]
  BY <1>1 DEF MemInv, ReaderTypes
<1>b. /\ turned \in [Readers -> Readings] /\ turned[r].pc = "observe"
      /\ \A q \in Readers : q # r => turned[q] = reader[q]
  BY <1>a DEF ReaderSteps
<1> HIDE DEF turned
<1>c. /\ reader' \in [Readers -> Readings] /\ reader'[r].pc = turned[r].pc /\ reader'[r].tick = clock
      /\ \A q \in Readers : q # r => reader'[q] = turned[q]
  BY <1>a, <1>b DEF ReaderSteps
<1>2. /\ ReaderTypes' /\ clock \in Nat
      /\ reader'[r].pc = "observe" /\ reader'[r].tick = clock
      /\ \A q \in Readers : q # r => reader'[q] = reader[q]
  BY <1>1, <1>a, <1>b, <1>c DEF ReaderTypes
<1>3. ASSUME ~overlapped PROVE OneReader' /\ InTurn'
  <2>1. OneReader /\ InTurn
    BY <1>3 DEF MemInv
  <2>2. \A q \in Readers : q # r => reader'[q].pc = "idle"
    BY <1>1, <1>2, <2>1 DEF OneReader
  <2>3. OneReader'
    BY <2>2 DEF OneReader
  <2>4. /\ \A k \in DOMAIN memory.contents : memory.contents[k].tick \in Nat /\ memory.contents[k].tick < clock
        /\ \A t \in DOMAIN memory.targets : memory.targets[t].tick \in Nat /\ memory.targets[t].tick < clock
    BY <2>1 DEF InTurn
  <2>5. InTurn'
    <3>1. clock' = clock + 1 /\ memory' = memory /\ clock \in Nat
      BY <1>1, <1>2
    <3>2. \A q \in Readers : reader'[q].pc = "observe" => q = r
      BY <2>2
    <3> QED
      BY <1>2, <2>4, <3>1, <3>2 DEF InTurn
  <2> QED
    BY <2>3, <2>5
<1> QED
  BY <1>1, <1>2, <1>3, SameMemoryKeeps DEF MemInv

LEMMA AloneKeeps ==
  ASSUME MemInv, SameMemory, ReaderTypes', UNCHANGED <<clock, reader, overlapped>>
  PROVE  MemInv'
<1>1. UNCHANGED <<clock, reader, overlapped, memory>>
  BY DEF SameMemory
<1>2. (OneReader => OneReader') /\ (InTurn => InTurn')
  BY <1>1 DEF OneReader, InTurn
<1> QED
  BY <1>1, <1>2, SameMemoryKeeps DEF MemInv

LEMMA ForgetsKeeps ==
  ASSUME MemInv, Forgets
  PROVE  MemInv'
<1>1. UNCHANGED <<tree, clock, reader, shown, overlapped>>
  BY DEF Forgets
<1>2. ReaderTypes'
  BY <1>1 DEF MemInv, ReaderTypes
<1>3. CASE ~Evicted
  BY <1>1, <1>2, <1>3, AloneKeeps DEF Forgets, SameMemory
<1>4. CASE Evicted
  <2>1. memory' = NoMemory /\ since' = << >> /\ last' = << >>
    BY <1>4 DEF Forgets
  <2>2. DOMAIN memory'.contents = {} /\ DOMAIN memory'.targets = {} /\ DOMAIN since' = {} /\ DOMAIN last' = {}
    BY <2>1 DEF NoMemory
  <2>3. Histories' /\ ContentsKept' /\ TargetsKept'
    BY <1>1, <2>2 DEF MemInv, Histories, ContentsKept, TargetsKept
  <2>4. (OneReader => OneReader') /\ (InTurn => InTurn')
    BY <1>1, <2>2 DEF OneReader, InTurn
  <2> QED
    BY <1>1, <1>2, <2>3, <2>4 DEF MemInv
<1> QED
  BY <1>3, <1>4

LEMMA EditKeeps ==
  ASSUME MemInv, NEW t \in Targets, EditTarget(t)
  PROVE  MemInv'
<1>1. PICK c \in Contents : tree' = [tree EXCEPT ![t] = c]
  BY DEF EditTarget
<1>2. UNCHANGED <<clock, reader, overlapped>> /\ SameMemory
  BY DEF EditTarget, SameMemory
<1>3. ReaderTypes'
  BY <1>1, <1>2 DEF MemInv, ReaderTypes
<1> QED
  BY <1>2, <1>3, AloneKeeps

LEMMA MemInvInit ==
  ASSUME ReadInit
  PROVE  MemInv
<1>1. /\ tree \in [Targets -> Contents] /\ clock = 1 /\ shown = {} /\ overlapped = FALSE
      /\ reader = [r \in Readers |-> Resting]
  BY DEF ReadInit
<1>2. DOMAIN memory.contents = {} /\ DOMAIN memory.targets = {} /\ DOMAIN since = {} /\ DOMAIN last = {}
  BY DEF ReadInit, NoMemory
<1>3. \A r \in Readers : reader[r].pc = "idle"
  BY <1>1 DEF Resting
<1>4. ReaderTypes
  BY <1>1 DEF ReaderTypes, ReaderSteps, Resting
<1>5. Histories
  BY <1>1, <1>2, FS_EmptySet DEF Histories
<1> QED
  BY <1>2, <1>3, <1>4, <1>5 DEF MemInv, OneReader, InTurn, ContentsKept, TargetsKept

LEMMA MemInvStep ==
  ASSUME MemInv, [SessionNext]_sessionVars
  PROVE  MemInv'
<1>1. CASE UNCHANGED sessionVars
  <2>1. /\ UNCHANGED <<tree, clock, reader, overlapped>> /\ SameMemory
    BY <1>1 DEF sessionVars, readVars, SameMemory
  <2>2. ReaderTypes'
    BY <2>1 DEF MemInv, ReaderTypes
  <2> QED
    BY <2>1, <2>2, AloneKeeps
<1>2. CASE ReadNext
  BY <1>2, EditKeeps, ReadKeeps, TakeTickKeeps, ObserveKeeps DEF ReadNext
<1>3. CASE Next /\ Forgets
  BY <1>3, ForgetsKeeps
<1> QED
  BY <1>1, <1>2, <1>3 DEF SessionNext

LEMMA MemInvariant == SessionSpec => []MemInv
<1>1. SessionInit => MemInv
  BY MemInvInit DEF SessionInit
<1>2. MemInv /\ [SessionNext]_sessionVars => MemInv'
  BY MemInvStep
<1> QED
  BY <1>1, <1>2, PTL DEF SessionSpec

\* What an observation tells, by the histories.
Told(r) ==
  LET me == reader[r]
      key == <<me.target, me.content>>
      told == Observation(memory, me.target, me.content)
      others == UNION {since[k] : k \in ShownWith(me.target)}
  IN /\ told.seen => key \in shown
     /\ told.known => (told.changed <=> last[me.target] # me.content)
     /\ ~overlapped /\ key \in DOMAIN since /\ Cardinality(since[key]) < MaxRecent => told.seen
     /\ ~overlapped /\ ShownWith(me.target) # {} /\ Cardinality(others) < MaxRecent => told.known

LEMMA ObserveTells ==
  ASSUME MemInv, NEW r \in Readers
  PROVE  Told(r)
<1> DEFINE t == reader[r].target
           c == reader[r].content
           key == <<t, c>>
           told == Observation(memory, t, c)
           others == UNION {since[k] : k \in ShownWith(t)}
<1>1. /\ told.seen <=> key \in DOMAIN memory.contents
      /\ told.known <=> t \in DOMAIN memory.targets
      /\ told.changed <=> told.known /\ memory.targets[t].content # c
  BY DEF Observation
<1> HIDE DEF told, t, c
<1>2. /\ IsFiniteSet(shown) /\ DOMAIN since \subseteq shown /\ DOMAIN memory.contents \subseteq DOMAIN since
      /\ \A k \in DOMAIN since : since[k] \subseteq shown /\ k[1] \in DOMAIN last
      /\ \A u \in DOMAIN last : <<u, last[u]>> \in DOMAIN since
      /\ \A u \in DOMAIN memory.targets : u \in DOMAIN last /\ memory.targets[u].content = last[u]
  BY DEF MemInv, Histories
<1>3. told.seen => key \in shown
  BY <1>1, <1>2
<1>4. told.known => (told.changed <=> last[t] # c)
  BY <1>1, <1>2
<1>5. ASSUME ~overlapped, key \in DOMAIN since, Cardinality(since[key]) < MaxRecent
      PROVE  told.seen
  <2>1. ContentsKept
    BY <1>5 DEF MemInv
  <2>2. Cardinality(since[key]) \in Nat
    BY <1>2, <1>5, FS_Subset, FS_CardinalityType
  <2>3. ~(Cardinality(since[key]) >= MaxRecent)
    BY <1>5, <2>2, ReadAssumption
  <2> QED
    BY <1>1, <1>5, <2>1, <2>3 DEF ContentsKept
<1>6. ASSUME ~overlapped, ShownWith(t) # {}, Cardinality(others) < MaxRecent
      PROVE  told.known
  <2>1. t \in DOMAIN last /\ <<t, last[t]>> \in DOMAIN since
    BY <1>2, <1>6 DEF ShownWith
  <2>2. <<t, last[t]>> \in ShownWith(t)
    BY <2>1 DEF ShownWith
  <2>3. since[<<t, last[t]>>] \subseteq others /\ others \subseteq shown
    BY <1>2, <2>2 DEF ShownWith
  <2> HIDE DEF others
  <2>4. IsFiniteSet(others)
    BY <1>2, <2>3, FS_Subset
  <2>5. /\ IsFiniteSet(since[<<t, last[t]>>])
        /\ Cardinality(since[<<t, last[t]>>]) <= Cardinality(others)
    BY <2>3, <2>4, FS_Subset
  <2>6. Cardinality(others) \in Nat /\ Cardinality(since[<<t, last[t]>>]) \in Nat
    BY <2>4, <2>5, FS_CardinalityType
  <2>7. ~(Cardinality(since[<<t, last[t]>>]) >= MaxRecent)
    BY <1>6, <2>5, <2>6, ReadAssumption
  <2>8. TargetsKept
    BY <1>6 DEF MemInv
  <2> QED
    BY <1>1, <2>1, <2>7, <2>8 DEF TargetsKept
<1> QED
  BY <1>3, <1>4, <1>5, <1>6 DEF Told, told, t, c

\* A client is told that it has seen a content, or that a target changed,
\* only if that is so, and while reads come one by one a content is recognised
\* until as many others as are kept came after it (session.rs,
\* observe_content and prune_recent).
THEOREM ReadsTold == SessionSpec => ReadsRecognised
<1>1. MemInv => [\A r \in Readers : Observe(r) => Told(r)]_sessionVars
  BY ObserveTells
<1>2. ReadsRecognised <=> [][\A r \in Readers : Observe(r) => Told(r)]_sessionVars
  BY DEF ReadsRecognised, Told
<1> QED
  BY <1>1, <1>2, MemInvariant, PTL
=============================================================================
