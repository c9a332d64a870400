----------------------------- MODULE ReadMemory ------------------------------
(***************************************************************************)
(* What a session remembers of the code it was shown (session.rs): the     *)
(* contents and the targets of recent reads.                               *)
(* get_lines, get_symbol and get_file_outline tell their client whether it *)
(* has seen a content, and whether a target changed since it was last      *)
(* shown.  A session shares the table of sessions, and its fate there,     *)
(* with the answers of AnswerCache.                                        *)
(*                                                                         *)
(* A read takes the file, then a tick of the clock, then the lock: reads   *)
(* that overlap may reach the session out of the order of their ticks.     *)
(***************************************************************************)
EXTENDS AnswerCache

CONSTANTS Readers, Targets, Contents,
          MaxRecent,   \* MAX_RECENT_ITEMS
          MaxReads     \* bound: reads

ASSUME ReadAssumption == MaxRecent \in Nat \ {0} /\ MaxReads \in Nat

VARIABLES tree, clock, memory, reader,
          shown,       \* history: every target with a content it was shown with
          since,       \* history: of each of these, those shown after it
          last,        \* history: what each target was shown with last
          overlapped   \* history: two reads were under way at once

readVars == <<tree, clock, memory, reader, shown, since, last, overlapped>>
sessionVars == <<vars, readVars>>

-----------------------------------------------------------------------------
(* Entries carry the tick of their read; prune_recent keeps the newest.    *)
Put(map, key, value) == [k \in DOMAIN map \cup {key} |-> IF k = key THEN value ELSE map[k]]
NoMemory == [contents |-> << >>, targets |-> << >>]
Newer(recent, key) == {k \in DOMAIN recent : recent[k].tick > recent[key].tick}
FaultRecent(recent) ==
  Restrict(recent, {k \in DOMAIN recent : Cardinality(DOMAIN recent) - Cardinality(Newer(recent, k)) <= MaxRecent})
Recent(recent) ==
  Restrict(recent, {k \in DOMAIN recent : Cardinality(Newer(recent, k)) < MaxRecent})
Pruned(m) ==
  [contents |-> Recent(m.contents), targets |-> Recent(m.targets)]

(* observe_content                                                         *)
Observation(m, target, content) ==
  LET known == target \in DOMAIN m.targets
  IN [seen |-> <<target, content>> \in DOMAIN m.contents,
      known |-> known,
      changed |-> known /\ m.targets[target].content # content]
Observed(m, target, content, tick) ==
  Pruned([contents |-> Put(m.contents, <<target, content>>, [tick |-> tick]),
          targets |-> Put(m.targets, target, [content |-> content, tick |-> tick])])

-----------------------------------------------------------------------------
Resting == [pc |-> "idle", target |-> "none", content |-> "none", tick |-> 0]
ReadInit ==
  /\ tree \in [Targets -> Contents] /\ clock = 1 /\ memory = NoMemory
  /\ reader = [r \in Readers |-> Resting]
  /\ shown = {} /\ since = << >> /\ last = << >> /\ overlapped = FALSE

EditTarget(t) ==
  /\ clock <= MaxReads
  /\ \E c \in Contents \ {tree[t]} : tree' = [tree EXCEPT ![t] = c]
  /\ UNCHANGED <<vars, clock, memory, reader, shown, since, last, overlapped>>

(* The tool reads the file, ...                                            *)
Read(r) ==
  /\ reader[r].pc = "idle" /\ clock <= MaxReads
  /\ \E t \in Targets :
       reader' = [reader EXCEPT ![r] = [Resting EXCEPT !.pc = "tick", !.target = t, !.content = tree[t]]]
  /\ overlapped' = (overlapped \/ \E q \in Readers : reader[q].pc # "idle")
  /\ UNCHANGED <<vars, tree, clock, memory, shown, since, last>>

(* ... takes a tick, ...                                                   *)
TakeTick(r) ==
  /\ reader[r].pc = "tick"
  /\ reader' = [reader EXCEPT ![r].pc = "observe", ![r].tick = clock] /\ clock' = clock + 1
  /\ UNCHANGED <<vars, tree, memory, shown, since, last, overlapped>>

(* ... and observes the content under the lock.                            *)
Observe(r) ==
  /\ reader[r].pc = "observe"
  /\ LET me == reader[r]
         key == <<me.target, me.content>>
     IN /\ memory' = Observed(memory, me.target, me.content, me.tick)
        /\ shown' = shown \cup {key}
        /\ since' = Put([k \in DOMAIN since |-> since[k] \cup {key}], key, {})
        /\ last' = Put(last, me.target, me.content)
        /\ reader' = [reader EXCEPT ![r] = Resting]
  /\ Access(Entered(table, Project), session)
  /\ UNCHANGED <<disk, cache, local, served, tree, clock, overlapped>>

(* A session that falls out of the table takes its memory with it.         *)
Evicted == Project \in ToSet(table) /\ Project \notin ToSet(table')
Forgets ==
  /\ memory' = (IF Evicted THEN NoMemory ELSE memory)
  /\ since' = (IF Evicted THEN << >> ELSE since)
  /\ last' = (IF Evicted THEN << >> ELSE last)
  /\ UNCHANGED <<tree, clock, reader, shown, overlapped>>

ReadNext ==
  \/ \E t \in Targets : EditTarget(t)
  \/ \E r \in Readers : Read(r) \/ TakeTick(r) \/ Observe(r)

SessionInit == Init /\ ReadInit
SessionNext == ReadNext \/ (Next /\ Forgets)
SessionSpec == SessionInit /\ [][SessionNext]_sessionVars

-----------------------------------------------------------------------------
(* A client is told that it has seen a content only if the target was      *)
(* shown with it; that a target changed exactly if the content is not what *)
(* it was last shown with; and while reads come one by one, a content is   *)
(* recognised unless as many others as are kept came after it.             *)
ShownWith(t) == {k \in DOMAIN since : k[1] = t}
ReadsRecognised ==
  [][\A r \in Readers : Observe(r) =>
       LET me == reader[r]
           key == <<me.target, me.content>>
           told == Observation(memory, me.target, me.content)
           others == UNION {since[k] : k \in ShownWith(me.target)}
       IN /\ told.seen => key \in shown
          /\ told.known => (told.changed <=> last[me.target] # me.content)
          /\ ~overlapped /\ key \in DOMAIN since /\ Cardinality(since[key]) < MaxRecent => told.seen
          /\ ~overlapped /\ ShownWith(me.target) # {} /\ Cardinality(others) < MaxRecent => told.known]_sessionVars
=============================================================================
