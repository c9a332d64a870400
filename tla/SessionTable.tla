---------------------------- MODULE SessionTable ----------------------------
(***************************************************************************)
(* session.rs: what the process remembers of each project, as operators.   *)
(*                                                                         *)
(* Ticks come from one counter and only their order is ever used to evict, *)
(* so a bounded map from keys to ticks is a sequence of its keys, the most *)
(* recent last.                                                            *)
(***************************************************************************)
EXTENDS Naturals, Sequences, SequencesExt

CONSTANTS MaxSessions,  \* MAX_PROJECT_SESSIONS
          MaxAnswers    \* MAX_INVESTIGATE_CACHE

ASSUME SessionAssumption ==
  /\ MaxSessions \in Nat \ {0}
  /\ MaxAnswers \in Nat \ {0}

-----------------------------------------------------------------------------
(* Insertion under a fresh tick, then pruning to the newest entries.       *)
Newest(seq, n) == IF Len(seq) <= n THEN seq ELSE SubSeq(seq, Len(seq) - n + 1, Len(seq))
Without(seq, at) == IF at = {} THEN seq ELSE RemoveAt(seq, CHOOSE i \in at : TRUE)

(* The table of sessions: projects by last_tick.  with_state_mut enters a  *)
(* project, with_state only touches one that is there; both prune.         *)
Touched(table, project) ==
  Append(Without(table, {i \in DOMAIN table : table[i] = project}), project)
Entered(table, project) == Newest(Touched(table, project), MaxSessions)
Looked(table, project) ==
  IF project \in ToSet(table) THEN Newest(Touched(table, project), MaxSessions) ELSE table

-----------------------------------------------------------------------------
(* ProjectSessionState: the answers of investigate and their epoch.        *)
NewSession == [epoch |-> 0, answers |-> << >>]

(* store_investigate_cache *)
StoreAnswer(session, answer) ==
  [session EXCEPT !.answers =
     Newest(Append(Without(@, {i \in DOMAIN @ : @[i].key = answer.key}), answer), MaxAnswers)]

(* get_investigate_cache *)
Answers(session, key) == {a \in ToSet(session.answers) : a.key = key}

(* invalidate_investigate_cache *)
DropAnswers(session) == [epoch |-> session.epoch + 1, answers |-> << >>]
=============================================================================
