------------------------------ MODULE ChangeLog ------------------------------
(***************************************************************************)
(* The bounded change log persisted in meta.json (index/format.rs) and the *)
(* feed that get_index_changes (tools/index_changes.rs) reads from it.     *)
(* Pure operators over a journal: a record with fields revision and        *)
(* changeLog (it may have others, which the operators leave alone).        *)
(*                                                                         *)
(* Each source file is taken to define one symbol, named by the file:      *)
(* symbol ids are file/name/kind based, so an edit keeps the id.           *)
(***************************************************************************)
EXTENDS Integers, FiniteSets, Sequences

CONSTANTS Files,     \* the source files, and the ids of their symbols
          LogMax,    \* CHANGE_LOG_MAX_REVISIONS
          ListCap    \* CHANGE_LIST_CAP

ASSUME LogAssumption == /\ IsFiniteSet(Files)
                        /\ LogMax \in Nat \ {0}
                        /\ ListCap \in Nat

-----------------------------------------------------------------------------
(* A persisted entry, and the entry of a diff before it has a revision.    *)

RevisionChange == [revision  : Nat,
                   added     : SUBSET Files,
                   removed   : SUBSET Files,
                   modified  : SUBSET Files,
                   truncated : BOOLEAN]

Capped(ids) == IF Cardinality(ids) <= ListCap
               THEN ids
               ELSE CHOOSE kept \in SUBSET ids : Cardinality(kept) = ListCap

FromDiff(added, removed, modified) ==
  [revision  |-> 0,
   added     |-> Capped(added),
   removed   |-> Capped(removed),
   modified  |-> Capped(modified),
   truncated |-> \E ids \in {added, removed, modified} : Cardinality(ids) > ListCap]

(* The ids a complete, untruncated feed names for one revision.            *)
Mentioned(change) == change.added \cup change.removed \cup change.modified

-----------------------------------------------------------------------------
(* IndexMeta::record_change: the next revision, its entry, the oldest      *)
(* entries drained beyond LogMax.                                          *)

(* Fault... operators are the plausible mistakes the mutation runs inject. *)
FaultKeepOldest(log) == IF Len(log) > LogMax THEN SubSeq(log, 1, LogMax) ELSE log

KeepNewest(log) == IF Len(log) > LogMax
                   THEN SubSeq(log, Len(log) - LogMax + 1, Len(log))
                   ELSE log

NextRevision(revision) == revision + 1

RecordChange(journal, added, removed, modified) ==
  LET next == NextRevision(journal.revision)
      entry == [FromDiff(added, removed, modified) EXCEPT !.revision = next]
  IN  [journal EXCEPT !.revision = next,
                      !.changeLog = KeepNewest(Append(journal.changeLog, entry))]

-----------------------------------------------------------------------------
(* The feed of get_index_changes for a client that knows revision `since`. *)

FeedEntries(journal, since) ==
  {i \in 1 .. Len(journal.changeLog) : journal.changeLog[i].revision > since}

(* since + 1 >= the earliest logged revision; nothing logged: nothing to say. *)
FeedIsComplete(journal, current, since) ==
  IF journal.changeLog = << >>
  THEN since >= current
  ELSE \E i \in 1 .. Len(journal.changeLog) :
          since + 1 >= journal.changeLog[i].revision

-----------------------------------------------------------------------------
(* What the journal must look like: the newest LogMax revisions, each with *)
(* its own entry, oldest first, the last one being the current revision.   *)

JournalOK(journal) ==
  LET log == journal.changeLog
  IN  /\ Len(log) = IF journal.revision < LogMax THEN journal.revision ELSE LogMax
      /\ \A i \in 1 .. Len(log) : log[i].revision = journal.revision - Len(log) + i

(* "The feed is complete when every revision between since + 1 and current *)
(* has a log entry" (tools/index_changes.rs:38).                           *)
FeedCovers(journal, current, since) ==
  \A rev \in since + 1 .. current :
     \E i \in FeedEntries(journal, since) : journal.changeLog[i].revision = rev
=============================================================================
