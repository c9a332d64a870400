---------------------------- MODULE TreeFollower ----------------------------
(***************************************************************************)
(* What the file watcher promises, whatever its channel, flags and timers: *)
(* it never forgets a change.  unsynced are the files whose last change    *)
(* the index does not show; owed are those the follower still has on its   *)
(* books.  It may owe more than necessary, never less.                     *)
(***************************************************************************)
CONSTANT Files

VARIABLES unsynced, owed, running

vars == <<unsynced, owed, running>>

Init == unsynced = {} /\ owed = {} /\ running = TRUE

Following == running /\ running'

(* A file changes and the follower is told. *)
Change(f) == /\ Following
             /\ unsynced' = unsynced \cup {f} /\ owed' = owed \cup {f}

(* Changes were dropped: from now on it owes every file. *)
LoseCount == /\ Following
             /\ owed' = Files
             /\ UNCHANGED unsynced

(* Some files are read again, some struck off the books: only such as are  *)
(* in sync afterwards.                                                     *)
Sync(read, settled) == /\ Following
                       /\ unsynced' = unsynced \ read
                       /\ settled \cap unsynced' = {}
                       /\ owed' = owed \ settled

(* Whoever stops following hands over nothing: what it owed is lost. *)
Stop == running /\ ~running' /\ UNCHANGED unsynced

(* Nobody follows the tree any more. *)
Unwatched == ~running /\ ~running'

Next == \/ \E f \in Files : Change(f)
        \/ LoseCount
        \/ \E read, settled \in SUBSET Files : Sync(read, settled)
        \/ Stop
        \/ Unwatched

Spec == Init /\ [][Next]_vars
=============================================================================
