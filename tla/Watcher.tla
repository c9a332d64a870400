------------------------------- MODULE Watcher ------------------------------
(***************************************************************************)
(* The file watcher of one project (watcher.rs): the notify callback, the  *)
(* bounded channel with its overflow flag, and the debounce loop that      *)
(* flushes batches.  What a flush writes is the subject of IndexStore; here*)
(* a flush reads some files again.                                         *)
(*                                                                         *)
(* The callback runs in a thread of its own: a failed try_send and the     *)
(* store to the overflow flag are two steps.  Time is left out: an armed   *)
(* deadline may expire whenever the loop is waiting.                       *)
(***************************************************************************)
EXTENDS Integers, FiniteSets, Sequences

CONSTANTS Files,
          Capacity,     \* CHANNEL_CAPACITY
          MaxChanges,   \* bound: changes to the tree
          StopEnabled,  \* bound: the watcher may be stopped or dropped
          WalkFails     \* bound: the walk of a resync may fail

ASSUME WatcherAssumption == /\ Capacity \in Nat \ {0}
                            /\ MaxChanges \in Nat
                            /\ StopEnabled \in BOOLEAN /\ WalkFails \in BOOLEAN

VARIABLES
  stale,       \* files whose last change no flush has read
  announced,   \* changes the callback has not handled yet
  callback,    \* "ready", or "full" between a failed send and the flag
  registered,  \* the notify watcher, and with it the sender, exists
  channel,     \* the mpsc channel
  overflowed,  \* the AtomicBool
  loop,        \* where the debounce loop is
  mode,        \* what the flush at hand does
  leaving,     \* the flush at hand is the last one
  pending,     \* the loop's HashSet of paths
  deadline,    \* is it Some?
  stopFlag,    \* does watch.stop exist?
  statusFile,  \* does watch.status exist?
  changes,     \* bound on the environment
  gaveUp       \* history: a resync has failed

treeVars == <<stale, announced, changes>>
handlerVars == <<callback, registered>>
flushVars == <<loop, mode, leaving>>
fileVars == <<stopFlag, statusFile>>
vars == <<treeVars, handlerVars, channel, overflowed, flushVars, pending, deadline, fileVars,
          gaveUp>>

Queued == {channel[i] : i \in 1 .. Len(channel)}

TypeOK ==
  /\ stale \in SUBSET Files /\ announced \in SUBSET Files
  /\ callback \in {"ready", "full"} /\ registered \in BOOLEAN
  /\ channel \in Seq(Files) /\ Len(channel) <= Capacity
  /\ overflowed \in BOOLEAN
  /\ loop \in {"waiting", "flushing", "flushed", "done"}
  /\ mode \in {"none", "batch", "resync"} /\ leaving \in BOOLEAN
  /\ pending \in SUBSET Files /\ deadline \in BOOLEAN
  /\ stopFlag \in BOOLEAN /\ statusFile \in BOOLEAN
  /\ changes \in 0 .. MaxChanges /\ gaveUp \in BOOLEAN

(* ProjectWatcher::start: the status file is there, a stale stop flag gone. *)
Init ==
  /\ stale = {} /\ announced = {} /\ changes = 0
  /\ callback = "ready" /\ registered = TRUE
  /\ channel = << >> /\ overflowed = FALSE
  /\ loop = "waiting" /\ mode = "none" /\ leaving = FALSE
  /\ pending = {} /\ deadline = FALSE
  /\ stopFlag = FALSE /\ statusFile = TRUE
  /\ gaveUp = FALSE

-----------------------------------------------------------------------------
(* A supported file is created, modified or removed. *)
Change(f) ==
  /\ changes < MaxChanges
  /\ changes' = changes + 1
  /\ stale' = stale \cup {f}
  /\ announced' = IF registered THEN announced \cup {f} ELSE announced
  /\ UNCHANGED <<handlerVars, channel, overflowed, flushVars, pending, deadline, fileVars, gaveUp>>

(* The notify callback: try_send, which fails on a full channel and on one *)
(* whose receiver is gone ...                                              *)
Full == Len(channel) >= Capacity \/ loop = "done"

Handle(f) ==
  /\ registered /\ callback = "ready" /\ f \in announced
  /\ announced' = announced \ {f}
  /\ IF Full THEN callback' = "full" /\ UNCHANGED channel
             ELSE channel' = Append(channel, f) /\ UNCHANGED callback
  /\ UNCHANGED <<stale, changes, registered, overflowed, flushVars, pending, deadline, fileVars, gaveUp>>

(* ... and the flag. *)
FaultNoFlag == overflowed
FlagAfterDrop == TRUE

MarkOverflow ==
  /\ callback = "full"
  /\ callback' = "ready"
  /\ overflowed' = FlagAfterDrop
  /\ UNCHANGED <<treeVars, registered, channel, flushVars, pending, deadline, fileVars, gaveUp>>

-----------------------------------------------------------------------------
(* run_debounce_loop: the arms of the select, in no particular order.      *)

Receive ==
  /\ loop = "waiting" /\ channel # << >>
  /\ pending' = pending \cup {Head(channel)}
  /\ channel' = Tail(channel)
  /\ deadline' = TRUE
  /\ UNCHANGED <<treeVars, handlerVars, overflowed, flushVars, fileVars, gaveUp>>

(* flush_pending: the flag is read and cleared in one swap. *)
FlushMode == IF overflowed THEN "resync" ELSE IF pending = {} THEN "none" ELSE "batch"

BeginFlush(last) ==
  /\ mode' = FlushMode
  /\ overflowed' = FALSE
  /\ loop' = IF FlushMode = "none" THEN "flushed" ELSE "flushing"
  /\ leaving' = last

DebounceExpires ==
  /\ loop = "waiting" /\ deadline
  /\ BeginFlush(FALSE)
  /\ UNCHANGED <<treeVars, handlerVars, channel, pending, deadline, fileVars, gaveUp>>

(* recv returns None once the sender is gone and the channel is drained. *)
ChannelClosed ==
  /\ loop = "waiting" /\ ~registered /\ channel = << >>
  /\ BeginFlush(TRUE)
  /\ UNCHANGED <<treeVars, handlerVars, channel, pending, deadline, fileVars, gaveUp>>

StopRequested ==
  /\ loop = "waiting" /\ stopFlag
  /\ stopFlag' = FALSE
  /\ BeginFlush(TRUE)
  /\ UNCHANGED <<treeVars, handlerVars, channel, pending, deadline, statusFile, gaveUp>>

(* reindex_batch reads the pending files, full_resync all of them. *)
FlushReads ==
  /\ loop = "flushing"
  /\ stale' = IF mode = "resync" THEN {} ELSE stale \ pending
  /\ loop' = "flushed"
  /\ UNCHANGED <<announced, changes, handlerVars, channel, overflowed, mode, leaving,
                 pending, deadline, fileVars, gaveUp>>

(* full_resync returns early: the walk failed or panicked. *)
ResyncFails ==
  /\ WalkFails /\ loop = "flushing" /\ mode = "resync"
  /\ loop' = "flushed" /\ gaveUp' = TRUE
  /\ UNCHANGED <<treeVars, handlerVars, channel, overflowed, mode, leaving, pending,
                 deadline, fileVars>>

(* pending.clear(), whatever became of the flush; then wait or leave.      *)
FaultClearChannel == << >>
ChannelAfterFlush == channel
DeadlineAfterFlush == FALSE
FaultKeepStatus == statusFile
StatusAfterLoop == FALSE

EndFlush ==
  /\ loop = "flushed"
  /\ pending' = {} /\ mode' = "none" /\ leaving' = FALSE
  /\ channel' = ChannelAfterFlush
  /\ IF leaving THEN loop' = "done" /\ statusFile' = StatusAfterLoop /\ UNCHANGED deadline
                ELSE loop' = "waiting" /\ deadline' = DeadlineAfterFlush /\ UNCHANGED statusFile
  /\ UNCHANGED <<treeVars, handlerVars, overflowed, stopFlag, gaveUp>>

-----------------------------------------------------------------------------
(* external_stop writes the flag; WatcherRegistry::stop drops the watcher, *)
(* and with it the callback, the sender and the status file.               *)

RequestStop ==
  /\ StopEnabled /\ statusFile /\ ~stopFlag
  /\ stopFlag' = TRUE
  /\ UNCHANGED <<treeVars, handlerVars, channel, overflowed, flushVars, pending, deadline,
                 statusFile, gaveUp>>

Drop ==
  /\ StopEnabled /\ registered /\ callback = "ready"
  /\ registered' = FALSE /\ announced' = {} /\ statusFile' = FALSE
  /\ UNCHANGED <<stale, changes, callback, channel, overflowed, flushVars, pending, deadline,
                 stopFlag, gaveUp>>

Callback == (\E f \in Files : Handle(f)) \/ MarkOverflow

Loop == \/ Receive \/ DebounceExpires \/ ChannelClosed \/ StopRequested
        \/ FlushReads \/ ResyncFails \/ EndFlush

Next == (\E f \in Files : Change(f)) \/ Callback \/ Loop \/ RequestStop \/ Drop

Spec == Init /\ [][Next]_vars

(* The callback thread and the spawned loop run on when they can.  When a  *)
(* stop flag exists the poll arm sees it in the end (select picks among    *)
(* ready arms at random).                                                  *)
FairSpec == Spec /\ WF_vars(Callback) /\ WF_vars(Loop) /\ SF_vars(StopRequested)

-----------------------------------------------------------------------------
(* PROPERTIES                                                              *)

Watching == registered /\ loop # "done" /\ ~leaving /\ ~gaveUp

(* What the watcher still has on its books.                                *)
Owed == IF overflowed \/ callback = "full" \/ (mode = "resync" /\ loop = "flushing")
        THEN Files
        ELSE announced \cup Queued \cup pending

(* No change is forgotten: a file that no flush has read since it changed  *)
(* is queued somewhere, or the overflow flag is up or about to be.  The    *)
(* resync whose walk fails is the exception: it has cleared the flag, and  *)
(* flush_pending clears the paths all the same.                            *)
NothingForgotten == Watching => stale \subseteq Owed

(* The watcher is a TreeFollower.                                          *)
Follower == INSTANCE TreeFollower
              WITH unsynced <- stale, owed <- Owed, running <- Watching
FollowsTree == Follower!Spec

(* The loop never waits without a deadline while it holds paths to flush,  *)
(* and never burns a deadline for nothing.                                 *)
DeadlineIffPending == loop = "waiting" => (deadline <=> pending # {})

(* Every change is read in the end, unless the watcher is stopped; but for *)
(* a flag raised after the flush it should have caused.                    *)
FlaggedLate == overflowed /\ ~deadline /\ channel = << >> /\ loop = "waiting"
ChangesRead == \A f \in Files : f \in stale ~> f \notin stale \/ ~Watching \/ FlaggedLate

(* A stop request ends the loop and takes the status file with it, however *)
(* busy the tree is.                                                       *)
StopHonoured == stopFlag ~> loop = "done" /\ ~statusFile
=============================================================================
