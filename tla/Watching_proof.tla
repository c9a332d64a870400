---------------------------- MODULE Watching_proof ----------------------------
(***************************************************************************)
(* Theorems about Watcher, for every set of files and every capacity:      *)
(* types, that no change is forgotten, and that the watcher implements     *)
(* TreeFollower; and about WatchLifecycle, for any processes and calls:    *)
(* types, that no debounce loop runs without a handle however calls        *)
(* interleave, and that calls which take turns start one watcher at most   *)
(* and stop what they say they stopped.                                    *)
(***************************************************************************)
EXTENDS Watcher, WatchLifecycle, TLAPS

(* Between a flush and the end of its iteration, what is still stale is    *)
(* not in the pending set that is about to be cleared.                     *)
Settled ==
  loop = "flushed" /\ Watching =>
     overflowed \/ callback = "full" \/ stale \subseteq announced \cup Queued

(* mode and leaving belong to the flush at hand. *)
FlushAtHand == /\ loop = "waiting" => mode = "none"
               /\ loop = "flushing" => mode # "none"
               /\ leaving => loop \in {"flushing", "flushed"}

WInv == /\ TypeOK /\ FlushAtHand /\ Settled
        /\ NothingForgotten /\ DeadlineIffPending

-----------------------------------------------------------------------------
(* SEQUENCES                                                               *)

Members(s) == {s[i] : i \in 1 .. Len(s)}

LEMMA MembersAppend ==
  ASSUME NEW S, NEW s \in Seq(S), NEW e \in S
  PROVE  Members(Append(s, e)) = Members(s) \cup {e}
<1>1. Len(Append(s, e)) = Len(s) + 1
  OBVIOUS
<1>2. \A i \in 1 .. Len(s) : Append(s, e)[i] = s[i]
  OBVIOUS
<1>3. Append(s, e)[Len(s) + 1] = e
  OBVIOUS
<1>4. Len(s) \in Nat
  OBVIOUS
<1>5. 1 .. Len(s) + 1 = (1 .. Len(s)) \cup {Len(s) + 1}
  BY <1>4
<1> QED
  BY <1>1, <1>2, <1>3, <1>5 DEF Members

LEMMA MembersTail ==
  ASSUME NEW S, NEW s \in Seq(S), s # << >>
  PROVE  /\ Tail(s) \in Seq(S) /\ Len(Tail(s)) = Len(s) - 1
         /\ Head(s) \in S
         /\ Members(s) = {Head(s)} \cup Members(Tail(s))
<1>1. Tail(s) \in Seq(S) /\ Len(Tail(s)) = Len(s) - 1 /\ Len(s) \in Nat \ {0} /\ Head(s) = s[1]
  OBVIOUS
<1>2. \A i \in 1 .. Len(s) - 1 : Tail(s)[i] = s[i + 1]
  BY <1>1
<1>3. \A i \in 2 .. Len(s) : s[i] = Tail(s)[i - 1] /\ i - 1 \in 1 .. Len(s) - 1
  BY <1>1, <1>2
<1>4. \A i \in 1 .. Len(s) - 1 : i + 1 \in 1 .. Len(s)
  BY <1>1
<1>5. Members(s) \subseteq {Head(s)} \cup Members(Tail(s))
  <2>1. SUFFICES ASSUME NEW i \in 1 .. Len(s)
                 PROVE  s[i] \in {Head(s)} \cup Members(Tail(s))
    BY DEF Members
  <2>2. CASE i = 1
    BY <1>1, <2>2
  <2>3. CASE i # 1
    BY <1>1, <1>3, <2>3 DEF Members
  <2> QED
    BY <2>2, <2>3
<1>6. {Head(s)} \cup Members(Tail(s)) \subseteq Members(s)
  BY <1>1, <1>2, <1>4 DEF Members
<1> QED
  BY <1>1, <1>5, <1>6

LEMMA QueuedIsMembers == Queued = Members(channel)
BY DEF Queued, Members

-----------------------------------------------------------------------------
(* STEPS.  Each lemma gives what one step does to the invariant, and to    *)
(* the follower the watcher is.                                            *)

FollowerStep == Follower!Next \/ UNCHANGED Follower!vars

(* What the follower makes of a step: nobody follows any more, it stops, or *)
(* nothing happens.                                                        *)
LEMMA UnwatchedFollows ==
  ASSUME ~Watching, ~Watching'
  PROVE  FollowerStep
BY DEF FollowerStep, Follower!Next, Follower!Unwatched

LEMMA StopFollows ==
  ASSUME Watching, ~Watching', stale' = stale
  PROVE  FollowerStep
BY DEF FollowerStep, Follower!Next, Follower!Stop

LEMMA StutterFollows ==
  ASSUME Watching, Watching', stale' = stale, Owed' = Owed, Owed \subseteq Files
  PROVE  FollowerStep
<1>1. Follower!Sync({}, {})
  BY DEF Follower!Sync, Follower!Following
<1> QED
  BY <1>1 DEF FollowerStep, Follower!Next

LEMMA OwedType ==
  ASSUME TypeOK
  PROVE  Owed \subseteq Files /\ Queued \subseteq Files
BY DEF TypeOK, Owed, Queued

(* Nothing to show of a watcher that nobody relies on. *)
LEMMA NotWatching ==
  ASSUME ~Watching'
  PROVE  NothingForgotten' /\ Settled'
BY DEF NothingForgotten, Settled

LEMMA ChangeKeeps ==
  ASSUME WInv, NEW f \in Files, Change(f)
  PROVE  WInv' /\ FollowerStep
<1> USE DEF WInv, TypeOK, FlushAtHand, Change, handlerVars, flushVars, fileVars
<1>1. TypeOK' /\ FlushAtHand' /\ DeadlineIffPending'
  BY WatcherAssumption DEF DeadlineIffPending
<1>2. Watching' = Watching
  BY DEF Watching
<1>3. CASE ~Watching
  BY <1>1, <1>2, <1>3, NotWatching, UnwatchedFollows
<1>4. CASE Watching
  <2>1. registered /\ announced' = announced \cup {f} /\ Queued' = Queued
    BY <1>4 DEF Watching, Queued
  <2>2. Owed' = Owed \cup {f}
    BY <2>1 DEF Owed
  <2>3. NothingForgotten' /\ Settled'
    BY <1>2, <1>4, <2>1, <2>2 DEF NothingForgotten, Settled
  <2>4. Follower!Change(f)
    BY <1>2, <1>4, <2>2 DEF Follower!Change, Follower!Following
  <2> QED
    BY <1>1, <2>3, <2>4 DEF FollowerStep, Follower!Next
<1> QED
  BY <1>3, <1>4

LEMMA HandleKeeps ==
  ASSUME WInv, NEW f \in Files, Handle(f)
  PROVE  WInv' /\ FollowerStep
<1> USE DEF WInv, TypeOK, FlushAtHand, Handle, flushVars, fileVars
<1>1. Watching' = Watching
  BY DEF Watching
<1>2. CASE Full
  <2>1. TypeOK' /\ FlushAtHand' /\ DeadlineIffPending'
    BY <1>2 DEF DeadlineIffPending
  <2>2. callback' = "full" /\ Owed' = Files
    BY <1>2 DEF Owed
  <2>3. NothingForgotten' /\ Settled'
    BY <2>1, <2>2 DEF NothingForgotten, Settled
  <2>4. CASE Watching
    BY <1>1, <2>1, <2>2, <2>3, <2>4
    DEF Follower!LoseCount, Follower!Following, FollowerStep, Follower!Next
  <2>5. CASE ~Watching
    BY <1>1, <2>1, <2>3, <2>5, UnwatchedFollows
  <2> QED
    BY <2>4, <2>5
<1>3. CASE ~Full
  <2>1. channel' = Append(channel, f) /\ Len(channel) < Capacity
    BY <1>3, WatcherAssumption DEF Full
  <2>2. channel' \in Seq(Files) /\ Len(channel') <= Capacity
    BY <2>1, WatcherAssumption
  <2>3. TypeOK' /\ FlushAtHand' /\ DeadlineIffPending'
    BY <1>3, <2>2 DEF DeadlineIffPending
  <2>4. Queued' = Queued \cup {f}
    BY <2>1, MembersAppend, QueuedIsMembers DEF Queued, Members
  <2>5. Owed' = Owed /\ announced' \cup Queued' = announced \cup Queued
    BY <1>3, <2>4 DEF Owed
  <2>6. NothingForgotten' /\ Settled'
    BY <1>1, <1>3, <2>5 DEF NothingForgotten, Settled
  <2>7. CASE Watching
    BY <1>1, <2>3, <2>5, <2>6, <2>7, StutterFollows, OwedType
  <2>8. CASE ~Watching
    BY <1>1, <2>3, <2>6, <2>8, UnwatchedFollows
  <2> QED
    BY <2>7, <2>8
<1> QED
  BY <1>2, <1>3

LEMMA MarkOverflowKeeps ==
  ASSUME WInv, MarkOverflow
  PROVE  WInv' /\ FollowerStep
<1> USE DEF WInv, TypeOK, FlushAtHand, MarkOverflow, treeVars, flushVars, fileVars
<1>1. TypeOK' /\ FlushAtHand' /\ DeadlineIffPending'
  BY DEF DeadlineIffPending, FlagAfterDrop
<1>2. Watching' = Watching
  BY DEF Watching
<1>3. Owed = Files /\ Owed' = Files
  BY DEF Owed, FlagAfterDrop
<1>4. NothingForgotten' /\ Settled'
  BY <1>1, <1>3 DEF NothingForgotten, Settled, FlagAfterDrop
<1>5. CASE Watching
  BY <1>1, <1>2, <1>3, <1>4, <1>5, StutterFollows
<1>6. CASE ~Watching
  BY <1>1, <1>2, <1>4, <1>6, UnwatchedFollows
<1> QED
  BY <1>5, <1>6

LEMMA ReceiveKeeps ==
  ASSUME WInv, Receive
  PROVE  WInv' /\ FollowerStep
<1> USE DEF WInv, TypeOK, FlushAtHand, Receive, treeVars, handlerVars, flushVars, fileVars
<1>1. /\ channel' \in Seq(Files) /\ Len(channel') = Len(channel) - 1
      /\ Head(channel) \in Files
      /\ Queued = {Head(channel)} \cup Queued'
  <2>1. Queued = Members(channel) /\ Queued' = Members(Tail(channel))
    BY DEF Queued, Members
  <2>2. /\ Tail(channel) \in Seq(Files) /\ Len(Tail(channel)) = Len(channel) - 1
        /\ Head(channel) \in Files
        /\ Members(channel) = {Head(channel)} \cup Members(Tail(channel))
    BY MembersTail
  <2> QED
    BY <2>1, <2>2
<1>2. TypeOK' /\ FlushAtHand' /\ DeadlineIffPending'
  BY <1>1, WatcherAssumption DEF DeadlineIffPending
<1>3. Watching' = Watching
  BY DEF Watching
<1>4. Owed' = Owed
  BY <1>1 DEF Owed
<1>5. NothingForgotten' /\ Settled'
  BY <1>3, <1>4 DEF NothingForgotten, Settled
<1>6. CASE Watching
  BY <1>2, <1>3, <1>4, <1>5, <1>6, StutterFollows, OwedType
<1>7. CASE ~Watching
  BY <1>2, <1>3, <1>5, <1>7, UnwatchedFollows
<1> QED
  BY <1>6, <1>7

(* The three arms that flush: read the flag and clear it. *)
LEMMA FlushKeeps ==
  ASSUME WInv, DebounceExpires \/ ChannelClosed \/ StopRequested
  PROVE  WInv' /\ FollowerStep
<1> USE DEF WInv, TypeOK, FlushAtHand
<1>1. PICK last \in BOOLEAN : BeginFlush(last)
  BY DEF DebounceExpires, ChannelClosed, StopRequested
<1>2. /\ loop = "waiting"
      /\ UNCHANGED <<stale, announced, changes, registered, callback, channel, pending,
                     deadline, gaveUp>>
      /\ statusFile' = statusFile /\ stopFlag' \in BOOLEAN
  BY DEF DebounceExpires, ChannelClosed, StopRequested, treeVars, handlerVars, fileVars
<1>3. FlushMode \in {"none", "batch", "resync"} /\ mode = "none"
  BY <1>2 DEF FlushMode
<1>4. TypeOK' /\ FlushAtHand' /\ DeadlineIffPending'
  BY <1>1, <1>2, <1>3 DEF BeginFlush, DeadlineIffPending
<1>5. CASE last
  <2>1. ~Watching'
    BY <1>1, <1>5 DEF BeginFlush, Watching
  <2>2. FollowerStep
    BY <1>2, <2>1, StopFollows, UnwatchedFollows
  <2> QED
    BY <1>4, <2>1, <2>2, NotWatching
<1>6. CASE ~last
  <2>1. Watching' = Watching
    BY <1>1, <1>2, <1>6 DEF BeginFlush, Watching
  <2>2. Queued' = Queued /\ Owed' = Owed
    BY <1>1, <1>2, <1>3 DEF BeginFlush, FlushMode, Owed, Queued
  <2>3. NothingForgotten'
    BY <1>2, <2>1, <2>2 DEF NothingForgotten
  <2>4. Settled'
    BY <1>1, <1>2, <2>1, <2>2, <2>3 DEF BeginFlush, FlushMode, Settled, NothingForgotten, Owed
  <2>5. CASE Watching
    BY <1>2, <1>4, <2>1, <2>2, <2>3, <2>4, <2>5, StutterFollows, OwedType
  <2>6. CASE ~Watching
    BY <1>4, <2>1, <2>3, <2>4, <2>6, UnwatchedFollows
  <2> QED
    BY <2>5, <2>6
<1> QED
  BY <1>5, <1>6

LEMMA FlushReadsKeeps ==
  ASSUME WInv, FlushReads
  PROVE  WInv' /\ FollowerStep
<1> USE DEF WInv, TypeOK, FlushAtHand, FlushReads, handlerVars, fileVars
<1>1. TypeOK' /\ FlushAtHand' /\ DeadlineIffPending'
  BY DEF DeadlineIffPending
<1>2. Watching' = Watching /\ Queued' = Queued
  BY DEF Watching, Queued
<1>3. CASE ~Watching
  BY <1>1, <1>2, <1>3, NotWatching, UnwatchedFollows
<1>4. CASE Watching
  <2>1. stale \subseteq Owed
    BY <1>4 DEF NothingForgotten
  <2>2. stale' \subseteq Owed' /\ Owed' \subseteq Owed /\ stale' \subseteq stale
    BY <1>2, <2>1, OwedType DEF Owed
  <2>3. NothingForgotten'
    BY <2>2 DEF NothingForgotten
  <2>4. Settled'
    BY <1>2, <2>1 DEF Settled, Owed
  <2>5. Follower!Sync(stale \ stale', Owed \ Owed')
    BY <1>2, <1>4, <2>2 DEF Follower!Sync, Follower!Following
  <2>6. FollowerStep
    <3>1. stale \ stale' \in SUBSET Files /\ Owed \ Owed' \in SUBSET Files
      BY OwedType
    <3> QED
      BY <2>5, <3>1 DEF FollowerStep, Follower!Next
  <2> QED
    BY <1>1, <2>3, <2>4, <2>6
<1> QED
  BY <1>3, <1>4

LEMMA ResyncFailsKeeps ==
  ASSUME WInv, ResyncFails
  PROVE  WInv' /\ FollowerStep
<1> USE DEF WInv, TypeOK, FlushAtHand, ResyncFails, treeVars, handlerVars, fileVars
<1>1. TypeOK' /\ FlushAtHand' /\ DeadlineIffPending'
  BY DEF DeadlineIffPending
<1>2. ~Watching' /\ stale' = stale
  BY DEF Watching
<1>3. FollowerStep
  BY <1>2, StopFollows, UnwatchedFollows
<1> QED
  BY <1>1, <1>2, <1>3, NotWatching

LEMMA EndFlushKeeps ==
  ASSUME WInv, EndFlush
  PROVE  WInv' /\ FollowerStep
<1> USE DEF WInv, TypeOK, FlushAtHand, EndFlush, treeVars, handlerVars
<1>1. TypeOK' /\ FlushAtHand' /\ DeadlineIffPending'
  BY DEF DeadlineIffPending, ChannelAfterFlush, DeadlineAfterFlush, StatusAfterLoop
<1>2. Watching' = Watching /\ Queued' = Queued
  BY DEF Watching, Queued, ChannelAfterFlush
<1>3. CASE ~Watching
  BY <1>1, <1>2, <1>3, NotWatching, UnwatchedFollows
<1>4. CASE Watching
  <2>1. overflowed \/ callback = "full" \/ stale \subseteq announced \cup Queued
    BY <1>4 DEF Settled
  <2>2. stale' \subseteq Owed' /\ Owed' \subseteq Owed
    BY <1>2, <2>1, OwedType DEF Owed
  <2>3. NothingForgotten' /\ Settled'
    BY <1>1, <2>2 DEF NothingForgotten, Settled
  <2>4. Follower!Sync({}, Owed \ Owed')
    BY <1>2, <1>4, <2>2 DEF Follower!Sync, Follower!Following
  <2>5. FollowerStep
    <3>1. Owed \ Owed' \in SUBSET Files
      BY OwedType
    <3> QED
      BY <2>4, <3>1 DEF FollowerStep, Follower!Next
  <2> QED
    BY <1>1, <2>3, <2>5
<1> QED
  BY <1>3, <1>4

LEMMA RequestStopKeeps ==
  ASSUME WInv, RequestStop
  PROVE  WInv' /\ FollowerStep
<1> USE DEF WInv, TypeOK, FlushAtHand, RequestStop, treeVars, handlerVars, flushVars
<1>1. TypeOK' /\ FlushAtHand' /\ DeadlineIffPending'
  BY DEF DeadlineIffPending
<1>2. Watching' = Watching /\ Owed' = Owed /\ Queued' = Queued
  BY DEF Watching, Owed, Queued
<1>3. NothingForgotten' /\ Settled'
  BY <1>2 DEF NothingForgotten, Settled
<1>4. FollowerStep
  BY <1>2, StutterFollows, UnwatchedFollows, OwedType
<1> QED
  BY <1>1, <1>3, <1>4

LEMMA DropKeeps ==
  ASSUME WInv, Drop
  PROVE  WInv' /\ FollowerStep
<1> USE DEF WInv, TypeOK, FlushAtHand, Drop, flushVars
<1>1. TypeOK' /\ FlushAtHand' /\ DeadlineIffPending'
  BY DEF DeadlineIffPending
<1>2. ~Watching' /\ stale' = stale
  BY DEF Watching
<1>3. FollowerStep
  BY <1>2, StopFollows, UnwatchedFollows
<1> QED
  BY <1>1, <1>2, <1>3, NotWatching

LEMMA NextKeeps ==
  ASSUME WInv, [Next]_vars
  PROVE  WInv' /\ FollowerStep
<1>1. CASE UNCHANGED vars
  <2> USE <1>1 DEF vars, treeVars, handlerVars, flushVars, fileVars, WInv
  <2>1. Queued' = Queued /\ Watching' = Watching
    BY DEF Queued, Watching
  <2>2. Owed' = Owed
    BY <2>1 DEF Owed
  <2>3. TypeOK' /\ FlushAtHand' /\ DeadlineIffPending'
    <3>1. TypeOK'
      BY DEF TypeOK
    <3>2. FlushAtHand'
      BY DEF FlushAtHand
    <3>3. DeadlineIffPending'
      BY DEF DeadlineIffPending
    <3> QED
      BY <3>1, <3>2, <3>3
  <2>4. NothingForgotten' /\ Settled'
    BY <2>1, <2>2 DEF NothingForgotten, Settled
  <2>5. FollowerStep
    BY <2>1, <2>2, StutterFollows, UnwatchedFollows, OwedType
  <2> QED
    BY <2>3, <2>4, <2>5
<1>2. CASE Next
  BY <1>2, ChangeKeeps, HandleKeeps, MarkOverflowKeeps, ReceiveKeeps, FlushKeeps,
     FlushReadsKeeps, ResyncFailsKeeps, EndFlushKeeps, RequestStopKeeps, DropKeeps
  DEF Next, Callback, Loop
<1> QED
  BY <1>1, <1>2

LEMMA InitOK == Init => WInv /\ Follower!Init
<1> SUFFICES ASSUME Init
             PROVE  WInv /\ Follower!Init
  OBVIOUS
<1> USE DEF Init
<1>1. TypeOK
  <2>1. channel \in Seq(Files) /\ Len(channel) <= Capacity
    BY WatcherAssumption, Len(<< >>) = 0, << >> \in Seq(Files)
  <2>2. changes \in 0 .. MaxChanges
    BY WatcherAssumption
  <2> QED
    BY <2>1, <2>2 DEF TypeOK
<1>2. Watching /\ Owed = {}
  <2>1. Len(<< >>) = 0 /\ 1 .. 0 = {}
    OBVIOUS
  <2>2. Queued = {}
    BY <2>1 DEF Queued
  <2> QED
    BY <2>2 DEF Watching, Owed
<1>3. FlushAtHand /\ Settled /\ NothingForgotten /\ DeadlineIffPending
  BY <1>2 DEF FlushAtHand, Settled, NothingForgotten, DeadlineIffPending
<1>4. Follower!Init
  BY <1>2 DEF Follower!Init, Watching
<1> QED
  BY <1>1, <1>3, <1>4 DEF WInv

LEMMA AlwaysWInv == Spec => []WInv
<1>1. Init => WInv
  BY InitOK
<1>2. WInv /\ [Next]_vars => WInv'
  BY NextKeeps
<1> QED
  BY <1>1, <1>2, PTL DEF Spec

-----------------------------------------------------------------------------
(* THEOREMS                                                                *)

(* Every variable keeps its type; in particular the channel never holds    *)
(* more than its capacity.                                                 *)
THEOREM WatcherTypes == Spec => []TypeOK
<1>1. WInv => TypeOK
  BY DEF WInv
<1> QED
  BY <1>1, AlwaysWInv, PTL

(* However the handler, the loop, stops and drops interleave: a change no  *)
(* flush has read is queued, or the overflow flag stands for it, until a   *)
(* resync fails (ProjectWatcher::start's handler, run_debounce_loop).      *)
THEOREM ChangesRemembered == Spec => []NothingForgotten
<1>1. WInv => NothingForgotten
  BY DEF WInv
<1> QED
  BY <1>1, AlwaysWInv, PTL

(* A waiting loop has a deadline exactly when it has paths to flush.       *)
THEOREM DeadlineArmed == Spec => []DeadlineIffPending
<1>1. WInv => DeadlineIffPending
  BY DEF WInv
<1> QED
  BY <1>1, AlwaysWInv, PTL

(* The watcher implements TreeFollower: every step of the handler and of   *)
(* the loop is a step of a follower that never owes too little.            *)
THEOREM WatcherFollowsTree == Spec => FollowsTree
<1>1. Init => Follower!Init
  BY InitOK
<1>2. WInv /\ [Next]_vars => [Follower!Next]_(Follower!vars)
  BY NextKeeps DEF FollowerStep
<1> QED
  BY <1>1, <1>2, AlwaysWInv, PTL DEF Spec, FollowsTree, Follower!Spec

-----------------------------------------------------------------------------
(***************************************************************************)
(* THE LIFE OF WATCHERS                                                    *)
(*                                                                         *)
(* While calls take turns, one loop at most has not ended, watch.json      *)
(* names its process as long as it runs, and a call that goes on to start  *)
(* a watcher has seen that there is none: no file, or that of a process    *)
(* that died and took its loops with it.                                   *)
(***************************************************************************)
Live(w) == phase[w] \in {"open", "closing"}
Starting == {"external", "clear_stale", "check_claim", "claim", "spawn", "register"}

\* Whose the watchers are.
LiveAtHome == \A w \in Watchers : Live(w) => home[w] \in Processes /\ alive[home[w]]
RegistersOwn == \A c \in Calls :
  pc(c) = "register" => call[c].watcher \in Watchers /\ home[call[c].watcher] = Home[c]
AskedStarted == \A c \in Calls : \A w \in call[c].asked : phase[w] # "none"
StoppedStarted == stopped \subseteq Watchers /\ \A w \in stopped : phase[w] # "none"

Owners == LiveAtHome /\ RegistersOwn /\ AskedStarted /\ StoppedStarted

\* Calls, and the ends of loops, that take turns.
OneCall == \A c, d \in Calls : pc(c) # "idle" /\ pc(d) # "idle" => c = d
OneLoop == \A v, w \in Watchers : Live(v) /\ Live(w) => v = w
FileNames == \A w \in Watchers : Running(w) => status = home[w]
FileNamesInCall == \A w \in Watchers : \A c \in Calls :
                     Live(w) /\ pc(c) # "idle" => status = home[w]
NoHandleYet == \A c \in Calls : pc(c) \in Starting => registry[Home[c]] = None
NoLoopYet == \A c \in Calls : pc(c) \in {"clear_stale", "check_claim", "claim", "spawn"}
               => \A w \in Watchers : ~Live(w)
Claimed == \A c \in Calls : pc(c) \in {"spawn", "register"} => status = Home[c]
Registering == \A c \in Calls : pc(c) = "register" => ~flag /\ Running(call[c].watcher)
SaidStopped == \A w \in stopped : ~Running(w)

Turn == /\ OneCall /\ OneLoop /\ FileNames /\ FileNamesInCall
        /\ NoHandleYet /\ NoLoopYet /\ Claimed /\ Registering /\ SaidStopped
InTurn == ~overlap /\ ~stray => Turn

IInv == LifecycleTypeOK /\ Owners /\ NoLeakedWatcher /\ InTurn

-----------------------------------------------------------------------------
Rec == [pc : Stages, watcher : Watchers \cup {None}, asked : SUBSET Watchers]
Others(c) == /\ call' \in [Calls -> Rec]
             /\ \A d \in Calls : d # c => call'[d] = call[d]
Began(c) ==
  /\ Up(c) /\ pc(c) = "idle" /\ overlap' \in BOOLEAN
  /\ ~overlap' => /\ ~overlap
                  /\ \A d \in Calls : pc(d) = "idle"
                  /\ \A w \in Watchers : phase[w] # "closing"
At(c, next) == /\ Others(c)
               /\ call'[c].pc = next /\ call'[c].watcher = call[c].watcher
               /\ call'[c].asked = call[c].asked
Done(c) == /\ Others(c)
           /\ call'[c].pc = "idle" /\ call'[c].asked = {}
Dropped(w) ==
  /\ status' = Nobody /\ stray' \in BOOLEAN /\ (~stray' => ~stray /\ Running(w))
  /\ phase' \in [Watchers -> {"none", "open", "closing", "ended"}]
  /\ phase[w] = "open" => phase'[w] = "closing"
  /\ phase[w] # "open" => phase'[w] = phase[w]
  /\ \A v \in Watchers : v # w => phase'[v] = phase[v]

WatchEffect(c) ==
  /\ Began(c)
  /\ \/ registry[Home[c]] # None /\ Done(c) /\ stopped' = {}
     \/ registry[Home[c]] = None /\ At(c, "external") /\ stopped' = stopped
  /\ UNCHANGED <<alive, registry, status, flag, phase, home, stray>>
StopEffect(c) ==
  /\ Began(c)
  /\ registry' = [registry EXCEPT ![Home[c]] = None] /\ Done(c)
  /\ LET old == registry[Home[c]]
     IN \/ old = None /\ stopped' = {} /\ UNCHANGED <<status, phase, stray>>
        \/ old \in Watchers /\ stopped' = {old} /\ Dropped(old)
  /\ UNCHANGED <<alive, flag, home>>
ExternalStopEffect(c) ==
  /\ Began(c)
  /\ \/ Done(c) /\ stopped' = {}
     \/ At(c, "write_flag") /\ stopped' = stopped
  /\ UNCHANGED <<alive, registry, status, flag, phase, home, stray>>
CheckExternalEffect(c) ==
  /\ Up(c) /\ pc(c) = "external"
  /\ \/ status = Nobody /\ At(c, "check_claim") /\ stopped' = stopped
     \/ Done(c) /\ stopped' = {}
     \/ status # Nobody /\ ~alive[status] /\ At(c, "clear_stale") /\ stopped' = stopped
  /\ UNCHANGED <<alive, registry, status, flag, phase, home, overlap, stray>>
CheckClaimEffect(c) ==
  /\ Up(c) /\ pc(c) = "check_claim"
  /\ \/ Done(c) /\ stopped' = {}
     \/ At(c, "claim") /\ stopped' = stopped
  /\ UNCHANGED <<alive, registry, status, flag, phase, home, overlap, stray>>
SpawnEffect(c) ==
  /\ Up(c) /\ pc(c) = "spawn"
  /\ flag' = FALSE
  /\ \E w \in Watchers :
       /\ phase[w] = "none" /\ home' = [home EXCEPT ![w] = Home[c]]
       /\ \/ /\ phase' = [phase EXCEPT ![w] = "open"]
             /\ Others(c) /\ call'[c].pc = "register" /\ call'[c].watcher = w
             /\ call'[c].asked = call[c].asked /\ stopped' = stopped
          \/ /\ phase' = [phase EXCEPT ![w] = "closing"]
             /\ Done(c) /\ stopped' = {}
  /\ UNCHANGED <<alive, registry, status, overlap, stray>>
RegisterEffect(c) ==
  /\ Up(c) /\ pc(c) = "register"
  /\ registry' = [registry EXCEPT ![Home[c]] = call[c].watcher] /\ Done(c) /\ stopped' = {}
  /\ LET old == registry[Home[c]]
     IN \/ old = None /\ UNCHANGED <<status, phase, stray>>
        \/ old \in Watchers /\ Dropped(old)
  /\ UNCHANGED <<alive, flag, home, overlap>>
WriteFlagEffect(c) ==
  /\ Up(c) /\ pc(c) = "write_flag"
  /\ flag' = TRUE
  /\ Others(c) /\ call'[c].pc = "polling" /\ call'[c].watcher = call[c].watcher
  /\ call'[c].asked = {w \in Watchers : Running(w)}
  /\ UNCHANGED <<alive, registry, status, phase, home, overlap, stopped, stray>>

\* What a call that begins sees of the others.
LEMMA BeginFacts ==
  ASSUME LifecycleTypeOK, NEW c \in Calls, Begins(c)
  PROVE  Began(c)
<1>1. Up(c) /\ pc(c) = "idle" /\ overlap' \in BOOLEAN
  BY DEF Begins
<1>2. ASSUME ~overlap' PROVE /\ ~overlap
                            /\ \A d \in Calls \ {c} : ~(pc(d) # "idle" /\ Up(d))
                            /\ \A w \in Watchers : phase[w] # "closing"
  BY <1>2 DEF Begins
<1>3. \A d \in Calls : ~Up(d) => pc(d) = "idle"
  BY DEF LifecycleTypeOK
<1>4. ASSUME ~overlap', NEW d \in Calls PROVE pc(d) = "idle"
  BY <1>1, <1>2, <1>3, <1>4
<1>5. ~overlap' => /\ ~overlap
                  /\ \A d \in Calls : pc(d) = "idle"
                  /\ \A w \in Watchers : phase[w] # "closing"
  <2>1. CASE overlap'
    BY <2>1
  <2>2. CASE ~overlap'
    <3>1. \A d \in Calls : pc(d) = "idle"
      BY <2>2, <1>4
    <3>2. ~overlap /\ \A w \in Watchers : phase[w] # "closing"
      BY <2>2 DEF Begins, LifecycleTypeOK
    <3> QED
      BY <3>1, <3>2
  <2> QED
    BY <2>1, <2>2
<1> QED
  BY <1>1, <1>5, Zenon DEF Began

\* A call moves on, returns, or drops a watcher.
LEMMA NoneIsNoWatcher == None \notin Watchers
  BY LifecycleAssumption DEF None, Watchers

LEMMA GoFacts ==
  ASSUME LifecycleTypeOK, NEW c \in Calls, NEW next \in Stages, Go(c, next)
  PROVE  At(c, next)
<1>1. call' = [call EXCEPT ![c] = [call[c] EXCEPT !.pc = next]]
  BY DEF Go
<1>2. call \in [Calls -> Rec] /\ call[c] \in Rec /\ [call[c] EXCEPT !.pc = next] \in Rec
  BY DEF LifecycleTypeOK, Rec
<1> QED
  BY <1>1, <1>2 DEF At, Others, Rec

LEMMA StoppedFacts ==
  ASSUME LifecycleTypeOK, NEW c \in Calls, NEW those, Stopped(c, those)
  PROVE  Done(c) /\ stopped' = those
<1>1. NoCall \in Rec /\ NoCall.pc = "idle" /\ NoCall.asked = {}
  BY DEF NoCall, Rec, Stages, None
<1>2. call' = [call EXCEPT ![c] = NoCall] /\ stopped' = those
  BY DEF Stopped
<1>3. call \in [Calls -> Rec]
  BY DEF LifecycleTypeOK, Rec
<1> QED
  BY <1>1, <1>2, <1>3 DEF Done, Others

LEMMA ReturnFacts ==
  ASSUME LifecycleTypeOK, NEW c \in Calls, Returns(c)
  PROVE  Done(c) /\ stopped' = {}
  BY StoppedFacts DEF Returns, Stopped

LEMMA DropFacts ==
  ASSUME LifecycleTypeOK, NEW w \in Watchers, DropWatcher(w)
  PROVE  Dropped(w)
<1>1. phase \in [Watchers -> {"none", "open", "closing", "ended"}] /\ stray \in BOOLEAN
  BY DEF LifecycleTypeOK
<1>2. stray' \in BOOLEAN /\ (~stray' => ~stray /\ Running(w))
  BY <1>1 DEF DropWatcher
<1> QED
  BY <1>1, <1>2 DEF DropWatcher, Dropped

LEMMA WatchFacts ==
  ASSUME LifecycleTypeOK, NEW c \in Calls, Watch(c)
  PROVE  WatchEffect(c)
<1> USE DEF WatchEffect
<1> QED
  BY BeginFacts, GoFacts, ReturnFacts, StoppedFacts DEF Watch, files, loops, Stages

LEMMA StopFacts ==
  ASSUME LifecycleTypeOK, NEW c \in Calls, Stop(c)
  PROVE  StopEffect(c)
<1> USE DEF StopEffect
<1>1. registry[Home[c]] \in Watchers \cup {None}
  BY LifecycleAssumption DEF LifecycleTypeOK
<1>2. Began(c) /\ registry' = [registry EXCEPT ![Home[c]] = None] /\ UNCHANGED <<alive, flag, home>>
  BY BeginFacts DEF Stop
<1>3. CASE registry[Home[c]] = None
  BY <1>2, <1>3, ReturnFacts DEF Stop
<1>4. CASE registry[Home[c]] # None
  BY <1>1, <1>2, <1>4, StoppedFacts, DropFacts DEF Stop
<1> QED
  BY <1>3, <1>4

LEMMA ExternalStopFacts ==
  ASSUME LifecycleTypeOK, NEW c \in Calls, ExternalStop(c)
  PROVE  ExternalStopEffect(c)
<1> USE DEF ExternalStopEffect
<1> QED
  BY BeginFacts, GoFacts, ReturnFacts, StoppedFacts DEF ExternalStop, files, loops, Stages

LEMMA CheckExternalFacts ==
  ASSUME LifecycleTypeOK, NEW c \in Calls, CheckExternal(c)
  PROVE  CheckExternalEffect(c)
<1> USE DEF CheckExternalEffect
<1> QED
  BY GoFacts, ReturnFacts, StoppedFacts DEF CheckExternal, Continues, files, loops, Stages

LEMMA CheckClaimFacts ==
  ASSUME LifecycleTypeOK, NEW c \in Calls, CheckClaim(c)
  PROVE  CheckClaimEffect(c)
<1> USE DEF CheckClaimEffect
<1> QED
  BY GoFacts, ReturnFacts, StoppedFacts DEF CheckClaim, Continues, files, loops, Stages

LEMMA SpawnFacts ==
  ASSUME LifecycleTypeOK, NEW c \in Calls, Spawn(c)
  PROVE  SpawnEffect(c)
<1> USE DEF SpawnEffect
<1>0. Up(c) /\ pc(c) = "spawn" /\ flag' = FALSE /\ UNCHANGED <<alive, registry, status, overlap, stray>>
  BY DEF Spawn, Continues
<1>1. PICK w \in Watchers :
        /\ phase[w] = "none" /\ home' = [home EXCEPT ![w] = Home[c]]
        /\ \/ /\ phase' = [phase EXCEPT ![w] = "open"]
              /\ call' = [call EXCEPT ![c].pc = "register", ![c].watcher = w]
              /\ UNCHANGED stopped
           \/ phase' = [phase EXCEPT ![w] = "closing"] /\ Returns(c)
  BY DEF Spawn
<1>2. CASE phase' = [phase EXCEPT ![w] = "closing"] /\ Returns(c)
  BY <1>0, <1>1, <1>2, ReturnFacts
<1>3. CASE /\ phase' = [phase EXCEPT ![w] = "open"]
           /\ call' = [call EXCEPT ![c].pc = "register", ![c].watcher = w]
           /\ UNCHANGED stopped
  <2>1. call' = [call EXCEPT ![c] = [call[c] EXCEPT !.pc = "register", !.watcher = w]]
    BY <1>3
  <2>2. call \in [Calls -> Rec] /\ call[c] \in Rec
        /\ [call[c] EXCEPT !.pc = "register", !.watcher = w] \in Rec
    BY ZenonT(60) DEF LifecycleTypeOK, Rec, Stages
  <2>3. Others(c) /\ call'[c].pc = "register" /\ call'[c].watcher = w /\ call'[c].asked = call[c].asked
    BY <2>1, <2>2 DEF Others, Rec
  <2> QED
    BY <1>0, <1>1, <1>3, <2>3
<1> QED
  BY <1>1, <1>2, <1>3

LEMMA RegisterFacts ==
  ASSUME LifecycleTypeOK, NEW c \in Calls, Register(c)
  PROVE  RegisterEffect(c)
<1> USE DEF RegisterEffect
<1>1. registry[Home[c]] \in Watchers \cup {None}
  BY LifecycleAssumption DEF LifecycleTypeOK
<1>2. /\ Up(c) /\ pc(c) = "register" /\ registry' = [registry EXCEPT ![Home[c]] = call[c].watcher]
      /\ Done(c) /\ stopped' = {} /\ UNCHANGED <<alive, flag, home, overlap>>
  BY ReturnFacts DEF Register, Continues
<1>3. CASE registry[Home[c]] = None
  BY <1>2, <1>3 DEF Register
<1>4. CASE registry[Home[c]] # None
  BY <1>1, <1>2, <1>4, DropFacts DEF Register
<1> QED
  BY <1>3, <1>4

LEMMA WriteFlagFacts ==
  ASSUME LifecycleTypeOK, NEW c \in Calls, WriteFlag(c)
  PROVE  WriteFlagEffect(c)
<1> USE DEF WriteFlagEffect
<1> DEFINE those == {w \in Watchers : Running(w)}
<1>1. call' = [call EXCEPT ![c] = [call[c] EXCEPT !.pc = "polling", !.asked = those]]
  BY DEF WriteFlag
<1>2. those \in SUBSET Watchers
  OBVIOUS
<1> HIDE DEF those
<1>3. call \in [Calls -> Rec] /\ call[c] \in Rec
      /\ [call[c] EXCEPT !.pc = "polling", !.asked = those] \in Rec
  BY <1>2, ZenonT(60) DEF LifecycleTypeOK, Rec, Stages
<1>4. Up(c) /\ pc(c) = "write_flag" /\ flag' = TRUE /\ UNCHANGED <<alive, registry, status, phase, home, overlap, stopped, stray>>
  BY DEF WriteFlag, Continues, loops
<1>5. Others(c) /\ call'[c].pc = "polling" /\ call'[c].watcher = call[c].watcher /\ call'[c].asked = those
  BY <1>1, <1>3 DEF Others, Rec
<1> QED
  BY <1>4, <1>5 DEF those

LEMMA TypeStep ==
  ASSUME LifecycleTypeOK, Owners, [LifecycleNext]_lifecycleVars
  PROVE  LifecycleTypeOK'
<1> USE LifecycleAssumption, NoneIsNoWatcher
<1>1. ASSUME NEW c \in Calls, Watch(c) PROVE LifecycleTypeOK'
  <2>1. WatchEffect(c)
    BY <1>1, WatchFacts
  <2> QED
    BY <2>1 DEF WatchEffect, At, Done, Others, Began, Dropped, Running, pc, LifecycleTypeOK, Stages, Rec,
       Nobody, Up
<1>2. ASSUME NEW c \in Calls, Stop(c) PROVE LifecycleTypeOK'
  <2>1. StopEffect(c)
    BY <1>2, StopFacts
  <2> QED
    BY <2>1 DEF StopEffect, At, Done, Others, Began, Dropped, Running, pc, LifecycleTypeOK, Stages, Rec,
       Nobody, Up
<1>3. ASSUME NEW c \in Calls, ExternalStop(c) PROVE LifecycleTypeOK'
  <2>1. ExternalStopEffect(c)
    BY <1>3, ExternalStopFacts
  <2> QED
    BY <2>1 DEF ExternalStopEffect, At, Done, Others, Began, Dropped, Running, pc, LifecycleTypeOK,
       Stages, Rec, Nobody, Up
<1>4. ASSUME NEW c \in Calls, CheckExternal(c) PROVE LifecycleTypeOK'
  <2>1. CheckExternalEffect(c)
    BY <1>4, CheckExternalFacts
  <2> QED
    BY <2>1 DEF CheckExternalEffect, At, Done, Others, Began, Dropped, Running, pc, LifecycleTypeOK,
       Stages, Rec, Nobody, Up
<1>5. ASSUME NEW c \in Calls, ClearStale(c) PROVE LifecycleTypeOK'
  BY <1>5 DEF ClearStale, Continues, Up, Go, Nobody, loops, pc, LifecycleTypeOK, Stages, Rec
<1>6. ASSUME NEW c \in Calls, CheckClaim(c) PROVE LifecycleTypeOK'
  <2>1. CheckClaimEffect(c)
    BY <1>6, CheckClaimFacts
  <2> QED
    BY <2>1 DEF CheckClaimEffect, At, Done, Others, Began, Dropped, Running, pc, LifecycleTypeOK, Stages,
       Rec, Nobody, Up
<1>7. ASSUME NEW c \in Calls, Claim(c) PROVE LifecycleTypeOK'
  BY <1>7 DEF Claim, Continues, Up, Go, loops, pc, LifecycleTypeOK, Stages, Rec, Nobody
<1>8. ASSUME NEW c \in Calls, Spawn(c) PROVE LifecycleTypeOK'
  <2>1. SpawnEffect(c)
    BY <1>8, SpawnFacts
  <2>2. alive' \in [Processes -> BOOLEAN] /\ registry' \in [Processes -> Watchers \cup {None}]
    BY <2>1 DEF SpawnEffect, At, Done, Others, Began, Dropped, Nobody, Up, pc, Rec, Stages,
       LifecycleTypeOK
  <2>3. \A p \in Processes : registry'[p] # None => home'[registry'[p]] = p
    BY <2>1 DEF SpawnEffect, At, Done, Others, Began, Dropped, Nobody, Up, pc, Rec, Stages,
       LifecycleTypeOK
  <2>4. status' \in Processes \cup {Nobody} /\ flag' \in BOOLEAN
    BY <2>1 DEF SpawnEffect, At, Done, Others, Began, Dropped, Nobody, Up, pc, Rec, Stages,
       LifecycleTypeOK
  <2>5. phase' \in [Watchers -> {"none", "open", "closing", "ended"}] /\ home' \in [Watchers -> Processes \cup {Nobody}]
    BY <2>1 DEF SpawnEffect, At, Done, Others, Began, Dropped, Nobody, Up, pc, Rec, Stages,
       LifecycleTypeOK
  <2>6. \A w \in Watchers : phase'[w] = "none" <=> home'[w] = Nobody
    BY <2>1 DEF SpawnEffect, At, Done, Others, Began, Dropped, Nobody, Up, pc, Rec, Stages,
       LifecycleTypeOK
  <2>7. \A d \in Calls : ~Up(d)' => call'[d].pc = "idle"
    BY <2>1 DEF SpawnEffect, At, Done, Others, Began, Dropped, Nobody, Up, pc, Rec, Stages,
       LifecycleTypeOK
  <2>8. call' \in [Calls -> Rec]
    BY <2>1 DEF SpawnEffect, At, Done, Others, Began, Dropped, Nobody, Up, pc, Rec, Stages,
       LifecycleTypeOK
  <2>9. overlap' \in BOOLEAN /\ stray' \in BOOLEAN
    BY <2>1 DEF SpawnEffect, At, Done, Others, Began, Dropped, Nobody, Up, pc, Rec, Stages,
       LifecycleTypeOK
  <2> QED
    BY <2>2, <2>3, <2>4, <2>5, <2>6, <2>7, <2>8, <2>9 DEF LifecycleTypeOK, Rec, Up, pc
<1>9. ASSUME NEW c \in Calls, Register(c) PROVE LifecycleTypeOK'
  <2>1. RegisterEffect(c)
    BY <1>9, RegisterFacts
  <2>2. alive' \in [Processes -> BOOLEAN] /\ registry' \in [Processes -> Watchers \cup {None}]
    BY <2>1 DEF RegisterEffect, At, Done, Others, Began, Dropped, Nobody, Up, pc, Rec, Stages,
       LifecycleTypeOK, Owners, RegistersOwn
  <2>3. \A p \in Processes : registry'[p] # None => home'[registry'[p]] = p
    BY <2>1 DEF RegisterEffect, At, Done, Others, Began, Dropped, Nobody, Up, pc, Rec, Stages,
       LifecycleTypeOK, Owners, RegistersOwn
  <2>4. status' \in Processes \cup {Nobody} /\ flag' \in BOOLEAN
    BY <2>1 DEF RegisterEffect, At, Done, Others, Began, Dropped, Nobody, Up, pc, Rec, Stages,
       LifecycleTypeOK, Owners, RegistersOwn
  <2>5. phase' \in [Watchers -> {"none", "open", "closing", "ended"}] /\ home' \in [Watchers -> Processes \cup {Nobody}]
    BY <2>1 DEF RegisterEffect, At, Done, Others, Began, Dropped, Nobody, Up, pc, Rec, Stages,
       LifecycleTypeOK, Owners, RegistersOwn
  <2>6. \A w \in Watchers : phase'[w] = "none" <=> home'[w] = Nobody
    BY <2>1 DEF RegisterEffect, At, Done, Others, Began, Dropped, Nobody, Up, pc, Rec, Stages,
       LifecycleTypeOK, Owners, RegistersOwn
  <2>7. \A d \in Calls : ~Up(d)' => call'[d].pc = "idle"
    BY <2>1 DEF RegisterEffect, At, Done, Others, Began, Dropped, Nobody, Up, pc, Rec, Stages,
       LifecycleTypeOK, Owners, RegistersOwn
  <2>8. call' \in [Calls -> Rec]
    BY <2>1 DEF RegisterEffect, At, Done, Others, Began, Dropped, Nobody, Up, pc, Rec, Stages,
       LifecycleTypeOK, Owners, RegistersOwn
  <2>9. overlap' \in BOOLEAN /\ stray' \in BOOLEAN
    BY <2>1 DEF RegisterEffect, At, Done, Others, Began, Dropped, Nobody, Up, pc, Rec, Stages,
       LifecycleTypeOK, Owners, RegistersOwn
  <2> QED
    BY <2>2, <2>3, <2>4, <2>5, <2>6, <2>7, <2>8, <2>9 DEF LifecycleTypeOK, Rec, Up, pc
<1>10. ASSUME NEW c \in Calls, WriteFlag(c) PROVE LifecycleTypeOK'
  <2>1. WriteFlagEffect(c)
    BY <1>10, WriteFlagFacts
  <2> QED
    BY <2>1 DEF WriteFlagEffect, At, Done, Others, Began, Dropped, Running, pc, LifecycleTypeOK, Stages,
       Rec, Nobody, Up
<1>11. ASSUME NEW c \in Calls, SeesStopped(c) PROVE LifecycleTypeOK'
  BY <1>11 DEF SeesStopped, Continues, Up, Stopped, NoCall, None, Nobody, files, loops, pc,
     LifecycleTypeOK, Stages, Rec
<1>12. ASSUME NEW c \in Calls, StopTimesOut(c) PROVE LifecycleTypeOK'
  BY <1>12 DEF StopTimesOut, Continues, Up, Returns, NoCall, None, files, loops, pc, LifecycleTypeOK,
     Stages, Rec, Nobody
<1>13. ASSUME NEW w \in Watchers, SeeFlag(w) PROVE LifecycleTypeOK'
  BY <1>13 DEF SeeFlag, Running, history, pc, LifecycleTypeOK, Stages, Rec, Nobody, Up
<1>14. ASSUME NEW w \in Watchers, EndLoop(w) PROVE LifecycleTypeOK'
  BY <1>14 DEF EndLoop, Nobody, loops, history, pc, LifecycleTypeOK, Stages, Rec, Up
<1>15. ASSUME NEW p \in Processes, Crash(p) PROVE LifecycleTypeOK'
  BY <1>15 DEF Crash, NoCall, None, files, history, pc, LifecycleTypeOK, Stages, Rec, Nobody, Up
<1>16. CASE UNCHANGED lifecycleVars
  BY <1>16 DEF lifecycleVars, files, loops, history, pc, Running, Up, LifecycleTypeOK, Stages, Rec, Nobody
<1> QED
  BY <1>1, <1>2, <1>3, <1>4, <1>5, <1>6, <1>7, <1>8, <1>9, <1>10, <1>11, <1>12, <1>13, <1>14,
     <1>15, <1>16 DEF LifecycleNext, CallStep, LoopStep

LEMMA OwnersStep ==
  ASSUME LifecycleTypeOK, Owners, [LifecycleNext]_lifecycleVars
  PROVE  Owners'
<1> USE LifecycleAssumption, NoneIsNoWatcher
<1>1. ASSUME NEW c \in Calls, Watch(c) PROVE Owners'
  <2>1. WatchEffect(c)
    BY <1>1, WatchFacts
  <2> QED
    BY <2>1 DEF WatchEffect, At, Done, Others, Began, Dropped, Running, pc, LifecycleTypeOK, Owners,
       LiveAtHome, RegistersOwn, AskedStarted, StoppedStarted, Live, Nobody, Up
<1>2. ASSUME NEW c \in Calls, Stop(c) PROVE Owners'
  <2>1. StopEffect(c)
    BY <1>2, StopFacts
  <2>2. LiveAtHome'
    BY <2>1 DEF StopEffect, At, Done, Others, Began, Dropped, Live, Running, Nobody, Up, pc,
       LifecycleTypeOK, Owners, LiveAtHome, RegistersOwn, AskedStarted, StoppedStarted
  <2>3. RegistersOwn'
    BY <2>1 DEF StopEffect, At, Done, Others, Began, Dropped, Live, Running, Nobody, Up, pc,
       LifecycleTypeOK, Owners, LiveAtHome, RegistersOwn, AskedStarted, StoppedStarted
  <2>4. AskedStarted'
    BY <2>1 DEF StopEffect, At, Done, Others, Began, Dropped, Live, Running, Nobody, Up, pc,
       LifecycleTypeOK, Owners, LiveAtHome, RegistersOwn, AskedStarted, StoppedStarted
  <2>5. StoppedStarted'
    BY <2>1 DEF StopEffect, At, Done, Others, Began, Dropped, Live, Running, Nobody, Up, pc,
       LifecycleTypeOK, Owners, LiveAtHome, RegistersOwn, AskedStarted, StoppedStarted
  <2> QED
    BY <2>2, <2>3, <2>4, <2>5 DEF Owners
<1>3. ASSUME NEW c \in Calls, ExternalStop(c) PROVE Owners'
  <2>1. ExternalStopEffect(c)
    BY <1>3, ExternalStopFacts
  <2> QED
    BY <2>1 DEF ExternalStopEffect, At, Done, Others, Began, Dropped, Running, pc, LifecycleTypeOK,
       Owners, LiveAtHome, RegistersOwn, AskedStarted, StoppedStarted, Live, Nobody, Up
<1>4. ASSUME NEW c \in Calls, CheckExternal(c) PROVE Owners'
  <2>1. CheckExternalEffect(c)
    BY <1>4, CheckExternalFacts
  <2> QED
    BY <2>1 DEF CheckExternalEffect, At, Done, Others, Began, Dropped, Running, pc, LifecycleTypeOK,
       Owners, LiveAtHome, RegistersOwn, AskedStarted, StoppedStarted, Live, Nobody, Up
<1>5. ASSUME NEW c \in Calls, ClearStale(c) PROVE Owners'
  BY <1>5 DEF ClearStale, Continues, Up, Go, Nobody, loops, pc, LifecycleTypeOK, Owners, LiveAtHome,
     RegistersOwn, AskedStarted, StoppedStarted, Live
<1>6. ASSUME NEW c \in Calls, CheckClaim(c) PROVE Owners'
  <2>1. CheckClaimEffect(c)
    BY <1>6, CheckClaimFacts
  <2>2. LiveAtHome'
    BY <2>1 DEF CheckClaimEffect, At, Done, Others, Began, Dropped, Live, Running, Nobody, Up,
       pc, LifecycleTypeOK, Owners, LiveAtHome, RegistersOwn, AskedStarted, StoppedStarted
  <2>3. RegistersOwn'
    BY <2>1 DEF CheckClaimEffect, At, Done, Others, Began, Dropped, Live, Running, Nobody, Up,
       pc, LifecycleTypeOK, Owners, LiveAtHome, RegistersOwn, AskedStarted, StoppedStarted
  <2>4. AskedStarted'
    BY <2>1 DEF CheckClaimEffect, At, Done, Others, Began, Dropped, Live, Running, Nobody, Up,
       pc, LifecycleTypeOK, Owners, LiveAtHome, RegistersOwn, AskedStarted, StoppedStarted
  <2>5. StoppedStarted'
    BY <2>1 DEF CheckClaimEffect, At, Done, Others, Began, Dropped, Live, Running, Nobody, Up,
       pc, LifecycleTypeOK, Owners, LiveAtHome, RegistersOwn, AskedStarted, StoppedStarted
  <2> QED
    BY <2>2, <2>3, <2>4, <2>5 DEF Owners
<1>7. ASSUME NEW c \in Calls, Claim(c) PROVE Owners'
  BY <1>7 DEF Claim, Continues, Up, Go, loops, pc, LifecycleTypeOK, Owners, LiveAtHome, RegistersOwn,
     AskedStarted, StoppedStarted, Live, Nobody
<1>8. ASSUME NEW c \in Calls, Spawn(c) PROVE Owners'
  <2>1. SpawnEffect(c)
    BY <1>8, SpawnFacts
  <2>2. LiveAtHome'
    BY <2>1 DEF SpawnEffect, At, Done, Others, Began, Dropped, Live, Running, Nobody, Up, pc,
       LifecycleTypeOK, Owners, LiveAtHome, RegistersOwn, AskedStarted, StoppedStarted
  <2>3. RegistersOwn'
    BY <2>1 DEF SpawnEffect, At, Done, Others, Began, Dropped, Live, Running, Nobody, Up, pc,
       LifecycleTypeOK, Owners, LiveAtHome, RegistersOwn, AskedStarted, StoppedStarted
  <2>4. AskedStarted'
    BY <2>1 DEF SpawnEffect, At, Done, Others, Began, Dropped, Live, Running, Nobody, Up, pc,
       LifecycleTypeOK, Owners, LiveAtHome, RegistersOwn, AskedStarted, StoppedStarted
  <2>5. StoppedStarted'
    BY <2>1 DEF SpawnEffect, At, Done, Others, Began, Dropped, Live, Running, Nobody, Up, pc,
       LifecycleTypeOK, Owners, LiveAtHome, RegistersOwn, AskedStarted, StoppedStarted
  <2> QED
    BY <2>2, <2>3, <2>4, <2>5 DEF Owners
<1>9. ASSUME NEW c \in Calls, Register(c) PROVE Owners'
  <2>1. RegisterEffect(c)
    BY <1>9, RegisterFacts
  <2> QED
    BY <2>1, SMTT(60) DEF RegisterEffect, At, Done, Others, Began, Dropped, Running, pc, LifecycleTypeOK, Owners,
       LiveAtHome, RegistersOwn, AskedStarted, StoppedStarted, Live, Nobody, Up
<1>10. ASSUME NEW c \in Calls, WriteFlag(c) PROVE Owners'
  <2>1. WriteFlagEffect(c)
    BY <1>10, WriteFlagFacts
  <2>2. LiveAtHome'
    BY <2>1 DEF WriteFlagEffect, At, Done, Others, Began, Dropped, Live, Running, Nobody, Up,
       pc, LifecycleTypeOK, Owners, LiveAtHome, RegistersOwn, AskedStarted, StoppedStarted
  <2>3. RegistersOwn'
    BY <2>1 DEF WriteFlagEffect, At, Done, Others, Began, Dropped, Live, Running, Nobody, Up,
       pc, LifecycleTypeOK, Owners, LiveAtHome, RegistersOwn, AskedStarted, StoppedStarted
  <2>4. AskedStarted'
    BY <2>1 DEF WriteFlagEffect, At, Done, Others, Began, Dropped, Live, Running, Nobody, Up,
       pc, LifecycleTypeOK, Owners, LiveAtHome, RegistersOwn, AskedStarted, StoppedStarted
  <2>5. StoppedStarted'
    BY <2>1 DEF WriteFlagEffect, At, Done, Others, Began, Dropped, Live, Running, Nobody, Up,
       pc, LifecycleTypeOK, Owners, LiveAtHome, RegistersOwn, AskedStarted, StoppedStarted
  <2> QED
    BY <2>2, <2>3, <2>4, <2>5 DEF Owners
<1>11. ASSUME NEW c \in Calls, SeesStopped(c) PROVE Owners'
  BY <1>11 DEF SeesStopped, Continues, Up, Stopped, NoCall, None, Nobody, files, loops, pc,
     LifecycleTypeOK, Owners, LiveAtHome, RegistersOwn, AskedStarted, StoppedStarted, Live
<1>12. ASSUME NEW c \in Calls, StopTimesOut(c) PROVE Owners'
  BY <1>12 DEF StopTimesOut, Continues, Up, Returns, NoCall, None, files, loops, pc, LifecycleTypeOK,
     Owners, LiveAtHome, RegistersOwn, AskedStarted, StoppedStarted, Live, Nobody
<1>13. ASSUME NEW w \in Watchers, SeeFlag(w) PROVE Owners'
  BY <1>13 DEF SeeFlag, Running, history, pc, LifecycleTypeOK, Owners, LiveAtHome, RegistersOwn,
     AskedStarted, StoppedStarted, Live, Nobody, Up
<1>14. ASSUME NEW w \in Watchers, EndLoop(w) PROVE Owners'
  BY <1>14 DEF EndLoop, Nobody, loops, history, pc, LifecycleTypeOK, Owners, LiveAtHome, RegistersOwn,
     AskedStarted, StoppedStarted, Live, Up
<1>15. ASSUME NEW p \in Processes, Crash(p) PROVE Owners'
  BY <1>15 DEF Crash, NoCall, None, files, history, pc, LifecycleTypeOK, Owners, LiveAtHome,
     RegistersOwn, AskedStarted, StoppedStarted, Live, Nobody, Up
<1>16. CASE UNCHANGED lifecycleVars
  BY <1>16 DEF lifecycleVars, files, loops, history, pc, Running, Up, LifecycleTypeOK, Owners, LiveAtHome,
     RegistersOwn, AskedStarted, StoppedStarted, Live, Nobody
<1> QED
  BY <1>1, <1>2, <1>3, <1>4, <1>5, <1>6, <1>7, <1>8, <1>9, <1>10, <1>11, <1>12, <1>13, <1>14,
     <1>15, <1>16 DEF LifecycleNext, CallStep, LoopStep

LEMMA HandleStep ==
  ASSUME LifecycleTypeOK, Owners, NoLeakedWatcher, [LifecycleNext]_lifecycleVars
  PROVE  NoLeakedWatcher'
<1> USE LifecycleAssumption, NoneIsNoWatcher
<1>1. ASSUME NEW c \in Calls, Watch(c) PROVE NoLeakedWatcher'
  <2>1. WatchEffect(c)
    BY <1>1, WatchFacts
  <2> QED
    BY <2>1 DEF WatchEffect, At, Done, Others, Began, Dropped, Running, pc, LifecycleTypeOK, Owners,
       LiveAtHome, RegistersOwn, AskedStarted, StoppedStarted, Live, NoLeakedWatcher, Nobody, Up
<1>2. ASSUME NEW c \in Calls, Stop(c) PROVE NoLeakedWatcher'
  <2>1. StopEffect(c)
    BY <1>2, StopFacts
  <2> QED
    BY <2>1, SMTT(60) DEF StopEffect, At, Done, Others, Began, Dropped, Running, pc, LifecycleTypeOK, Owners,
       LiveAtHome, RegistersOwn, AskedStarted, StoppedStarted, Live, NoLeakedWatcher, Nobody, Up
<1>3. ASSUME NEW c \in Calls, ExternalStop(c) PROVE NoLeakedWatcher'
  <2>1. ExternalStopEffect(c)
    BY <1>3, ExternalStopFacts
  <2> QED
    BY <2>1 DEF ExternalStopEffect, At, Done, Others, Began, Dropped, Running, pc, LifecycleTypeOK,
       Owners, LiveAtHome, RegistersOwn, AskedStarted, StoppedStarted, Live, NoLeakedWatcher,
       Nobody, Up
<1>4. ASSUME NEW c \in Calls, CheckExternal(c) PROVE NoLeakedWatcher'
  <2>1. CheckExternalEffect(c)
    BY <1>4, CheckExternalFacts
  <2> QED
    BY <2>1 DEF CheckExternalEffect, At, Done, Others, Began, Dropped, Running, pc, LifecycleTypeOK,
       Owners, LiveAtHome, RegistersOwn, AskedStarted, StoppedStarted, Live, NoLeakedWatcher,
       Nobody, Up
<1>5. ASSUME NEW c \in Calls, ClearStale(c) PROVE NoLeakedWatcher'
  BY <1>5 DEF ClearStale, Continues, Up, Go, Nobody, loops, pc, LifecycleTypeOK, Owners, LiveAtHome,
     RegistersOwn, AskedStarted, StoppedStarted, Live, NoLeakedWatcher, Running
<1>6. ASSUME NEW c \in Calls, CheckClaim(c) PROVE NoLeakedWatcher'
  <2>1. CheckClaimEffect(c)
    BY <1>6, CheckClaimFacts
  <2> QED
    BY <2>1 DEF CheckClaimEffect, At, Done, Others, Began, Dropped, Running, pc, LifecycleTypeOK, Owners,
       LiveAtHome, RegistersOwn, AskedStarted, StoppedStarted, Live, NoLeakedWatcher, Nobody, Up
<1>7. ASSUME NEW c \in Calls, Claim(c) PROVE NoLeakedWatcher'
  BY <1>7 DEF Claim, Continues, Up, Go, loops, pc, LifecycleTypeOK, Owners, LiveAtHome, RegistersOwn,
     AskedStarted, StoppedStarted, Live, NoLeakedWatcher, Running, Nobody
<1>8. ASSUME NEW c \in Calls, Spawn(c) PROVE NoLeakedWatcher'
  <2>1. SpawnEffect(c)
    BY <1>8, SpawnFacts
  <2> QED
    BY <2>1 DEF SpawnEffect, At, Done, Others, Began, Dropped, Running, pc, LifecycleTypeOK, Owners,
       LiveAtHome, RegistersOwn, AskedStarted, StoppedStarted, Live, NoLeakedWatcher, Nobody, Up
<1>9. ASSUME NEW c \in Calls, Register(c) PROVE NoLeakedWatcher'
  <2>1. RegisterEffect(c)
    BY <1>9, RegisterFacts
  <2> QED
    BY <2>1 DEF RegisterEffect, At, Done, Others, Began, Dropped, Running, pc, LifecycleTypeOK, Owners,
       LiveAtHome, RegistersOwn, AskedStarted, StoppedStarted, Live, NoLeakedWatcher, Nobody, Up
<1>10. ASSUME NEW c \in Calls, WriteFlag(c) PROVE NoLeakedWatcher'
  <2>1. WriteFlagEffect(c)
    BY <1>10, WriteFlagFacts
  <2> QED
    BY <2>1 DEF WriteFlagEffect, At, Done, Others, Began, Dropped, Running, pc, LifecycleTypeOK, Owners,
       LiveAtHome, RegistersOwn, AskedStarted, StoppedStarted, Live, NoLeakedWatcher, Nobody, Up
<1>11. ASSUME NEW c \in Calls, SeesStopped(c) PROVE NoLeakedWatcher'
  BY <1>11 DEF SeesStopped, Continues, Up, Stopped, NoCall, None, Nobody, files, loops, pc,
     LifecycleTypeOK, Owners, LiveAtHome, RegistersOwn, AskedStarted, StoppedStarted, Live,
     NoLeakedWatcher, Running
<1>12. ASSUME NEW c \in Calls, StopTimesOut(c) PROVE NoLeakedWatcher'
  BY <1>12 DEF StopTimesOut, Continues, Up, Returns, NoCall, None, files, loops, pc, LifecycleTypeOK,
     Owners, LiveAtHome, RegistersOwn, AskedStarted, StoppedStarted, Live, NoLeakedWatcher,
     Running, Nobody
<1>13. ASSUME NEW w \in Watchers, SeeFlag(w) PROVE NoLeakedWatcher'
  BY <1>13 DEF SeeFlag, Running, history, pc, LifecycleTypeOK, Owners, LiveAtHome, RegistersOwn,
     AskedStarted, StoppedStarted, Live, NoLeakedWatcher, Nobody, Up
<1>14. ASSUME NEW w \in Watchers, EndLoop(w) PROVE NoLeakedWatcher'
  BY <1>14 DEF EndLoop, Nobody, loops, history, pc, LifecycleTypeOK, Owners, LiveAtHome, RegistersOwn,
     AskedStarted, StoppedStarted, Live, NoLeakedWatcher, Running, Up
<1>15. ASSUME NEW p \in Processes, Crash(p) PROVE NoLeakedWatcher'
  BY <1>15 DEF Crash, NoCall, None, files, history, pc, LifecycleTypeOK, Owners, LiveAtHome,
     RegistersOwn, AskedStarted, StoppedStarted, Live, NoLeakedWatcher, Running, Nobody, Up
<1>16. CASE UNCHANGED lifecycleVars
  BY <1>16 DEF lifecycleVars, files, loops, history, pc, Running, Up, LifecycleTypeOK, Owners, LiveAtHome,
     RegistersOwn, AskedStarted, StoppedStarted, Live, NoLeakedWatcher, Nobody
<1> QED
  BY <1>1, <1>2, <1>3, <1>4, <1>5, <1>6, <1>7, <1>8, <1>9, <1>10, <1>11, <1>12, <1>13, <1>14,
     <1>15, <1>16 DEF LifecycleNext, CallStep, LoopStep

LEMMA TurnStep ==
  ASSUME LifecycleTypeOK, Owners, InTurn, [LifecycleNext]_lifecycleVars
  PROVE  InTurn'
<1> USE LifecycleAssumption, NoneIsNoWatcher
<1>1. ASSUME NEW c \in Calls, Watch(c) PROVE InTurn'
  <2> SUFFICES ASSUME ~overlap', ~stray' PROVE Turn'
    BY DEF InTurn
  <2>0. WatchEffect(c)
    BY <1>1, WatchFacts
  <2>1. Turn /\ Owners /\ LifecycleTypeOK
    BY <2>0 DEF InTurn, WatchEffect, At, Done, Others, Began, Dropped
  <2>2. OneCall'
    BY <2>0, <2>1 DEF WatchEffect, At, Done, Others, Began, Dropped, Turn, Owners, LiveAtHome,
       RegistersOwn, AskedStarted, StoppedStarted, LifecycleTypeOK, Live, Starting, Running, Nobody, Up,
       pc, OneCall, OneLoop, FileNames, FileNamesInCall, NoHandleYet, NoLoopYet, Claimed,
       Registering, SaidStopped
  <2>3. OneLoop'
    BY <2>0, <2>1 DEF WatchEffect, At, Done, Others, Began, Dropped, Turn, Owners, LiveAtHome,
       RegistersOwn, AskedStarted, StoppedStarted, LifecycleTypeOK, Live, Starting, Running, Nobody, Up,
       pc, OneCall, OneLoop, FileNames, FileNamesInCall, NoHandleYet, NoLoopYet, Claimed,
       Registering, SaidStopped
  <2>4. FileNames'
    BY <2>0, <2>1 DEF WatchEffect, At, Done, Others, Began, Dropped, Turn, Owners, LiveAtHome,
       RegistersOwn, AskedStarted, StoppedStarted, LifecycleTypeOK, Live, Starting, Running, Nobody, Up,
       pc, OneCall, OneLoop, FileNames, FileNamesInCall, NoHandleYet, NoLoopYet, Claimed,
       Registering, SaidStopped
  <2>5. FileNamesInCall'
    BY <2>0, <2>1 DEF WatchEffect, At, Done, Others, Began, Dropped, Turn, Owners, LiveAtHome,
       RegistersOwn, AskedStarted, StoppedStarted, LifecycleTypeOK, Live, Starting, Running, Nobody, Up,
       pc, OneCall, OneLoop, FileNames, FileNamesInCall, NoHandleYet, NoLoopYet, Claimed,
       Registering, SaidStopped
  <2>6. NoHandleYet'
    BY <2>0, <2>1 DEF WatchEffect, At, Done, Others, Began, Dropped, Turn, NoHandleYet,
       Starting, pc
  <2>7. NoLoopYet'
    BY <2>0, <2>1 DEF WatchEffect, At, Done, Others, Began, Dropped, Turn, Owners, LiveAtHome,
       RegistersOwn, AskedStarted, StoppedStarted, LifecycleTypeOK, Live, Starting, Running, Nobody, Up,
       pc, OneCall, OneLoop, FileNames, FileNamesInCall, NoHandleYet, NoLoopYet, Claimed,
       Registering, SaidStopped
  <2>8. Claimed'
    BY <2>0, <2>1 DEF WatchEffect, At, Done, Others, Began, Dropped, Turn, Owners, LiveAtHome,
       RegistersOwn, AskedStarted, StoppedStarted, LifecycleTypeOK, Live, Starting, Running, Nobody, Up,
       pc, OneCall, OneLoop, FileNames, FileNamesInCall, NoHandleYet, NoLoopYet, Claimed,
       Registering, SaidStopped
  <2>9. Registering'
    BY <2>0, <2>1 DEF WatchEffect, At, Done, Others, Began, Dropped, Turn, Owners, LiveAtHome,
       RegistersOwn, AskedStarted, StoppedStarted, LifecycleTypeOK, Live, Starting, Running, Nobody, Up,
       pc, OneCall, OneLoop, FileNames, FileNamesInCall, NoHandleYet, NoLoopYet, Claimed,
       Registering, SaidStopped
  <2>10. SaidStopped'
    BY <2>0, <2>1 DEF WatchEffect, At, Done, Others, Began, Dropped, Turn, Owners, LiveAtHome,
       RegistersOwn, AskedStarted, StoppedStarted, LifecycleTypeOK, Live, Starting, Running, Nobody, Up,
       pc, OneCall, OneLoop, FileNames, FileNamesInCall, NoHandleYet, NoLoopYet, Claimed,
       Registering, SaidStopped
  <2> QED
    BY <2>2, <2>3, <2>4, <2>5, <2>6, <2>7, <2>8, <2>9, <2>10 DEF Turn
<1>2. ASSUME NEW c \in Calls, Stop(c) PROVE InTurn'
  <2> SUFFICES ASSUME ~overlap', ~stray' PROVE Turn'
    BY DEF InTurn
  <2>0. StopEffect(c)
    BY <1>2, StopFacts
  <2>1. Turn /\ Owners /\ LifecycleTypeOK
    BY <2>0 DEF InTurn, StopEffect, At, Done, Others, Began, Dropped
  <2>2. OneCall'
    BY <2>0, <2>1 DEF StopEffect, At, Done, Others, Began, Dropped, Turn, Owners, LiveAtHome,
       RegistersOwn, AskedStarted, StoppedStarted, LifecycleTypeOK, Live, Starting, Running, Nobody, Up,
       pc, OneCall, OneLoop, FileNames, FileNamesInCall, NoHandleYet, NoLoopYet, Claimed,
       Registering, SaidStopped
  <2>3. OneLoop'
    BY <2>0, <2>1 DEF StopEffect, At, Done, Others, Began, Dropped, Turn, Owners, LiveAtHome,
       RegistersOwn, AskedStarted, StoppedStarted, LifecycleTypeOK, Live, Starting, Running, Nobody, Up,
       pc, OneCall, OneLoop, FileNames, FileNamesInCall, NoHandleYet, NoLoopYet, Claimed,
       Registering, SaidStopped
  <2>4. FileNames'
    BY <2>0, <2>1 DEF StopEffect, At, Done, Others, Began, Dropped, Turn, Owners, LiveAtHome,
       RegistersOwn, AskedStarted, StoppedStarted, LifecycleTypeOK, Live, Starting, Running, Nobody, Up,
       pc, OneCall, OneLoop, FileNames, FileNamesInCall, NoHandleYet, NoLoopYet, Claimed,
       Registering, SaidStopped
  <2>5. FileNamesInCall'
    BY <2>0, <2>1 DEF StopEffect, At, Done, Others, Began, Dropped, Turn, Owners, LiveAtHome,
       RegistersOwn, AskedStarted, StoppedStarted, LifecycleTypeOK, Live, Starting, Running, Nobody, Up,
       pc, OneCall, OneLoop, FileNames, FileNamesInCall, NoHandleYet, NoLoopYet, Claimed,
       Registering, SaidStopped
  <2>6. NoHandleYet'
    BY <2>0, <2>1 DEF StopEffect, At, Done, Others, Began, Dropped, Turn, NoHandleYet, Starting,
       pc
  <2>7. NoLoopYet'
    BY <2>0, <2>1 DEF StopEffect, At, Done, Others, Began, Dropped, Turn, Owners, LiveAtHome,
       RegistersOwn, AskedStarted, StoppedStarted, LifecycleTypeOK, Live, Starting, Running, Nobody, Up,
       pc, OneCall, OneLoop, FileNames, FileNamesInCall, NoHandleYet, NoLoopYet, Claimed,
       Registering, SaidStopped
  <2>8. Claimed'
    BY <2>0, <2>1 DEF StopEffect, At, Done, Others, Began, Dropped, Turn, Owners, LiveAtHome,
       RegistersOwn, AskedStarted, StoppedStarted, LifecycleTypeOK, Live, Starting, Running, Nobody, Up,
       pc, OneCall, OneLoop, FileNames, FileNamesInCall, NoHandleYet, NoLoopYet, Claimed,
       Registering, SaidStopped
  <2>9. Registering'
    BY <2>0, <2>1 DEF StopEffect, At, Done, Others, Began, Dropped, Turn, Owners, LiveAtHome,
       RegistersOwn, AskedStarted, StoppedStarted, LifecycleTypeOK, Live, Starting, Running, Nobody, Up,
       pc, OneCall, OneLoop, FileNames, FileNamesInCall, NoHandleYet, NoLoopYet, Claimed,
       Registering, SaidStopped
  <2>10. SaidStopped'
    BY <2>0, <2>1 DEF StopEffect, At, Done, Others, Began, Dropped, Turn, Owners, LiveAtHome,
       RegistersOwn, AskedStarted, StoppedStarted, LifecycleTypeOK, Live, Starting, Running, Nobody, Up,
       pc, OneCall, OneLoop, FileNames, FileNamesInCall, NoHandleYet, NoLoopYet, Claimed,
       Registering, SaidStopped
  <2> QED
    BY <2>2, <2>3, <2>4, <2>5, <2>6, <2>7, <2>8, <2>9, <2>10 DEF Turn
<1>3. ASSUME NEW c \in Calls, ExternalStop(c) PROVE InTurn'
  <2> SUFFICES ASSUME ~overlap', ~stray' PROVE Turn'
    BY DEF InTurn
  <2>0. ExternalStopEffect(c)
    BY <1>3, ExternalStopFacts
  <2>1. Turn /\ Owners /\ LifecycleTypeOK
    BY <2>0 DEF InTurn, ExternalStopEffect, At, Done, Others, Began, Dropped
  <2>2. OneCall'
    BY <2>0, <2>1 DEF ExternalStopEffect, At, Done, Others, Began, Dropped, Turn, Owners,
       LiveAtHome, RegistersOwn, AskedStarted, StoppedStarted, LifecycleTypeOK, Live, Starting, Running,
       Nobody, Up, pc, OneCall, OneLoop, FileNames, FileNamesInCall, NoHandleYet, NoLoopYet,
       Claimed, Registering, SaidStopped
  <2>3. OneLoop'
    BY <2>0, <2>1 DEF ExternalStopEffect, At, Done, Others, Began, Dropped, Turn, Owners,
       LiveAtHome, RegistersOwn, AskedStarted, StoppedStarted, LifecycleTypeOK, Live, Starting, Running,
       Nobody, Up, pc, OneCall, OneLoop, FileNames, FileNamesInCall, NoHandleYet, NoLoopYet,
       Claimed, Registering, SaidStopped
  <2>4. FileNames'
    BY <2>0, <2>1 DEF ExternalStopEffect, At, Done, Others, Began, Dropped, Turn, Owners,
       LiveAtHome, RegistersOwn, AskedStarted, StoppedStarted, LifecycleTypeOK, Live, Starting, Running,
       Nobody, Up, pc, OneCall, OneLoop, FileNames, FileNamesInCall, NoHandleYet, NoLoopYet,
       Claimed, Registering, SaidStopped
  <2>5. FileNamesInCall'
    BY <2>0, <2>1 DEF ExternalStopEffect, At, Done, Others, Began, Dropped, Turn, Owners,
       LiveAtHome, RegistersOwn, AskedStarted, StoppedStarted, LifecycleTypeOK, Live, Starting, Running,
       Nobody, Up, pc, OneCall, OneLoop, FileNames, FileNamesInCall, NoHandleYet, NoLoopYet,
       Claimed, Registering, SaidStopped
  <2>6. NoHandleYet'
    BY <2>0, <2>1 DEF ExternalStopEffect, At, Done, Others, Began, Dropped, Turn, NoHandleYet,
       Starting, pc
  <2>7. NoLoopYet'
    BY <2>0, <2>1 DEF ExternalStopEffect, At, Done, Others, Began, Dropped, Turn, Owners,
       LiveAtHome, RegistersOwn, AskedStarted, StoppedStarted, LifecycleTypeOK, Live, Starting, Running,
       Nobody, Up, pc, OneCall, OneLoop, FileNames, FileNamesInCall, NoHandleYet, NoLoopYet,
       Claimed, Registering, SaidStopped
  <2>8. Claimed'
    BY <2>0, <2>1 DEF ExternalStopEffect, At, Done, Others, Began, Dropped, Turn, Owners,
       LiveAtHome, RegistersOwn, AskedStarted, StoppedStarted, LifecycleTypeOK, Live, Starting, Running,
       Nobody, Up, pc, OneCall, OneLoop, FileNames, FileNamesInCall, NoHandleYet, NoLoopYet,
       Claimed, Registering, SaidStopped
  <2>9. Registering'
    BY <2>0, <2>1 DEF ExternalStopEffect, At, Done, Others, Began, Dropped, Turn, Owners,
       LiveAtHome, RegistersOwn, AskedStarted, StoppedStarted, LifecycleTypeOK, Live, Starting, Running,
       Nobody, Up, pc, OneCall, OneLoop, FileNames, FileNamesInCall, NoHandleYet, NoLoopYet,
       Claimed, Registering, SaidStopped
  <2>10. SaidStopped'
    BY <2>0, <2>1 DEF ExternalStopEffect, At, Done, Others, Began, Dropped, Turn, Owners,
       LiveAtHome, RegistersOwn, AskedStarted, StoppedStarted, LifecycleTypeOK, Live, Starting, Running,
       Nobody, Up, pc, OneCall, OneLoop, FileNames, FileNamesInCall, NoHandleYet, NoLoopYet,
       Claimed, Registering, SaidStopped
  <2> QED
    BY <2>2, <2>3, <2>4, <2>5, <2>6, <2>7, <2>8, <2>9, <2>10 DEF Turn
<1>4. ASSUME NEW c \in Calls, CheckExternal(c) PROVE InTurn'
  <2>1. CheckExternalEffect(c)
    BY <1>4, CheckExternalFacts
  <2> QED
    BY <2>1, SMTT(60) DEF CheckExternalEffect, At, Done, Others, Began, Dropped, Running, pc, LifecycleTypeOK,
       Owners, LiveAtHome, RegistersOwn, AskedStarted, StoppedStarted, Live, InTurn, Turn,
       OneCall, OneLoop, FileNames, FileNamesInCall, NoHandleYet, NoLoopYet, Claimed,
       Registering, SaidStopped, Starting, Nobody, Up
<1>5. ASSUME NEW c \in Calls, ClearStale(c) PROVE InTurn'
  BY <1>5 DEF ClearStale, Continues, Up, Go, Nobody, loops, pc, LifecycleTypeOK, Owners, LiveAtHome,
     RegistersOwn, AskedStarted, StoppedStarted, Live, InTurn, Turn, OneCall, OneLoop,
     FileNames, FileNamesInCall, NoHandleYet, NoLoopYet, Claimed, Registering, SaidStopped,
     Starting, Running
<1>6. ASSUME NEW c \in Calls, CheckClaim(c) PROVE InTurn'
  <2> SUFFICES ASSUME ~overlap', ~stray' PROVE Turn'
    BY DEF InTurn
  <2>0. CheckClaimEffect(c)
    BY <1>6, CheckClaimFacts
  <2>1. Turn /\ Owners /\ LifecycleTypeOK
    BY <2>0 DEF InTurn, CheckClaimEffect, At, Done, Others, Began, Dropped
  <2>2. OneCall'
    BY <2>0, <2>1 DEF CheckClaimEffect, At, Done, Others, Began, Dropped, Turn, Owners,
       LiveAtHome, RegistersOwn, AskedStarted, StoppedStarted, LifecycleTypeOK, Live, Starting, Running,
       Nobody, Up, pc, OneCall, OneLoop, FileNames, FileNamesInCall, NoHandleYet, NoLoopYet,
       Claimed, Registering, SaidStopped
  <2>3. OneLoop'
    BY <2>0, <2>1 DEF CheckClaimEffect, At, Done, Others, Began, Dropped, Turn, Owners,
       LiveAtHome, RegistersOwn, AskedStarted, StoppedStarted, LifecycleTypeOK, Live, Starting, Running,
       Nobody, Up, pc, OneCall, OneLoop, FileNames, FileNamesInCall, NoHandleYet, NoLoopYet,
       Claimed, Registering, SaidStopped
  <2>4. FileNames'
    BY <2>0, <2>1 DEF CheckClaimEffect, At, Done, Others, Began, Dropped, Turn, Owners,
       LiveAtHome, RegistersOwn, AskedStarted, StoppedStarted, LifecycleTypeOK, Live, Starting, Running,
       Nobody, Up, pc, OneCall, OneLoop, FileNames, FileNamesInCall, NoHandleYet, NoLoopYet,
       Claimed, Registering, SaidStopped
  <2>5. FileNamesInCall'
    BY <2>0, <2>1 DEF CheckClaimEffect, At, Done, Others, Began, Dropped, Turn, Owners,
       LiveAtHome, RegistersOwn, AskedStarted, StoppedStarted, LifecycleTypeOK, Live, Starting, Running,
       Nobody, Up, pc, OneCall, OneLoop, FileNames, FileNamesInCall, NoHandleYet, NoLoopYet,
       Claimed, Registering, SaidStopped
  <2>6. NoHandleYet'
    BY <2>0, <2>1 DEF CheckClaimEffect, At, Done, Others, Began, Dropped, Turn, NoHandleYet,
       Starting, pc
  <2>7. NoLoopYet'
    BY <2>0, <2>1 DEF CheckClaimEffect, At, Done, Others, Began, Dropped, Turn, Owners,
       LiveAtHome, RegistersOwn, AskedStarted, StoppedStarted, LifecycleTypeOK, Live, Starting, Running,
       Nobody, Up, pc, OneCall, OneLoop, FileNames, FileNamesInCall, NoHandleYet, NoLoopYet,
       Claimed, Registering, SaidStopped
  <2>8. Claimed'
    BY <2>0, <2>1 DEF CheckClaimEffect, At, Done, Others, Began, Dropped, Turn, Owners,
       LiveAtHome, RegistersOwn, AskedStarted, StoppedStarted, LifecycleTypeOK, Live, Starting, Running,
       Nobody, Up, pc, OneCall, OneLoop, FileNames, FileNamesInCall, NoHandleYet, NoLoopYet,
       Claimed, Registering, SaidStopped
  <2>9. Registering'
    BY <2>0, <2>1 DEF CheckClaimEffect, At, Done, Others, Began, Dropped, Turn, Owners,
       LiveAtHome, RegistersOwn, AskedStarted, StoppedStarted, LifecycleTypeOK, Live, Starting, Running,
       Nobody, Up, pc, OneCall, OneLoop, FileNames, FileNamesInCall, NoHandleYet, NoLoopYet,
       Claimed, Registering, SaidStopped
  <2>10. SaidStopped'
    BY <2>0, <2>1 DEF CheckClaimEffect, At, Done, Others, Began, Dropped, Turn, Owners,
       LiveAtHome, RegistersOwn, AskedStarted, StoppedStarted, LifecycleTypeOK, Live, Starting, Running,
       Nobody, Up, pc, OneCall, OneLoop, FileNames, FileNamesInCall, NoHandleYet, NoLoopYet,
       Claimed, Registering, SaidStopped
  <2> QED
    BY <2>2, <2>3, <2>4, <2>5, <2>6, <2>7, <2>8, <2>9, <2>10 DEF Turn
<1>7. ASSUME NEW c \in Calls, Claim(c) PROVE InTurn'
  BY <1>7 DEF Claim, Continues, Up, Go, loops, pc, LifecycleTypeOK, Owners, LiveAtHome, RegistersOwn,
     AskedStarted, StoppedStarted, Live, InTurn, Turn, OneCall, OneLoop, FileNames,
     FileNamesInCall, NoHandleYet, NoLoopYet, Claimed, Registering, SaidStopped, Starting,
     Running, Nobody
<1>8. ASSUME NEW c \in Calls, Spawn(c) PROVE InTurn'
  <2> SUFFICES ASSUME ~overlap', ~stray' PROVE Turn'
    BY DEF InTurn
  <2>0. SpawnEffect(c)
    BY <1>8, SpawnFacts
  <2>1. Turn /\ Owners /\ LifecycleTypeOK
    BY <2>0 DEF InTurn, SpawnEffect, At, Done, Others, Began, Dropped
  <2>2. OneCall'
    BY <2>0, <2>1 DEF SpawnEffect, At, Done, Others, Began, Dropped, Turn, Owners, LiveAtHome,
       RegistersOwn, AskedStarted, StoppedStarted, LifecycleTypeOK, Live, Starting, Running, Nobody, Up,
       pc, OneCall, OneLoop, FileNames, FileNamesInCall, NoHandleYet, NoLoopYet, Claimed,
       Registering, SaidStopped
  <2>3. OneLoop'
    BY <2>0, <2>1 DEF SpawnEffect, At, Done, Others, Began, Dropped, Turn, Owners, LiveAtHome,
       RegistersOwn, AskedStarted, StoppedStarted, LifecycleTypeOK, Live, Starting, Running, Nobody, Up,
       pc, OneCall, OneLoop, FileNames, FileNamesInCall, NoHandleYet, NoLoopYet, Claimed,
       Registering, SaidStopped
  <2>4. FileNames'
    BY <2>0, <2>1 DEF SpawnEffect, At, Done, Others, Began, Dropped, Turn, Owners, LiveAtHome,
       RegistersOwn, AskedStarted, StoppedStarted, LifecycleTypeOK, Live, Starting, Running, Nobody, Up,
       pc, OneCall, OneLoop, FileNames, FileNamesInCall, NoHandleYet, NoLoopYet, Claimed,
       Registering, SaidStopped
  <2>5. FileNamesInCall'
    BY <2>0, <2>1 DEF SpawnEffect, At, Done, Others, Began, Dropped, Turn, Owners, LiveAtHome,
       RegistersOwn, AskedStarted, StoppedStarted, LifecycleTypeOK, Live, Starting, Running, Nobody, Up,
       pc, OneCall, OneLoop, FileNames, FileNamesInCall, NoHandleYet, NoLoopYet, Claimed,
       Registering, SaidStopped
  <2>6. NoHandleYet'
    BY <2>0, <2>1 DEF SpawnEffect, At, Done, Others, Began, Dropped, Turn, NoHandleYet,
       Starting, pc
  <2>7. NoLoopYet'
    BY <2>0, <2>1 DEF SpawnEffect, At, Done, Others, Began, Dropped, Turn, Owners, LiveAtHome,
       RegistersOwn, AskedStarted, StoppedStarted, LifecycleTypeOK, Live, Starting, Running, Nobody, Up,
       pc, OneCall, OneLoop, FileNames, FileNamesInCall, NoHandleYet, NoLoopYet, Claimed,
       Registering, SaidStopped
  <2>8. Claimed'
    BY <2>0, <2>1 DEF SpawnEffect, At, Done, Others, Began, Dropped, Turn, Owners, LiveAtHome,
       RegistersOwn, AskedStarted, StoppedStarted, LifecycleTypeOK, Live, Starting, Running, Nobody, Up,
       pc, OneCall, OneLoop, FileNames, FileNamesInCall, NoHandleYet, NoLoopYet, Claimed,
       Registering, SaidStopped
  <2>9. Registering'
    BY <2>0, <2>1 DEF SpawnEffect, At, Done, Others, Began, Dropped, Turn, Owners, LiveAtHome,
       RegistersOwn, AskedStarted, StoppedStarted, LifecycleTypeOK, Live, Starting, Running, Nobody, Up,
       pc, OneCall, OneLoop, FileNames, FileNamesInCall, NoHandleYet, NoLoopYet, Claimed,
       Registering, SaidStopped
  <2>10. SaidStopped'
    BY <2>0, <2>1 DEF SpawnEffect, At, Done, Others, Began, Dropped, Turn, Owners, LiveAtHome,
       RegistersOwn, AskedStarted, StoppedStarted, LifecycleTypeOK, Live, Starting, Running, Nobody, Up,
       pc, OneCall, OneLoop, FileNames, FileNamesInCall, NoHandleYet, NoLoopYet, Claimed,
       Registering, SaidStopped
  <2> QED
    BY <2>2, <2>3, <2>4, <2>5, <2>6, <2>7, <2>8, <2>9, <2>10 DEF Turn
<1>9. ASSUME NEW c \in Calls, Register(c) PROVE InTurn'
  <2> SUFFICES ASSUME ~overlap', ~stray' PROVE Turn'
    BY DEF InTurn
  <2>0. RegisterEffect(c)
    BY <1>9, RegisterFacts
  <2>1. Turn /\ Owners /\ LifecycleTypeOK
    BY <2>0 DEF InTurn, RegisterEffect, At, Done, Others, Began, Dropped
  <2>2. OneCall'
    BY <2>0, <2>1 DEF RegisterEffect, At, Done, Others, Began, Dropped, Turn, Owners,
       LiveAtHome, RegistersOwn, AskedStarted, StoppedStarted, LifecycleTypeOK, Live, Starting, Running,
       Nobody, Up, pc, OneCall, OneLoop, FileNames, FileNamesInCall, NoHandleYet, NoLoopYet,
       Claimed, Registering, SaidStopped
  <2>3. OneLoop'
    BY <2>0, <2>1 DEF RegisterEffect, At, Done, Others, Began, Dropped, Turn, Owners,
       LiveAtHome, RegistersOwn, AskedStarted, StoppedStarted, LifecycleTypeOK, Live, Starting, Running,
       Nobody, Up, pc, OneCall, OneLoop, FileNames, FileNamesInCall, NoHandleYet, NoLoopYet,
       Claimed, Registering, SaidStopped
  <2>4. FileNames'
    BY <2>0, <2>1 DEF RegisterEffect, At, Done, Others, Began, Dropped, Turn, Owners,
       LiveAtHome, RegistersOwn, AskedStarted, StoppedStarted, LifecycleTypeOK, Live, Starting, Running,
       Nobody, Up, pc, OneCall, OneLoop, FileNames, FileNamesInCall, NoHandleYet, NoLoopYet,
       Claimed, Registering, SaidStopped
  <2>5. FileNamesInCall'
    BY <2>0, <2>1 DEF RegisterEffect, At, Done, Others, Began, Dropped, Turn, Owners,
       LiveAtHome, RegistersOwn, AskedStarted, StoppedStarted, LifecycleTypeOK, Live, Starting, Running,
       Nobody, Up, pc, OneCall, OneLoop, FileNames, FileNamesInCall, NoHandleYet, NoLoopYet,
       Claimed, Registering, SaidStopped
  <2>6. NoHandleYet'
    BY <2>0, <2>1 DEF RegisterEffect, At, Done, Others, Began, Dropped, Turn, Owners,
       LiveAtHome, RegistersOwn, AskedStarted, StoppedStarted, LifecycleTypeOK, Live, Starting, Running,
       Nobody, Up, pc, OneCall, OneLoop, FileNames, FileNamesInCall, NoHandleYet, NoLoopYet,
       Claimed, Registering, SaidStopped
  <2>7. NoLoopYet'
    BY <2>0, <2>1 DEF RegisterEffect, At, Done, Others, Began, Dropped, Turn, Owners,
       LiveAtHome, RegistersOwn, AskedStarted, StoppedStarted, LifecycleTypeOK, Live, Starting, Running,
       Nobody, Up, pc, OneCall, OneLoop, FileNames, FileNamesInCall, NoHandleYet, NoLoopYet,
       Claimed, Registering, SaidStopped
  <2>8. Claimed'
    BY <2>0, <2>1 DEF RegisterEffect, At, Done, Others, Began, Dropped, Turn, Owners,
       LiveAtHome, RegistersOwn, AskedStarted, StoppedStarted, LifecycleTypeOK, Live, Starting, Running,
       Nobody, Up, pc, OneCall, OneLoop, FileNames, FileNamesInCall, NoHandleYet, NoLoopYet,
       Claimed, Registering, SaidStopped
  <2>9. Registering'
    BY <2>0, <2>1 DEF RegisterEffect, At, Done, Others, Began, Dropped, Turn, Owners,
       LiveAtHome, RegistersOwn, AskedStarted, StoppedStarted, LifecycleTypeOK, Live, Starting, Running,
       Nobody, Up, pc, OneCall, OneLoop, FileNames, FileNamesInCall, NoHandleYet, NoLoopYet,
       Claimed, Registering, SaidStopped
  <2>10. SaidStopped'
    BY <2>0, <2>1 DEF RegisterEffect, At, Done, Others, Began, Dropped, Turn, Owners,
       LiveAtHome, RegistersOwn, AskedStarted, StoppedStarted, LifecycleTypeOK, Live, Starting, Running,
       Nobody, Up, pc, OneCall, OneLoop, FileNames, FileNamesInCall, NoHandleYet, NoLoopYet,
       Claimed, Registering, SaidStopped
  <2> QED
    BY <2>2, <2>3, <2>4, <2>5, <2>6, <2>7, <2>8, <2>9, <2>10 DEF Turn
<1>10. ASSUME NEW c \in Calls, WriteFlag(c) PROVE InTurn'
  <2> SUFFICES ASSUME ~overlap', ~stray' PROVE Turn'
    BY DEF InTurn
  <2>0. WriteFlagEffect(c)
    BY <1>10, WriteFlagFacts
  <2>1. Turn /\ Owners /\ LifecycleTypeOK
    BY <2>0 DEF InTurn, WriteFlagEffect, At, Done, Others, Began, Dropped
  <2>2. OneCall'
    BY <2>0, <2>1 DEF WriteFlagEffect, At, Done, Others, Began, Dropped, Turn, Owners,
       LiveAtHome, RegistersOwn, AskedStarted, StoppedStarted, LifecycleTypeOK, Live, Starting, Running,
       Nobody, Up, pc, OneCall, OneLoop, FileNames, FileNamesInCall, NoHandleYet, NoLoopYet,
       Claimed, Registering, SaidStopped
  <2>3. OneLoop'
    BY <2>0, <2>1 DEF WriteFlagEffect, At, Done, Others, Began, Dropped, Turn, Owners,
       LiveAtHome, RegistersOwn, AskedStarted, StoppedStarted, LifecycleTypeOK, Live, Starting, Running,
       Nobody, Up, pc, OneCall, OneLoop, FileNames, FileNamesInCall, NoHandleYet, NoLoopYet,
       Claimed, Registering, SaidStopped
  <2>4. FileNames'
    BY <2>0, <2>1 DEF WriteFlagEffect, At, Done, Others, Began, Dropped, Turn, Owners,
       LiveAtHome, RegistersOwn, AskedStarted, StoppedStarted, LifecycleTypeOK, Live, Starting, Running,
       Nobody, Up, pc, OneCall, OneLoop, FileNames, FileNamesInCall, NoHandleYet, NoLoopYet,
       Claimed, Registering, SaidStopped
  <2>5. FileNamesInCall'
    BY <2>0, <2>1 DEF WriteFlagEffect, At, Done, Others, Began, Dropped, Turn, Owners,
       LiveAtHome, RegistersOwn, AskedStarted, StoppedStarted, LifecycleTypeOK, Live, Starting, Running,
       Nobody, Up, pc, OneCall, OneLoop, FileNames, FileNamesInCall, NoHandleYet, NoLoopYet,
       Claimed, Registering, SaidStopped
  <2>6. NoHandleYet'
    BY <2>0, <2>1 DEF WriteFlagEffect, At, Done, Others, Began, Dropped, Turn, NoHandleYet,
       Starting, pc
  <2>7. NoLoopYet'
    BY <2>0, <2>1 DEF WriteFlagEffect, At, Done, Others, Began, Dropped, Turn, Owners,
       LiveAtHome, RegistersOwn, AskedStarted, StoppedStarted, LifecycleTypeOK, Live, Starting, Running,
       Nobody, Up, pc, OneCall, OneLoop, FileNames, FileNamesInCall, NoHandleYet, NoLoopYet,
       Claimed, Registering, SaidStopped
  <2>8. Claimed'
    BY <2>0, <2>1 DEF WriteFlagEffect, At, Done, Others, Began, Dropped, Turn, Owners,
       LiveAtHome, RegistersOwn, AskedStarted, StoppedStarted, LifecycleTypeOK, Live, Starting, Running,
       Nobody, Up, pc, OneCall, OneLoop, FileNames, FileNamesInCall, NoHandleYet, NoLoopYet,
       Claimed, Registering, SaidStopped
  <2>9. Registering'
    BY <2>0, <2>1 DEF WriteFlagEffect, At, Done, Others, Began, Dropped, Turn, Owners,
       LiveAtHome, RegistersOwn, AskedStarted, StoppedStarted, LifecycleTypeOK, Live, Starting, Running,
       Nobody, Up, pc, OneCall, OneLoop, FileNames, FileNamesInCall, NoHandleYet, NoLoopYet,
       Claimed, Registering, SaidStopped
  <2>10. SaidStopped'
    BY <2>0, <2>1 DEF WriteFlagEffect, At, Done, Others, Began, Dropped, Turn, Owners,
       LiveAtHome, RegistersOwn, AskedStarted, StoppedStarted, LifecycleTypeOK, Live, Starting, Running,
       Nobody, Up, pc, OneCall, OneLoop, FileNames, FileNamesInCall, NoHandleYet, NoLoopYet,
       Claimed, Registering, SaidStopped
  <2> QED
    BY <2>2, <2>3, <2>4, <2>5, <2>6, <2>7, <2>8, <2>9, <2>10 DEF Turn
<1>11. ASSUME NEW c \in Calls, SeesStopped(c) PROVE InTurn'
  BY <1>11 DEF SeesStopped, Continues, Up, Stopped, NoCall, None, Nobody, files, loops, pc,
     LifecycleTypeOK, Owners, LiveAtHome, RegistersOwn, AskedStarted, StoppedStarted, Live, InTurn, Turn,
     OneCall, OneLoop, FileNames, FileNamesInCall, NoHandleYet, NoLoopYet, Claimed, Registering,
     SaidStopped, Starting, Running
<1>12. ASSUME NEW c \in Calls, StopTimesOut(c) PROVE InTurn'
  BY <1>12 DEF StopTimesOut, Continues, Up, Returns, NoCall, None, files, loops, pc, LifecycleTypeOK,
     Owners, LiveAtHome, RegistersOwn, AskedStarted, StoppedStarted, Live, InTurn, Turn,
     OneCall, OneLoop, FileNames, FileNamesInCall, NoHandleYet, NoLoopYet, Claimed, Registering,
     SaidStopped, Starting, Running, Nobody
<1>13. ASSUME NEW w \in Watchers, SeeFlag(w) PROVE InTurn'
  BY <1>13 DEF SeeFlag, Running, history, pc, LifecycleTypeOK, Owners, LiveAtHome, RegistersOwn,
     AskedStarted, StoppedStarted, Live, InTurn, Turn, OneCall, OneLoop, FileNames,
     FileNamesInCall, NoHandleYet, NoLoopYet, Claimed, Registering, SaidStopped, Starting,
     Nobody, Up
<1>14. ASSUME NEW w \in Watchers, EndLoop(w) PROVE InTurn'
  <2> SUFFICES ASSUME ~overlap', ~stray' PROVE Turn'
    BY DEF InTurn
  <2>0. EndLoop(w)
    BY <1>14
  <2>1. Turn /\ Owners /\ LifecycleTypeOK
    BY <2>0 DEF InTurn, EndLoop, Nobody, loops, history, pc
  <2>2. OneCall'
    BY <2>0, <2>1 DEF EndLoop, Nobody, loops, history, pc, Turn, Owners, LiveAtHome,
       RegistersOwn, AskedStarted, StoppedStarted, LifecycleTypeOK, Live, Starting, Running, Up, OneCall,
       OneLoop, FileNames, FileNamesInCall, NoHandleYet, NoLoopYet, Claimed, Registering,
       SaidStopped
  <2>3. OneLoop'
    BY <2>0, <2>1 DEF EndLoop, Nobody, loops, history, pc, Turn, Owners, LiveAtHome,
       RegistersOwn, AskedStarted, StoppedStarted, LifecycleTypeOK, Live, Starting, Running, Up, OneCall,
       OneLoop, FileNames, FileNamesInCall, NoHandleYet, NoLoopYet, Claimed, Registering,
       SaidStopped
  <2>4. FileNames'
    BY <2>0, <2>1 DEF EndLoop, Nobody, loops, history, pc, Turn, Owners, LiveAtHome,
       RegistersOwn, AskedStarted, StoppedStarted, LifecycleTypeOK, Live, Starting, Running, Up, OneCall,
       OneLoop, FileNames, FileNamesInCall, NoHandleYet, NoLoopYet, Claimed, Registering,
       SaidStopped
  <2>5. FileNamesInCall'
    BY <2>0, <2>1 DEF EndLoop, Nobody, loops, history, pc, Turn, Owners, LiveAtHome,
       RegistersOwn, AskedStarted, StoppedStarted, LifecycleTypeOK, Live, Starting, Running, Up, OneCall,
       OneLoop, FileNames, FileNamesInCall, NoHandleYet, NoLoopYet, Claimed, Registering,
       SaidStopped
  <2>6. NoHandleYet'
    BY <2>0, <2>1 DEF EndLoop, Nobody, loops, history, pc, Turn, NoHandleYet, Starting
  <2>7. NoLoopYet'
    BY <2>0, <2>1 DEF EndLoop, Nobody, loops, history, pc, Turn, Owners, LiveAtHome,
       RegistersOwn, AskedStarted, StoppedStarted, LifecycleTypeOK, Live, Starting, Running, Up, OneCall,
       OneLoop, FileNames, FileNamesInCall, NoHandleYet, NoLoopYet, Claimed, Registering,
       SaidStopped
  <2>8. Claimed'
    BY <2>0, <2>1 DEF EndLoop, Nobody, loops, history, pc, Turn, Owners, LiveAtHome,
       RegistersOwn, AskedStarted, StoppedStarted, LifecycleTypeOK, Live, Starting, Running, Up, OneCall,
       OneLoop, FileNames, FileNamesInCall, NoHandleYet, NoLoopYet, Claimed, Registering,
       SaidStopped
  <2>9. Registering'
    BY <2>0, <2>1 DEF EndLoop, Nobody, loops, history, pc, Turn, Owners, LiveAtHome,
       RegistersOwn, AskedStarted, StoppedStarted, LifecycleTypeOK, Live, Starting, Running, Up, OneCall,
       OneLoop, FileNames, FileNamesInCall, NoHandleYet, NoLoopYet, Claimed, Registering,
       SaidStopped
  <2>10. SaidStopped'
    BY <2>0, <2>1 DEF EndLoop, Nobody, loops, history, pc, Turn, Owners, LiveAtHome,
       RegistersOwn, AskedStarted, StoppedStarted, LifecycleTypeOK, Live, Starting, Running, Up, OneCall,
       OneLoop, FileNames, FileNamesInCall, NoHandleYet, NoLoopYet, Claimed, Registering,
       SaidStopped
  <2> QED
    BY <2>2, <2>3, <2>4, <2>5, <2>6, <2>7, <2>8, <2>9, <2>10 DEF Turn
<1>15. ASSUME NEW p \in Processes, Crash(p) PROVE InTurn'
  BY <1>15 DEF Crash, NoCall, None, files, history, pc, LifecycleTypeOK, Owners, LiveAtHome,
     RegistersOwn, AskedStarted, StoppedStarted, Live, InTurn, Turn, OneCall, OneLoop,
     FileNames, FileNamesInCall, NoHandleYet, NoLoopYet, Claimed, Registering, SaidStopped,
     Starting, Running, Nobody, Up
<1>16. CASE UNCHANGED lifecycleVars
  BY <1>16 DEF lifecycleVars, files, loops, history, pc, Running, Up, LifecycleTypeOK, Owners, LiveAtHome,
     RegistersOwn, AskedStarted, StoppedStarted, Live, InTurn, Turn, OneCall, OneLoop,
     FileNames, FileNamesInCall, NoHandleYet, NoLoopYet, Claimed, Registering, SaidStopped,
     Starting, Nobody
<1> QED
  BY <1>1, <1>2, <1>3, <1>4, <1>5, <1>6, <1>7, <1>8, <1>9, <1>10, <1>11, <1>12, <1>13, <1>14,
     <1>15, <1>16 DEF LifecycleNext, CallStep, LoopStep

LEMMA InitInv ==
  ASSUME LifecycleInit
  PROVE  IInv
<1> USE LifecycleAssumption, NoneIsNoWatcher
<1>1. NoCall \in [pc : Stages, watcher : Watchers \cup {None}, asked : SUBSET Watchers]
  BY DEF NoCall, Stages
<1>2. LifecycleTypeOK
  BY <1>1 DEF LifecycleInit, LifecycleTypeOK, NoCall, Nobody, pc, Up
<1>3. Owners
  BY DEF LifecycleInit, Owners, LiveAtHome, RegistersOwn, AskedStarted, StoppedStarted, Live, NoCall, pc
<1>4. NoLeakedWatcher
  BY DEF LifecycleInit, NoLeakedWatcher, Running
<1>5. InTurn
  BY DEF LifecycleInit, InTurn, Turn, OneCall, OneLoop, FileNames, FileNamesInCall, NoHandleYet,
     NoLoopYet,
         Claimed, Registering, SaidStopped, Starting, Live, Running, NoCall, pc
<1> QED
  BY <1>2, <1>3, <1>4, <1>5 DEF IInv

LEMMA Invariant == LifecycleSpec => []IInv
<1>1. LifecycleInit => IInv
  BY InitInv
<1>2. IInv /\ [LifecycleNext]_lifecycleVars => IInv'
  BY TypeStep, OwnersStep, HandleStep, TurnStep DEF IInv
<1> QED
  BY <1>1, <1>2, PTL DEF LifecycleSpec

\* Types of the registries, the two files, the loops and the calls.
THEOREM WatchTypes == LifecycleSpec => []LifecycleTypeOK
<1>1. IInv => LifecycleTypeOK
  BY DEF IInv
<1> QED
  BY <1>1, Invariant, PTL

\* However many calls and processes there are and however they interleave, no
\* debounce loop runs that its process has no handle for (watch_project.rs, watch).
THEOREM NoWatcherLeaks == LifecycleSpec => []NoLeakedWatcher
<1>1. IInv => NoLeakedWatcher
  BY DEF IInv
<1> QED
  BY <1>1, Invariant, PTL

\* Calls that take turns start one watcher at most, and watch.json names its
\* process, across crashes and stale files (watch_project.rs, external_status).
THEOREM OneInTurn == LifecycleSpec => []OneWatcherInTurn
<1>1. IInv => OneWatcherInTurn
  BY DEF IInv, InTurn, Turn, OneLoop, FileNames, Live, Running, OneWatcherInTurn
<1> QED
  BY <1>1, Invariant, PTL

\* While calls take turns, what a call says it stopped does not run
\* (watch_project.rs, external_stop).
THEOREM StopsWhatItSays == LifecycleSpec => []StoppedIsStopped
<1>1. IInv => StoppedIsStopped
  BY DEF IInv, InTurn, Turn, SaidStopped, StoppedIsStopped
<1> QED
  BY <1>1, Invariant, PTL
=============================================================================
