--------------------------- MODULE WatchLifecycle ---------------------------
(***************************************************************************)
(* Who watches a project: the registry of each process, the debounce loops *)
(* it spawned, and the two files through which processes speak of them.    *)
(*                                                                         *)
(*   registry  WatcherRegistry: the watcher each process holds             *)
(*   status    watch.json: the process that watches                        *)
(*   flag      watch.stop: someone asked the watcher to stop               *)
(*   phase     what became of each watcher's debounce loop                 *)
(*                                                                         *)
(* A call is a task of a process: watch_project, its stop, or pitlane      *)
(* watch --stop.  A step is one access to a file or to the registry.       *)
(***************************************************************************)
EXTENDS Naturals, FiniteSets

CONSTANTS Processes, Calls,
          Home,          \* the process of each call
          MaxWatchers,   \* bound: watchers ever started
          MaxCrashes     \* bound: processes that die

Nobody == "nobody"      \* no watch.json

ASSUME LifecycleAssumption ==
  /\ Home \in [Calls -> Processes] /\ Nobody \notin Processes
  /\ MaxWatchers \in Nat /\ MaxCrashes \in Nat

VARIABLES alive, registry, status, flag, phase, home, call,
          \* History: they record, and steer nothing.
          overlap,      \* a call began while another, or a loop's end, was under way
          stray,        \* a watcher was dropped whose loop had ended by itself
          stopped       \* the loops that the last call to return said it stopped

files == <<status, flag>>
loops == <<phase, home>>
history == <<overlap, stray, stopped>>
lifecycleVars == <<alive, registry, files, loops, call, history>>

-----------------------------------------------------------------------------
Watchers == 1 .. MaxWatchers
None == 0               \* no watcher in a registry

(* A call in flight: its watcher once spawned, the loops that ran when it   *)
(* wrote the flag.                                                         *)
NoCall == [pc |-> "idle", watcher |-> None, asked |-> {}]

Running(w) == phase[w] = "open"
pc(c) == call[c].pc
Go(c, next) == call' = [call EXCEPT ![c].pc = next]
Returns(c) == call' = [call EXCEPT ![c] = NoCall] /\ stopped' = {}
Stopped(c, those) == call' = [call EXCEPT ![c] = NoCall] /\ stopped' = those

Up(c) == alive[Home[c]]
Begins(c) ==
  /\ Up(c) /\ pc(c) = "idle"
  /\ overlap' = \/ overlap
                \/ \E d \in Calls \ {c} : pc(d) # "idle" /\ Up(d)
                \/ \E w \in Watchers : phase[w] = "closing"
Continues(c, at) == Up(c) /\ pc(c) = at /\ UNCHANGED overlap

(* A watcher is dropped: its status file goes, whoever it names, and its    *)
(* channel closes.                                                         *)
DropWatcher(w) ==
  /\ status' = Nobody
  /\ phase' = [phase EXCEPT ![w] = IF @ = "open" THEN "closing" ELSE @]
  /\ stray' = (stray \/ ~Running(w))

LifecycleInit ==
  /\ alive = [p \in Processes |-> TRUE]
  /\ registry = [p \in Processes |-> None]
  /\ status = Nobody /\ flag = FALSE
  /\ phase = [w \in Watchers |-> "none"]
  /\ home = [w \in Watchers |-> Nobody]
  /\ call = [c \in Calls |-> NoCall]
  /\ overlap = FALSE /\ stray = FALSE /\ stopped = {}

-----------------------------------------------------------------------------
(* WatcherRegistry::watch                                                  *)

(* The bound leaves a watcher for every call that may come to start one.    *)
MayStart == Cardinality({w \in Watchers : phase[w] # "none"})
            + Cardinality({c \in Calls : pc(c) \notin {"idle", "write_flag", "polling"}})
            < MaxWatchers

Watch(c) ==
  /\ Begins(c) /\ MayStart
  /\ IF registry[Home[c]] # None
     THEN Returns(c)
     ELSE Go(c, "external") /\ UNCHANGED stopped
  /\ UNCHANGED <<alive, registry, files, loops, stray>>

(* external_status: "running", "stale", or no file; then the index loads.  *)
CheckExternal(c) ==
  /\ Continues(c, "external")
  /\ \/ /\ status = Nobody
        /\ Go(c, "check_claim") /\ UNCHANGED stopped
     \/ /\ status # Nobody /\ alive[status]
        /\ Returns(c)
     \/ /\ status # Nobody /\ ~alive[status]
        /\ Go(c, "clear_stale") /\ UNCHANGED stopped
  /\ UNCHANGED <<alive, registry, files, loops, stray>>

ClearStale(c) ==
  /\ Continues(c, "clear_stale")
  /\ status' = Nobody
  /\ Go(c, "check_claim")
  /\ UNCHANGED <<alive, registry, flag, loops, stopped, stray>>

(* write_watch_status reads the file, and then writes it.                  *)
CheckClaim(c) ==
  /\ Continues(c, "check_claim")
  /\ IF status \notin {Nobody, Home[c]} /\ alive[status]
     THEN Returns(c)
     ELSE Go(c, "claim") /\ UNCHANGED stopped
  /\ UNCHANGED <<alive, registry, files, loops, stray>>

FaultNoClaim(c) ==
  /\ Continues(c, "claim")
  /\ Go(c, "spawn")
  /\ UNCHANGED <<alive, registry, files, loops, stopped, stray>>
Claim(c) ==
  /\ Continues(c, "claim")
  /\ status' = Home[c]
  /\ Go(c, "spawn")
  /\ UNCHANGED <<alive, registry, flag, loops, stopped, stray>>

(* A flag left by an earlier stop is removed and the loop spawned.  When    *)
(* notify cannot start after that, the loop finds its channel closed.      *)
Spawn(c) ==
  /\ Continues(c, "spawn")
  /\ flag' = FALSE
  /\ \E w \in Watchers :
       /\ phase[w] = "none" /\ \A v \in 1 .. w - 1 : phase[v] # "none"
       /\ home' = [home EXCEPT ![w] = Home[c]]
       /\ \/ /\ phase' = [phase EXCEPT ![w] = "open"]
             /\ call' = [call EXCEPT ![c].pc = "register", ![c].watcher = w]
             /\ UNCHANGED stopped
          \/ /\ phase' = [phase EXCEPT ![w] = "closing"]
             /\ Returns(c)
  /\ UNCHANGED <<alive, registry, status, stray>>

(* The insertion drops the watcher it replaces.                            *)
FaultForget(c) ==
  /\ Continues(c, "register")
  /\ registry' = [registry EXCEPT ![Home[c]] = call[c].watcher]
  /\ Returns(c)
  /\ UNCHANGED <<alive, files, loops, stray>>
Register(c) ==
  /\ Continues(c, "register")
  /\ LET old == registry[Home[c]]
     IN IF old = None THEN UNCHANGED <<status, phase, stray>> ELSE DropWatcher(old)
  /\ registry' = [registry EXCEPT ![Home[c]] = call[c].watcher]
  /\ Returns(c)
  /\ UNCHANGED <<alive, flag, home>>

(* WatcherRegistry::stop; ctrl-c in pitlane watch drops its watcher so.    *)
Stop(c) ==
  /\ Begins(c)
  /\ LET old == registry[Home[c]]
     IN IF old = None
        THEN Returns(c) /\ UNCHANGED <<status, phase, stray>>
        ELSE DropWatcher(old) /\ Stopped(c, {old})
  /\ registry' = [registry EXCEPT ![Home[c]] = None]
  /\ UNCHANGED <<alive, flag, home>>

-----------------------------------------------------------------------------
(* external_stop                                                           *)

ExternalStop(c) ==
  /\ Begins(c)
  /\ IF status = Nobody
     THEN Returns(c)
     ELSE Go(c, "write_flag") /\ UNCHANGED stopped
  /\ UNCHANGED <<alive, registry, files, loops, stray>>

WriteFlag(c) ==
  /\ Continues(c, "write_flag")
  /\ flag' = TRUE
  /\ call' = [call EXCEPT ![c].pc = "polling", ![c].asked = {w \in Watchers : Running(w)}]
  /\ UNCHANGED <<alive, registry, status, loops, stopped, stray>>

SeesStopped(c) ==
  /\ Continues(c, "polling")
  /\ status = Nobody
  /\ Stopped(c, call[c].asked)
  /\ UNCHANGED <<alive, registry, files, loops, stray>>

FaultSayStopped(c) ==
  /\ Continues(c, "polling")
  /\ Stopped(c, call[c].asked)
  /\ UNCHANGED <<alive, registry, files, loops, stray>>
StopTimesOut(c) ==
  /\ Continues(c, "polling")
  /\ Returns(c)
  /\ UNCHANGED <<alive, registry, files, loops, stray>>

-----------------------------------------------------------------------------
(* run_debounce_loop: it sees the flag, or its channel closed; it flushes,  *)
(* and removes the status file last.                                       *)
SeeFlag(w) ==
  /\ Running(w) /\ flag
  /\ flag' = FALSE
  /\ phase' = [phase EXCEPT ![w] = "closing"]
  /\ UNCHANGED <<alive, registry, status, home, call, history>>

EndLoop(w) ==
  /\ phase[w] = "closing"
  /\ status' = Nobody
  /\ phase' = [phase EXCEPT ![w] = "ended"]
  /\ UNCHANGED <<alive, registry, flag, home, call, history>>

(* A process dies; its files stay behind.                                  *)
Crash(p) ==
  /\ alive[p] /\ Cardinality({q \in Processes : ~alive[q]}) < MaxCrashes
  /\ alive' = [alive EXCEPT ![p] = FALSE]
  /\ registry' = [registry EXCEPT ![p] = None]
  /\ phase' = [w \in Watchers |-> IF home[w] = p THEN "ended" ELSE phase[w]]
  /\ call' = [c \in Calls |-> IF Home[c] = p THEN NoCall ELSE call[c]]
  /\ UNCHANGED <<files, home, history>>

CallStep(c) ==
  \/ CheckExternal(c) \/ ClearStale(c) \/ CheckClaim(c) \/ Claim(c) \/ Spawn(c)
  \/ Register(c) \/ WriteFlag(c) \/ SeesStopped(c) \/ StopTimesOut(c)
LoopStep(w) == SeeFlag(w) \/ EndLoop(w)

LifecycleNext ==
  \/ \E c \in Calls : Watch(c) \/ Stop(c) \/ ExternalStop(c) \/ CallStep(c)
  \/ \E w \in Watchers : LoopStep(w)
  \/ \E p \in Processes : Crash(p)

(* The loop's interval keeps ticking, and its task is scheduled.           *)
Fairness == \A w \in Watchers : WF_lifecycleVars(LoopStep(w))

LifecycleSpec == LifecycleInit /\ [][LifecycleNext]_lifecycleVars /\ Fairness

-----------------------------------------------------------------------------
Stages == {"idle", "external", "clear_stale", "check_claim", "claim", "spawn",
           "register", "write_flag", "polling"}

(* Types; a registry holds a watcher of its own process, a watcher once     *)
(* started keeps its process, and a dead process makes no call.            *)
LifecycleTypeOK ==
  /\ alive \in [Processes -> BOOLEAN]
  /\ registry \in [Processes -> Watchers \cup {None}]
  /\ \A p \in Processes : registry[p] # None => home[registry[p]] = p
  /\ status \in Processes \cup {Nobody} /\ flag \in BOOLEAN
  /\ phase \in [Watchers -> {"none", "open", "closing", "ended"}]
  /\ \A w \in Watchers : phase[w] = "none" <=> home[w] = Nobody
  /\ \A c \in Calls : ~Up(c) => pc(c) = "idle"
  /\ home \in [Watchers -> Processes \cup {Nobody}]
  /\ call \in [Calls -> [pc : Stages, watcher : Watchers \cup {None}, asked : SUBSET Watchers]]
  /\ overlap \in BOOLEAN /\ stray \in BOOLEAN

(* However calls interleave, no debounce loop runs on that its process has *)
(* no handle for: it is registered, or its call is about to register it    *)
(* (watch_project.rs, watch: check, unlock, start, insert).                *)
NoLeakedWatcher ==
  \A w \in Watchers :
    Running(w) => \/ registry[home[w]] = w
                  \/ \E c \in Calls : pc(c) = "register" /\ call[c].watcher = w

(* Calls that never overlapped another call or the end of a loop start one  *)
(* watcher at most, and watch.json names its process, whatever crashed or   *)
(* was stopped by the flag; as long as no watcher is dropped after its loop *)
(* ended by itself, for that takes the file of the watcher that came next.  *)
OneWatcherInTurn ==
  ~overlap /\ ~stray =>
    \A w \in Watchers :
      Running(w) => /\ status = home[w]
                    /\ \A v \in Watchers : Running(v) => v = w

(* A stop that answers "stopped" did stop what ran when it was asked, when *)
(* calls do not overlap (external_stop, stop).                             *)
StoppedIsStopped ==
  ~overlap /\ ~stray => \A w \in stopped : ~Running(w)
=============================================================================
