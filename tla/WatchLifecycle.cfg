SPECIFICATION LifecycleSpec
CONSTANTS
  s1 = s1
  s2 = s2
  a = a
  b = b
  c = c
  Processes <- MCProcesses
  Calls <- MCCalls
  Home <- MCHome
  MaxWatchers = 2
  MaxCrashes = 1
INVARIANT NoLeakedWatcher
INVARIANT OneWatcherInTurn
INVARIANT StoppedIsStopped
CHECK_DEADLOCK FALSE
