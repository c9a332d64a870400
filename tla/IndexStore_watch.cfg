SPECIFICATION FairSpec
CONSTANTS
  f1 = f1
  f2 = f2
  p1 = p1
  p2 = p2
  r1 = r1
  default = default
  custom = custom
  none = none
  Files <- MCFiles
  Indexers <- MCOneIndexer
  Readers <- MCNoReader
  Policies <- MCOnePolicy
  DefaultPolicy = default
  NoPolicy = none
  Hides <- MCHides
  MaxStamp = 3
  MaxRevision = 1
  LogMax = 2
  ListCap = 1
  WatchEnabled = TRUE
  ReindexWhileWatching = FALSE
  OverflowEnabled = TRUE
  CrashEnabled = FALSE
  IoFailEnabled = FALSE
  StatFailEnabled = TRUE
INVARIANT NoSilentDivergence
PROPERTY FlushReported
PROPERTY EventsReachDisk
PROPERTY OverflowRepaired
CHECK_DEADLOCK FALSE
