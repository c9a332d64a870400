SPECIFICATION Spec
CONSTANTS
  f1 = f1
  f2 = f2
  p1 = p1
  p2 = p2
  r1 = r1
  default = default
  custom = custom
  none = none
  Files <- OneFile
  Indexers <- MCOneIndexer
  Readers <- MCReader
  Policies <- MCOnePolicy
  DefaultPolicy = default
  NoPolicy = none
  Hides <- MCHides
  MaxStamp = 2
  MaxRevision = 2
  LogMax = 2
  ListCap = 2
  WatchEnabled = TRUE
  ReindexWhileWatching = TRUE
  OverflowEnabled = TRUE
  CrashEnabled = TRUE
  IoFailEnabled = TRUE
  StatFailEnabled = FALSE
INVARIANT JournalIntact
INVARIANT FeedHonest
INVARIANT CacheCoherent
CHECK_DEADLOCK FALSE
