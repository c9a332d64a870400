SPECIFICATION Spec
CONSTANTS
  f1 = f1
  f2 = f2
  p1 = p1
  p2 = p2
  r1 = r1
  default = default
  custom = custom
  none = none
  Files <- MCFiles
  Indexers <- MCTwoIndexers
  Readers <- MCNoReader
  Policies <- MCTwoPolicies
  DefaultPolicy = default
  NoPolicy = none
  Hides <- MCHides
  MaxStamp = 3
  MaxRevision = 1
  LogMax = 1
  ListCap = 2
  WatchEnabled = FALSE
  ReindexWhileWatching = FALSE
  OverflowEnabled = FALSE
  CrashEnabled = TRUE
  IoFailEnabled = FALSE
  StatFailEnabled = TRUE
INVARIANT TrustSound
SYMMETRY MCSymmetry
CHECK_DEADLOCK FALSE
