SPECIFICATION TextSpec
CONSTANTS
  Indexers = {p1}
  Flusher = w1
  Searchers = {c1}
  MaxSaves = 3
  MaxCrashes = 1
  IoFails = TRUE
INVARIANT SentinelVouches
INVARIANT AloneRepairs
CHECK_DEADLOCK FALSE
