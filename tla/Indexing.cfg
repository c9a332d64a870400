SPECIFICATION Spec
CONSTANTS
  Files <- MCFiles
  Absent = Absent
  Symlink = Symlink
  Oversized = Oversized
  Contents <- MCContents
  Parse <- MCParse
  TreeOf <- MCTreeOf
  WalkSkips <- MCWalkSkips
  WatchSkips <- MCWatchSkips
  Starts <- MCStarts
  Writes <- MCWrites
  MaxFiles = 2
INVARIANT IndexConsistent
INVARIANT IndexMatchesDisk
INVARIANT OwnersEnclose
INVARIANT DocsAbove
CHECK_DEADLOCK FALSE
