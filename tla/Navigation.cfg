SPECIFICATION NavigationSpec
CONSTANTS
  Holds <- MCHolds
  ShortNames <- MCShort
  Rank <- MCRank
  LowSignal <- MCLow
  Unbuilt = Unbuilt
  Projects <- MCProjects
  Requests <- MCRequests
  RoleBonus <- MCRoleBonus
  ByPath <- MCByPath
  ByWalk <- MCByWalk
  Trees <- MCTrees
  Asked <- MCAsked
  Rewrites <- MCRewrites
  MaxEdits = 1
  Root <- MCRoot
  FileOf <- MCFileOf
  TokensOf <- MCTokensOf
  ByName <- MCByName
  Gitignore <- MCGitignore
  Recorded <- MCRecorded
  ExtraDirs = {}
  Profile <- MCProfile
  Bears <- MCBears
  MaxRecent = 3
  MaxQueries = 2
  Searches <- MCSearches
  Sessions <- MCSessions
INVARIANT GraphAgrees
INVARIANT NeighbourhoodTraced
INVARIANT CheapestPath
INVARIANT PagesTellAll
CHECK_DEADLOCK FALSE
