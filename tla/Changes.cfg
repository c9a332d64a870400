SPECIFICATION ChangesSpec
CONSTANTS
  Holds <- MCHolds
  ShortNames <- MCShort
  Rank <- MCRank
  LowSignal <- MCLow
  Unbuilt = Unbuilt
  Everywhere = Everywhere
  Comparisons <- MCComparisons
  Questions <- MCQuestions
  Excluded <- MCExcluded
  KeptLines <- MCKeptLines
INVARIANT ImpactGrounded
INVARIANT EditsMapped
CHECK_DEADLOCK FALSE
