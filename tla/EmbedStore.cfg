SPECIFICATION ReadinessSpec
CONSTANTS
  f1 = f1
  g1 = g1
  a = a
  b = b
  Files <- OneFile
  Generators <- OneGenerator
  Updater = Updater
  Configs <- TwoConfigs
  NoConfig = NoConfig
  Absent = Absent
  Torn = Torn
  NoProgress = NoProgress
  MaxEdits = 1
  MaxRuns = 2
  MaxRestarts = 1
  EndpointFails = TRUE
  IoFails = TRUE
INVARIANT ReadyMeansEmbedded
INVARIANT VouchedModel
INVARIANT NeverTorn
PROPERTY KeepsVectors
PROPERTY WorkEnds
PROPERTY ReadyAnswersHonest
CHECK_DEADLOCK FALSE
