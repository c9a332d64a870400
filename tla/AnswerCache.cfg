SPECIFICATION MCSpec
CONSTANTS
  p1 = p1
  w1 = w1
  c1 = c1
  c2 = c2
  main = main
  other = other
  q1 = q1
  q2 = q2
  t1 = t1
  t2 = t2
  v1 = v1
  v2 = v2
  Indexers <- MCIndexers
  Flusher = w1
  Investigators <- MCTwoClients
  Project = main
  Others <- MCOthers
  Queries <- MCOneQuery
  MaxSaves = 2
  MaxFlushes = 1
  IoFails = TRUE
  MaxSessions = 1
  MaxAnswers = 1
  Readers <- MCTwoClients
  Targets <- MCTargets
  Contents <- MCContents
  MaxRecent = 2
  MaxReads = 4
SYMMETRY MCSymmetry
INVARIANT NoStaleAnswer
INVARIANT CurrentAnswers
PROPERTY ReadsRecognised
CHECK_DEADLOCK FALSE
