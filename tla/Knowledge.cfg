SPECIFICATION Spec
CONSTANTS
  None = None
  Now = 7
  p1 = p1
  p2 = p2
  Processes <- MCTwo
  Settings <- MCSettings
  Order <- MCOrder
  Edits <- MCEdits
  Questions <- MCQuestions
  Symbols <- MCSymbols
  Closeness <- MCCloseness
  FetchLeast = 1
  FetchMost = 2
  BatchSize = 2
  MaxConcurrency = 2
  MaxRetries = 1
INVARIANT AnswersCurrent
INVARIANT KeptTogether
INVARIANT SectionsTile
PROPERTY EmbeddingsSettle
CHECK_DEADLOCK FALSE
