CONSTANTS
  MaxIterations = 4
  MaxErrorRounds = 2
  MaxVerifyAttempts = 1
  MaxRetries = 2
  ReadOnlyRounds = 1
  File <- MCFile
  MaxBatch = 2
  Snapshots <- MCSnapshots
  ModelCallsWithheld = FALSE
SPECIFICATION FairSpec
INVARIANTS
  MutationsAuthorised
  HeartbeatJoined
  UndoCoversTurn
  CompletionHasReceipt
  QuestionsAreAnswered
PROPERTIES
  SessionEnds
\* A session ends: the last state is a real end.
CHECK_DEADLOCK FALSE
