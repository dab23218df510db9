CONSTANTS
  MaxIterations = 4
  MaxErrorRounds = 2
  MaxVerifyAttempts = 1
  MaxRetries = 2
  ReadOnlyRounds = 1
  File <- MCFile
  MaxBatch = 2
  Snapshots <- MCSnapshots
  ModelCallsWithheld = FALSE
SPECIFICATION Spec
INVARIANT PlanModeRunsNothing
CHECK_DEADLOCK FALSE
