CONSTANTS
  MaxRounds = 8
  MaxHistory = 3
  MaxTotalMessages = 10
  MinForCompact = 8
  MaxCompactFailures = 3
SPECIFICATION HistorySpec
INVARIANTS
  RolesAlternate
  PairedUntilRewritten
PROPERTY
  LatestResultsSent
\* The session ends.
CHECK_DEADLOCK FALSE
