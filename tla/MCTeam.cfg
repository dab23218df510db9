CONSTANTS
  NTasks = 3
  MissingTask = 0
  NoWorker = none
  File <- MCFile
  Owns <- MCOwns
  MaxWaveSize = 2
  MaxVerify = 2
SPECIFICATION FairSpec
INVARIANTS
  DependenciesFirst
  ExecutesAllOrFails
PROPERTY
  TeamEnds
\* The request is answered.
CHECK_DEADLOCK FALSE
