CONSTANTS
  NTasks = 2
  MissingTask = 0
  NoWorker = none
  File <- MCFile
  Owns <- MCOwns
  MaxWaveSize = 2
  MaxVerify = 2
SPECIFICATION Spec
INVARIANT OwnershipEnforced
CHECK_DEADLOCK FALSE
