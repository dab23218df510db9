CONSTANTS
  s1 = s1
  s2 = s2
  s3 = s3
  k1 = k1
  k2 = k2
  Session <- MCSession
  Stopper <- MCStopper
  MaxConcurrent = 2
SPECIFICATION FairSpec
INVARIANTS
  SlotsAccounted
  CleanDrain
  NoLoopSurvivesShutdown
PROPERTIES
  ShutdownDrains
  ImplementsAdmission
\* Every request and every Shutdown call ends: the last state is a real end.
CHECK_DEADLOCK FALSE
