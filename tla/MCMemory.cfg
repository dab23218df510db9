CONSTANTS
  e1 = e1
  c1 = c1
  c2 = c2
  p1 = p1
  p2 = p2
  n1 = n1
  u1 = u1
  NoTask = none
  Name = {n1}
  Sorted <- MCSorted
  Authored = {u1}
  MaxLines = 7
  Extractor = {e1}
  Consolidator = {c1, c2}
  Proc = {p1, p2}
  ProcOf <- MCProcOf
  MinNewEntries = 1
  Answer <- MCAnswer
  InitialIndex <- MCOlder
  CutAt = {2}
  MaxCollisions = 1
SPECIFICATION Spec
INVARIANTS
  OneConsolidator
  HandAuthoredKept
PROPERTIES
  IndexReflectsEntries
