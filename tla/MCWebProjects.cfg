CONSTANTS
  Project <- MCProject
  Path <- MCPath
  Opaque <- MCOpaque
  Home = "p"
  NoProject = noProject
  Empty = empty
  Budgets <- MCBudgets
SPECIFICATION Spec
INVARIANTS
  CopiesAgree
  AddedStaysRegistered
  FilesKeepTheirText
  EditorShowsDisk
\* The budget runs out.
CHECK_DEADLOCK FALSE
