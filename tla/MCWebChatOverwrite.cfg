CONSTANTS
  NoSession = none
  Budgets <- MCBudgets
  Tools <- MCTools
SPECIFICATION Spec
INVARIANT OneConversationPerSession
\* The budget runs out.
CHECK_DEADLOCK FALSE
