CONSTANTS
  NoSession = none
  Budgets <- MCBudgets
  Tools <- MCTools
SPECIFICATION Spec
INVARIANTS
  ConversationsApart
  ShownIsSaved
  DeletedStaysDeleted
  ApprovalIsForLastTurn
  CardsAreTrue
  AnswersAreVisible
PROPERTIES
  SavedOnlyGrows
\* The budget runs out.
CHECK_DEADLOCK FALSE
