CONSTANTS
  Asked = asked
  Nothing = nothing
  None = none
  Unread = unread
  MaxPolls = 1
  Provider <- MCProvider
  Local = "ollama"
  ModelsOf <- MCModelsOf
  Preset <- MCPreset
  Budgets <- MCBudgets
SPECIFICATION Spec
INVARIANTS
  PagesAreCurrent
  SettingsHold
PROPERTIES
  ViewsCatchUp
