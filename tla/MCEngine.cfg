SPECIFICATION Spec
CONSTANTS
  FunctionNames = {1, 2}
  Symbols <- MCSymbols
  OpForms <- MCOpForms
  Carriers <- MCCarriers
  Callees = {1}
  Budgets = {1, 2, 3, 4}
  MaxLines = 5
  MaxRegions = 3
  MaxEdits = 1
INVARIANTS
  FunctionsAreScopes
  PathsAreRegions
  TokensNameOperations
  DiffAccountsForAll
  DiffMissesNoPair
  GraphsKeepToBudget
  GraphsLoseNothing
  GraphsShowWhatFits
CHECK_DEADLOCK FALSE
