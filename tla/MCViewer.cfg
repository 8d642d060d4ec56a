SPECIFICATION FairSpec
CONSTANTS
  u1 = u1
  u2 = u2
  Passes = {1, 2, 3}
  Leaves = {2, 3}
  Changed = {1, 2}
  Functions = {1, 2}
  Scopes <- MCScopes
  NoSide = NoSide
  Operations <- MCOperations
  None = None
  Loads = 1
  MaxClicks = 3
  MaxFailures = 1
INVARIANTS
  ViewerTypeOK
  ShowsSelectedPass
  HistoryOfSelection
  SettledShowsSelection
  DrawnWhenLaidOut
PROPERTIES
  SelectedPassIsShown
CHECK_DEADLOCK FALSE
