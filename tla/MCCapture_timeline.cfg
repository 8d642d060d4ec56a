SPECIFICATION FairSpec
CONSTANTS
  Texts = {x}
  NoText = NoText
  Passes = {A, B, c, d}
  NoPass = NoPass
  Threads = {main, w}
  Main = main
  MaxRows = 6
  FaultyDisk = FALSE
  Fidelity = "timeline"
  OpsPerSnapshot = 1
  ForeignHandler = FALSE
  Nesting = {A, B}
  Tolerant = {B}
  MayFail = {c}
  Reruns = FALSE
  MaxDepth = 5
  MaxEvents = 0
INVARIANTS
  UnmarkedParents
  StacksDrain
PROPERTIES
  ImplementsPassTree
  EveryPassCompletes
CHECK_DEADLOCK FALSE
