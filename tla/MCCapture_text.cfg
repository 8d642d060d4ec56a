SPECIFICATION Spec
CONSTANTS
  Texts = {x, y}
  NoText = NoText
  Passes = {A, c, d}
  NoPass = NoPass
  Threads = {main, w}
  Main = main
  MaxRows = 5
  FaultyDisk = TRUE
  Fidelity = "text"
  OpsPerSnapshot = 1
  ForeignHandler = FALSE
  Nesting = {A}
  Tolerant = {}
  MayFail = {c, d}
  Reruns = TRUE
  MaxDepth = 3
  MaxEvents = 0
INVARIANTS
  TypeOK
  Forest
  SiblingOrder
  RootSummarises
  ErrorsSurface
PROPERTIES
  FrozenAfterStop
CHECK_DEADLOCK FALSE
