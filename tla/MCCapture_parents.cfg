SPECIFICATION Spec
CONSTANTS
  Texts = {x}
  NoText = NoText
  Passes = {A, c, d}
  NoPass = NoPass
  Threads = {main}
  Main = main
  MaxRows = 5
  FaultyDisk = FALSE
  Fidelity = "timeline"
  OpsPerSnapshot = 1
  ForeignHandler = FALSE
  Nesting = {A}
  Tolerant = {A}
  MayFail = {c}
  Reruns = FALSE
  MaxDepth = 3
  MaxEvents = 0
INVARIANT ParentIsEnclosing
CHECK_DEADLOCK FALSE
