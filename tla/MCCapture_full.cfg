SPECIFICATION Spec
CONSTANTS
  Texts = {x}
  NoText = NoText
  Passes = {A, c, d}
  NoPass = NoPass
  Threads = {main, w}
  Main = main
  MaxRows = 5
  FaultyDisk = TRUE
  Fidelity = "full"
  OpsPerSnapshot = 2
  ForeignHandler = FALSE
  Nesting = {A}
  Tolerant = {A}
  MayFail = {c}
  Reruns = FALSE
  MaxDepth = 4
  MaxEvents = 2
INVARIANTS
  Readable
  CompletedIsIndexed
  InnermostPassTracked
  EventsAttributed
CHECK_DEADLOCK FALSE
