SPECIFICATION Spec
CONSTANTS
  x = x
  y = y
  z = z
  i = i
  j = j
  k = k
  f1 = f1
  f2 = f2
  f3 = f3
  Functions = {f1, f2, f3}
  NumPasses = 3
  Blobs = {i, j, k}
  Texts = {x, y, z}
  NoText = NoText
  NoBlob = NoBlob
  Chains <- MCChains
  Defines <- MCDefines
  TimelineCapacity = 3
  ChainCapacity = 4
  Clients = {a}
  Requests <- OpsRequests
  Traces <- TwoTraces
INVARIANT AnswersFromTrace
CHECK_DEADLOCK FALSE
