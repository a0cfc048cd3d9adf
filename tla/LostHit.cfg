SPECIFICATION Spec
CONSTANTS
  None = None
  main = main
  worker = worker
  guarded = guarded
  child = child
  root = root
  other = other
  Root = root
  Process = {root}
  Thread = {main, worker}
  ProcOf <- MCProcOf
  Main <- MCMain
  Denied = {}
  Slot = {0, 1}
  Target <- Aligned
  Access <- Accesses
  Tracking = FALSE
  MaxId = 2
PROPERTY HitsAreReported
