SPECIFICATION Spec
CONSTANTS
  None = None
  main = main
  worker = worker
  guarded = guarded
  child = child
  root = root
  other = other
  Root = root
  Process = {root, other}
  Thread = {main, worker, guarded, child}
  ProcOf <- MCProcOf
  Main <- MCMain
  Denied = {guarded}
  Slot = {0, 1}
  Target <- Aligned
  Access <- Accesses
  Tracking = TRUE
  MaxId = 2
CONSTRAINT Bounded
INVARIANT TypeOK
INVARIANT ArmedEverywhere
PROPERTY ReportsAreTrue
