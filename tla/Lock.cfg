SPECIFICATION Spec
CONSTANTS
  None = None
  main = main
  worker = worker
  guarded = guarded
  child = child
  root = root
  other = other
  Root = root
  Process = {root, other}
  Thread = {main, worker, guarded, child}
  ProcOf <- MCProcOf
  Main <- MCMain
  Denied = {guarded}
  Refusing = {}
  Lockable = {main, worker}
  MaxSuspend = 2
INVARIANT TypeOK
INVARIANT SuspendedOnce
INVARIANT FreezeHasOwner
INVARIANT SomeoneRuns
PROPERTY KeepsFreeze
