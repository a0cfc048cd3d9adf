SPECIFICATION Spec
CONSTANTS
  None = None
  main = main
  worker = worker
  handler = handler
  child = child
  attach = attach
  call = call
  malloc = malloc
  body = body
  tail = tail
  ret = ret
  last = last
  free = free
  root = root
  other = other
  b1 = b1
  Root = root
  MainThread = main
  CtrlHandler = handler
  Addr <- ShortAddr
  Flow <- ShortFlow
  Fall <- NoFall
  Line <- MCLine
  ProcOf <- MCProcOf
  Call = {}
  OwnInt3 = {attach}
  ReturnSites <- NoReturn
  Entry = attach
  Process = {root}
  Thread = {main, worker}
  Denied = {}
  HookKind <- NoHooks
  Block = {}
  Breakable = {call, last}
  Commands = {"break", "continue"}
  Happenings = {}
INVARIANT DisabledIsPending
