SPECIFICATION FairSpec
CONSTANTS
  None = None
  main = main
  worker = worker
  handler = handler
  child = child
  attach = attach
  call = call
  malloc = malloc
  body = body
  tail = tail
  ret = ret
  last = last
  free = free
  root = root
  other = other
  b1 = b1
  Root = root
  MainThread = main
  CtrlHandler = handler
  Addr <- MCAddr
  Flow <- MCFlow
  Fall <- MCFall
  Line <- MCLine
  ProcOf <- MCProcOf
  Call = {call}
  OwnInt3 = {attach}
  ReturnSites <- MCReturnSites
  Entry = attach
  Process = {root}
  Thread = {main}
  Denied = {}
  HookKind <- FreeOnly
  Block = {b1}
  Breakable = {call, ret, last}
  Commands = {"break", "delete", "continue", "step", "next", "up", "leak start", "leak stop"}
  Happenings = {}
INVARIANT OneReplyOwed
INVARIANT NoStrayInt3
INVARIANT EnabledIffPlanted
INVARIANT ArmedAtPrompt
INVARIANT RearmIsComing
INVARIANT TemporariesPlanted
INVARIANT OriginalKept
PROPERTY RunsAsAlone
PROPERTY InstructionsComplete
