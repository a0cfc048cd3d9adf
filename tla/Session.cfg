SPECIFICATION Spec
CONSTANTS
  None = None
  Pid = {p1, p2, p3}
  MaxLaunches = 2
INVARIANT TypeOK
INVARIANT LoopHasRoot
INVARIANT Accounted
PROPERTY CtrlCStops
