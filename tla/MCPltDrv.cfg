SPECIFICATION Spec
CONSTANTS
  p1 = p1
  p2 = p2
  None = None
  NR_MINOR_DEVCS = 2
  NrMod = 4
  Tree = {1}
  Procs = {p1, p2}
SYMMETRY Interchange
CHECK_DEADLOCK FALSE
INVARIANT DistinctMinors
INVARIANT NothingLeft
INVARIANT BoundDeviceWorks
