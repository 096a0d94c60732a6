SPECIFICATION Spec
CONSTANTS
  p1 = p1
  p2 = p2
  p3 = p3
  d1 = d1
  None = None
  Procs = {p1, p2, p3}
  Devs = {d1}
  Size = 2
  CounterMod = 4
  Counts = {1, 3}
SYMMETRY Interchange
INVARIANT ReadsHead
PROPERTY IsBoundedFifo
