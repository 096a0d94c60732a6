SPECIFICATION Spec
CONSTANTS
  p1 = p1
  p2 = p2
  c1 = c1
  c2 = c2
  None = None
  Procs = {p1, p2}
  Bauds = {0, 4800, 9600}
  Parities = {"none", "even"}
  Requests <- EachLine
  Garbage <- Leftovers
  Chips = {c1, c2}
  Times <- LastSeconds
  Asked <- SomeAsked
  INT_MAX = 2147483647
  Wild <- Anything
  Errors <- Unplugged
  MaxTicks = 1
  MaxOps = 2
  MaxErrors = 1
CHECK_DEADLOCK FALSE
INVARIANT LinesAsAsked
