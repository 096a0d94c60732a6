SPECIFICATION FairSpec
CONSTANTS
  p1 = p1
  p2 = p2
  None = None
  Procs = {p1, p2}
  fsize = 3
  Size = 4
  Counts = {1, 3}
  Admins <- OneAdmin
  Limits = {1, 3}
  Killable <- OneKillable
  DEFAULT_NR_USERS = 2
CHECK_DEADLOCK FALSE
INVARIANT AvailNotOptimistic
INVARIANT AvailNotPessimistic
INVARIANT CopyFits
INVARIANT RefCountExact
INVARIANT LeakOnlyBySignal
PROPERTY FullWriteUnlessOvertaking
PROPERTY ReadReturns
