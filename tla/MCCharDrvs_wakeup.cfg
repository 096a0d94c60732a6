SPECIFICATION FairSpec
CONSTANTS
  p1 = p1
  p2 = p2
  None = None
  Procs = {p1, p2}
  fsize = 2
  Size = 2
  Counts = {1, 2}
  Admins <- Nobody
  Limits = {}
  Killable <- Nobody
  DEFAULT_NR_USERS = 2
CHECK_DEADLOCK FALSE
PROPERTY WriterWokenUp
