SPECIFICATION MCSpec
CONSTANTS
  r1 = r1
  r2 = r2
  Readers = {r1}
  None = None
  LIMIT = 7
  MaxReads = 3
  BufSize = 10
  Files = {"wq", "wq_delayed", "tasklet", "timer"}
  Interruptible = {}
CHECK_DEADLOCK FALSE
PROPERTY CompletionEndsSleep
