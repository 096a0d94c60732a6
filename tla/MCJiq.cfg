SPECIFICATION MCSpec
CONSTANTS
  r1 = r1
  r2 = r2
  Readers = {r1, r2}
  None = None
  LIMIT = 3
  BufSize = 6
  MaxReads = 2
  Files = {"wq", "wq_delayed", "tasklet", "timer"}
  Interruptible = {"wq", "wq_delayed", "tasklet", "timer"}
CHECK_DEADLOCK FALSE
 
 
 
PROPERTY WorkqueueReadsReturn
