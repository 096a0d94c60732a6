SPECIFICATION MCSpec
CONSTANTS
  r1 = r1
  r2 = r2
  a = a
  b = b
  c = c
  None = None
  Readers = {r1, r2}
  Killable = {r1}
  Data = {a, b, c}
  JIT_ASYNC_LOOPS = 2
  Delayed = {r1, r2}
  DelayKillable = {r1}
  delay = 2
  JiffiesMod = 8
  MaxWait = 10
CHECK_DEADLOCK FALSE
INVARIANT FreedAfterLastLine
INVARIANT AbandonedOnlyBySignal
INVARIANT ReadComplete
INVARIANT DelayKept
PROPERTY ReadsEnd
