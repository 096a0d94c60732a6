SPECIFICATION MCSpec
CONSTANTS
  Writers = {w1, w2}
  Values = {0, 2, 4}
  Times = {5, 10}
  IntMod = 4
  MaxStores = 4
  MaxOpens = 4
  Reqs = {r1, r2}
  NrSectors = 3
  SectorValues = {0, 1}
  Zero = 0
  Shapes <- CutOrWhole
CHECK_DEADLOCK FALSE
PROPERTY DisabledComesToRest
INVARIANT PulsesWhileEnabled
INVARIANT FreedTimerNeedsRace
INVARIANT TimerWhileOpen
INVARIANT FaultsNeedOverlap
PROPERTY IsFlatDisk
