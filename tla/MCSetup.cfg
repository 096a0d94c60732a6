SPECIFICATION Spec
CONSTANTS
  NR_MINOR_DEVCS = 2
  Together <- AloneOrInPairs
  ImgSize = 5
  Chunk = 3
CHECK_DEADLOCK FALSE
INVARIANT LeavesNothing
INVARIANT LoadedIsComplete
INVARIANT UndoesWhatIsThere
INVARIANT GuestSeesImage
