SPECIFICATION Spec
CONSTANTS
  Families <- Overlap
  Positions = {0, 1, 2}
  Sizes = {0, 2, 3}
  Counts = {0, 2, 3}
  Extents = {2}
  FrameOffset = 0
  UsizeMax = 99
  ShortValues = 2
  WireMax = 2
INVARIANTS
  ControllersSurvive
CHECK_DEADLOCK FALSE
