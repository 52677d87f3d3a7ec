SPECIFICATION Spec
CONSTANTS
  Families <- Reordered
  Positions = {0, 3, 5}
  Sizes = {0, 2, 3}
  Counts = {0, 2, 3}
  Extents = {2}
  FrameOffset = 0
  UsizeMax = 99
  ShortValues = 2
  WireMax = 2
INVARIANTS
  ReorderedRoundTrip
CHECK_DEADLOCK FALSE
