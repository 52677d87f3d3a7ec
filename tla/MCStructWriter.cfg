SPECIFICATION Spec
CONSTANTS
  Families <- MCFamilies
  Positions = {0, 4}
  Sizes = {0, 2, 3}
  Counts = {0, 2, 3}
  Extents = {2}
  FrameOffset = 0
  UsizeMax = 99
  ShortValues = 2
  WireMax = 2
INVARIANTS
  RoundTrip
  NothingStale
  WritersAgree
CHECK_DEADLOCK FALSE
