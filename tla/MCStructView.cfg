SPECIFICATION Spec
CONSTANTS
  Families <- MCFamilies
  Values = {0, 1, 2, 7, 8}
  Extents = {1, 2}
  Lengths = {0, 1, 2, 3, 4, 5, 6}
  FrameOffset = 1
  UsizeMax = 7
INVARIANTS
  RangesReconstructed
  FixedSizeHonest
  PrefixDetermined
  IncompleteNeedsMore
CHECK_DEADLOCK FALSE
