SPECIFICATION Spec
CONSTANTS
  PALETTE_CAPACITY = 3
  PERIOD_CAPACITY = 2
  INTERVAL_CAPACITY = 2
  RANKED_CAPACITY = 4
  RANKED_BLOCK = 2
  PACKED_RUN_CAPACITY = 5
  PACKED_RUN_BLOCK = 2
  U16Max = 4
  U32Max = 16
  Counts = {5, 6}
  Measures <- MCMeasures
  FACTOR_LENGTHS <- MCLengths
  FACTOR_BLOCKS <- MCBlocks
CONSTRAINT Mixture
CHECK_DEADLOCK FALSE
INVARIANTS
  GeometryProven
