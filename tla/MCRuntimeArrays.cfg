SPECIFICATION ArraysSpec
CONSTANTS
  Schemas <- MCSchemas
  Contents <- MCContents
  StreamLength = 5
  ArrayContents <- MCArrayContents
  Counts = {0, 1, 2, 3, 5}
  MaxLength = 4
  UsizeMax = 8
CHECK_DEADLOCK FALSE
INVARIANTS
  ChunkingInvisible
  OnlyValidItems
  PrevalidationSuffices
  EndMeansConsumed
  EagerMatchesLazy
