SPECIFICATION ComputedSpec
CONSTANTS
  MaxLength = 4
  MaxFields = 3
  Structs <- MCStructs
  Parents <- MCParents
  Contents <- MCContents
CHECK_DEADLOCK FALSE
INVARIANTS
  ChunksExact
  ComputedConsistent
  CallbacksSeeTheStruct
