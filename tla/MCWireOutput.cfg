CONSTANTS
  UsizeMax = 3
  Byte = {z, d}
  Zero = z
  Junk = Junk
  NoLimit = NoLimit
  Closed = Closed
  Adapters = {"fixed", "extend", "bounded", "grow_with"}
  Limits = {2}
  InitialLens = {0, 2}
  MaxChunk = 2
  MaxFrames = 3
SPECIFICATION Spec
CHECK_DEADLOCK FALSE
INVARIANTS
  TypeOK
  HighWaterMarkCovers
  ChildrenNested
  EmittedIsWritten
  CountCovered
  SequentialTail
PROPERTIES
  GrowthPolicy
  ErrorsChangeNothing
  ImplementsRepresentation
