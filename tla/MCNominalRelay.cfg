SPECIFICATION Spec
CONSTANTS
  ByteBits = 2
  Layouts <- MCLayouts
  Values <- MCValues
  Speakers <- MCSpeakers
  Relays <- MCRelays
  Bodies <- MCBodies
  Foreign <- MCForeign
CHECK_DEADLOCK FALSE
INVARIANTS
  FieldsIndependent
  BuildersAgree
  WrittenReadsBack
  RelayLossless
  ExtentsHonest
