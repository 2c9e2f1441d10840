CONSTANTS
  Signal  <- MCSignal
  Value   <- MCValue
  Exec    <- Generated
  Designs <- TheDesigns

SPECIFICATION AllSpec

INVARIANTS
  SameWalk
  SameSchedule
  SameTrace
  SameDictionary
  FourStateSound
  PortsFollowBindings
  CombReadFresh

PROPERTIES
  WritesOnEdge
