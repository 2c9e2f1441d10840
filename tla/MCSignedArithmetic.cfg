CONSTANTS
  Signal  <- MCSignal
  Value   <- MCValue
  Exec    <- Generated
  Designs <- SignedDesigns

SPECIFICATION AllSpec

PROPERTIES
  TruncatesTowardZero
