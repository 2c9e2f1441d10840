CONSTANTS
  Signal  <- MCSignal
  Value   <- MCValue
  Exec    <- MCExec
  Designs <- TheDesigns

SPECIFICATION Spec

INVARIANTS
  CombFresh
