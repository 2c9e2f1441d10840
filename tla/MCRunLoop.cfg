CONSTANTS
  Signal  <- MCSignal
  Value   <- MCValue
  Exec    <- MCExec
  Designs <- TheDesigns

SPECIFICATION Spec

INVARIANTS
  TypeOK
  ClockWaveform
  DueAtEdge
  AsyncResetHolds
  CombFresh
  OneEntryPerEdge

PROPERTIES
  FinishIsLast
  Terminates
  ImplementsClockedDesign
