CONSTANTS
  Signal  <- MCSignal
  Value   <- MCValue
  Exec    <- MCExec
  Designs <- TheDesigns
  Deposits <- TheDeposits
  Registrations <- TheRegistrations
  DeltaLimit = 1
  MaxSteps = 2
  MaxAtStart = 2
  MaxCallbacks = 2

SPECIFICATION Spec

INVARIANT WatchersSeePreNBA
