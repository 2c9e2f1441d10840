CONSTANTS
  Signal  <- MCSignal
  Value   <- MCValue
  Exec    <- MCExec
  Designs <- TheDesigns
  Deposits <- TheDeposits
  Registrations <- TheRegistrations
  DeltaLimit = 1
  MaxSteps = 2
  MaxAtStart = 2
  MaxCallbacks = 4

SPECIFICATION Spec

INVARIANTS
  TypeOK
  OneShot
  DeregisteredSilent
  NothingLeftBehind
  ReadOnlySettled
  StagingInvisible
  NoChangeMissed
  DrivenEdgeRuns
