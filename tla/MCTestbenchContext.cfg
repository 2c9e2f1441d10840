CONSTANTS
  Signal    <- MCSignal
  Value     <- MCValue
  Exec      <- MCExec
  Designs   <- TheDesigns
  Track     <- MCTrack
  LevelValue <- MCLevelValue
  Active    <- MCActive
  Settable  <- MCSettable
  Forceable <- MCForceable
  Input     <- MCInput
  Fit       <- MCFit
  MaxForced = 1
  MaxTicks  = 2
  MaxCycles = 3

SPECIFICATION Spec

INVARIANTS
  TypeOK
  TicksCompose
  HistoryPerCycle
  SettledAfterTick
