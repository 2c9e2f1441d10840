CONSTANTS
  Thread <- ThreeThreads
  MaxCycles = 2

SPECIFICATION Spec

INVARIANTS
  TypeOK
  TickExclusive
  InStep
  PassedTogether

PROPERTIES
  Concludes
  ImplementsLockStep
