CONSTANTS
  Thread <- ThreeThreads
  MaxCycles = 2

SPECIFICATION Spec

PROPERTIES
  RaisesOriginal
