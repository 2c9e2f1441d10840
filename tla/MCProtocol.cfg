CONSTANTS
  Checkers <- TheCheckers
  d1 = d1
  d2 = d2
  Data = {d1, d2}
  Level = {0, 1, 2}
  Unlimited = Unlimited
  NoPayload = NoPayload
  MaxSamples = 4

SYMMETRY Symmetry

SPECIFICATION Spec

INVARIANTS
  TypeOK
  AccusesTheGuilty
  CountsTransfers
  CleanExit
  NoFalseAlarm
