SPECIFICATION Spec
CONSTANTS
  WordSize = 4
  Rotation = 1
  Address <- SomeAddresses
  MaxCount = 15
INVARIANTS
  TypeOK
  EachOnItsStack
  TurnsAlternate
  HelloIsNeverPrinted
