SPECIFICATION Spec
CONSTANTS
  MAX_THREAD_NUM = 5
  CounterModulus = 1
  SleepArguments <- MCSleepArguments
INVARIANTS
  TypeOK
  Consistent
  NoAssertionFails
PROPERTIES
  IdsAreSmallestFree
