SPECIFICATION Spec
CONSTANTS
  MAX_THREAD_NUM = 2
  CounterModulus = 1
  SleepArguments <- AnySleepArguments
INVARIANTS
  NoAssertionFails
