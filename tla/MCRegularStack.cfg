SPECIFICATION SignalsSpec
CONSTANTS
  MAX_THREAD_NUM = 2
  CounterModulus = 1
  SleepArguments <- MCSleepArguments
INVARIANTS
  MainUsesRegularStack
