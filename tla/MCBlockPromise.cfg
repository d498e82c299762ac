SPECIFICATION ContractSpec
CONSTANTS
  MAX_THREAD_NUM = 3
  CounterModulus = 4
  SleepArguments <- MCSleepArguments
INVARIANTS
  BlockedThreadsNeverRun
