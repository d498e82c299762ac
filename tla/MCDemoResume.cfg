SPECIFICATION DemoSpec
CONSTANTS
  MAX_THREAD_NUM = 4
  CounterModulus = 64
  SleepArguments <- DemoSleeps
  MaxQuantums = 40
  MaxHasty = 1
INVARIANTS
  ResumedInQuantum25
