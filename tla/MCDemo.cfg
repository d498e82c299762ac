SPECIFICATION DemoSpec
CONSTANTS
  MAX_THREAD_NUM = 4
  CounterModulus = 64
  SleepArguments <- DemoSleeps
  MaxQuantums = 40
  MaxHasty = 25
INVARIANTS
  DemoTypeOK
  Timetable
  ThreadsAreWhoTheyAre
  NobodyRunsAhead
