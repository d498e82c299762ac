SPECIFICATION LiveSpec
CONSTANTS
  MAX_THREAD_NUM = 4
  CounterModulus = 2
  SleepArguments <- MCSleepArguments
PROPERTIES
  RoundRobin
  LivesFollowLifecycle
  ReadyThreadsRun
  SleepersWake
  MainRunsAgain
