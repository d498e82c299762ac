SPECIFICATION SignalsLiveSpec
CONSTANTS
  MAX_THREAD_NUM = 3
  CounterModulus = 1
  SleepArguments <- MCSleepArguments
INVARIANTS
  SignalsTypeOK
  MaskFollowsPoint
  CallerIsRunning
  StrayOnlyThroughWindow
  PreemptionIsPrepared
PROPERTIES
  LostThreadsStayLost
  SignalHandled
  Preemption
  ReadyThreadsComeBack
