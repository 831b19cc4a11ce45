CONSTANTS
  Spawner = {s1}
  Subscriber = {u1}
  MaxJobs = 2
  MaxProgress = 1
  KeepFinished = 1
SPECIFICATION FairSpec
INVARIANT OneWinner ReportMatchesEffect CaughtUp
PROPERTY TerminalIsFinal EventsInOrder EveryJobFinishes SubscribersLearn ImplementsLifecycle
CHECK_DEADLOCK FALSE
