CONSTANTS
  Call = {c1, c2}
  NoCall = NoCall
SPECIFICATION FairRpcSpec
INVARIANT HeldMeansPaused RefreshPrecedesWork
PROPERTY KeepsPromise EveryCallReturns PauseEnds
CHECK_DEADLOCK FALSE
