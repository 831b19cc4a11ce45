CONSTANTS
  Draft = {d1, d2}
  None = None
  MaxEdits = 1
  MaxHosts = 2
  MaxTurns = 2
  MaxPrompts = 2
  MaxRequests = 2
  MaxOpens = 1
  MaxPresses = 2
  MaxChats = 2
  Tools = {"project", "system"}
SPECIFICATION MCFairSpec
CONSTRAINT Bounds
INVARIANT SandboxMirrorsPlan HistoryForgets PrefixLands FirstPressDecides
PROPERTY StepsLandOnce StopEndsPrompt
CHECK_DEADLOCK FALSE
