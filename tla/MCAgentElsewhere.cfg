CONSTANTS
  Draft = {d1, d2}
  None = None
  MaxEdits = 1
  MaxHosts = 0
  MaxTurns = 1
  MaxPrompts = 1
  MaxRequests = 1
  MaxOpens = 1
  MaxPresses = 0
  MaxChats = 1
  Tools = {}
SPECIFICATION Spec
INVARIANT PlanStaysWithItsProject
CHECK_DEADLOCK FALSE
