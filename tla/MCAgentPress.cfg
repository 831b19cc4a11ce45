CONSTANTS
  Draft = {d1, d2}
  None = None
  MaxEdits = 1
  MaxHosts = 2
  MaxTurns = 1
  MaxPrompts = 1
  MaxRequests = 0
  MaxOpens = 0
  MaxPresses = 2
  MaxChats = 1
  Tools = {"project", "system"}
SPECIFICATION Spec
INVARIANT ApprovedCardWasShown
CHECK_DEADLOCK FALSE
