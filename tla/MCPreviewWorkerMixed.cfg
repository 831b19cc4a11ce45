CONSTANTS
  Tick = {0}
  Habits = {{"transform", "generator", "override", "edit"}}
  MaxSent = 3
SPECIFICATION Spec
INVARIANT NeverUnreachable
CHECK_DEADLOCK FALSE
