\* Two users: one scrubs and drags on the canvas, the other turns two inspector
\* controls and saves.
CONSTANTS
  Tick = {0, 1}
  Habits = {
    {"frame", "transform", "override", "commit", "clear", "edit", "proxy"},
    {"generator", "styles", "override", "commit", "clear", "edit", "save", "stats"}}
  MaxSent = 4
SPECIFICATION FairSpec
INVARIANT OverridesEnd
PROPERTY NothingLost ScreenSettles DraftSaved
CHECK_DEADLOCK FALSE
