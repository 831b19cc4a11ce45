CONSTANTS
  TrackId = {1, 2, 3}
  ClipId = {1, 2, 3}
  Media = {m1, m2}
  MediaLen = 2
  Habits <- AllHabits
  UndoLimit = 2
  MaxRevision = 4
  NoGroup = NoGroup
  NoFile = NoFile
SPECIFICATION Spec
INVARIANT ClipsFit JunctionsLive InversesApply LanesZoned CleanMeansSaved
PROPERTY RevisionTracksDocument ImplementsUndo
CHECK_DEADLOCK FALSE
