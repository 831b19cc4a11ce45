\* Two drafts; what happens is bounded by three habits.
CONSTANTS
  Draft = {d1, d2}
  NoDraft = NoDraft
  Nothing = Nothing
  Habits <- DraftHabits
SYMMETRY Interchangeable
SPECIFICATION Spec
INVARIANT KeptSomewhere DeletedStaysAway
PROPERTY SwitchLosesNothing
CHECK_DEADLOCK FALSE
