CONSTANTS
  Texts = {t1, t2}
  Empty = Empty
  Gone = Gone
  MaxCommands = 3
  MaxLaunches = 2
SPECIFICATION Spec
INVARIANTS UnsavedIsRestored
CHECK_DEADLOCK FALSE
