\* An edit, an undo or a save, an attempt to close and a change of mind, in
\* three launches; texts and the empty one, with and without the file.
CONSTANTS
  Texts = {t1, t2}
  Empty = Empty
  Gone = Gone
  MaxCommands = 4
  MaxLaunches = 3
SPECIFICATION Spec
INVARIANTS TypeOK CrashIsHarmless CloseIsHarmless
PROPERTIES EditIsSnapshotted
\* The last launch ends at the bound.
CHECK_DEADLOCK FALSE
