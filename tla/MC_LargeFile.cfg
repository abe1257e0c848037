CONSTANTS
  a = a
  b = b
  Bom = Bom
  Bytes <- MCBytes
  Files <- MCFiles
  Window = 2
  Chunk = 2
  MaxWrites = 1
  MaxCommands = 2
SPECIFICATION Spec
INVARIANTS TypeOK TableIsText LoadedWindowIsMapped
PROPERTIES SavedIsText FollowMissesNoGrowth
CHECK_DEADLOCK FALSE
