CONSTANTS
  a = a
  b = b
  Bom = Bom
  Bytes <- MCBytes
  Files <- MCFiles
  Window = 2
  Chunk = 2
  MaxWrites = 1
  MaxCommands = 2
SPECIFICATION Spec
INVARIANT WindowIsMapped
CHECK_DEADLOCK FALSE
