CONSTANTS
  MaxContents = 3
  MaxBoxes = 1
SPECIFICATION Spec
PROPERTIES SaveKeepsOthers
CHECK_DEADLOCK FALSE
