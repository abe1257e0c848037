\* The content opened, a save, and two more contents by saves or by others;
\* a message box and one that the timer opens on top of it.
CONSTANTS
  MaxContents = 4
  MaxBoxes = 2
SPECIFICATION Spec
INVARIANTS TypeOK StampIsOfText
PROPERTIES StampedSaveKeepsOthers UnsavedEditsAreKept ChangeIsHandled
\* Writing stops at the bound on contents.
CHECK_DEADLOCK FALSE
