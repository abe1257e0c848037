\* A snapshot being written, one queued behind it and one that replaces that
\* one, with two crashes or exits in between.
CONSTANTS
  MaxSnapshots = 4
  MaxLaunches = 3
SPECIFICATION Spec
INVARIANTS TypeOK FlushIsHonest SessionFileIsWhole DestroyedIsDrained
PROPERTIES DestructorReturns ImplementsDurableSnapshot
\* The process ends after its last start.
CHECK_DEADLOCK FALSE
