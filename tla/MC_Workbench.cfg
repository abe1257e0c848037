SPECIFICATION Spec
CONSTANTS
  Keys = {123, 125, 120832, 121856}
  Commands = {"kLf", "kSelectAll", "kTrimTrailing", "kTitleCase"}
  Documents <- MCDocuments
  Names = {n1, n2}
  TabWidth = 2
  SplitColumn = 2
  MacroLimit = 1
  ActionLimit = 2
  MaxLength = 5
  MaxMoves = 4
  MaxMacros = 2
  Paths = {1, 2}
  SafeName <- MCSafeName
  Retention = 2
  MaxId = 3
  MaxSteps = 5
  Texts = {"t1"}
  MaxClock = 2
  InitialDisk <- MCDisk
  TypedNames <- MCTypedNames
  Excluded <- MCExcluded
  RecentLimit = 2
  MaxChanges = 4
  Builtins <- MCBuiltins
  MaxEntries = 2
  MaxDefinitions = 2
  ModuleBudget = 2
SYMMETRY NameSymmetry
INVARIANTS
  TypeOK
  TickIsRecoverable
  ReplayRepeatsTyping
  SaveSettles
PROPERTIES
  ClosingIsCareful
  ItemsStayInside
  LaunchRestores
