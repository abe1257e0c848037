SPECIFICATION Spec
CONSTANTS
  Chars = {"x", "n"}
  LineFeed = "n"
  Unread = "?"
  MaxBytes = 2
  MaxLength = 3
  MaxEdits = 2
  MaxOpens = 2
INVARIANTS
  TypeOK
  AtRestBetweenExchanges
  NoHostLeftBehind
PROPERTIES
  AnswersAreOfText
  EditorAnswers
CHECK_DEADLOCK FALSE
