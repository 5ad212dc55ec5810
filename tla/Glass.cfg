SPECIFICATION Spec
CONSTANTS
  None = None
  NoQuiz = NoQuiz
  Rows = {1, 2}
  Cols = {1, 2}
  DebounceSamples = 3
  WordList <- WordListDef
  LastLetter = 3
  BackupWords = 3
  Radix = 3
  MaxIndex = 5
  Dictionary = {"x", "y", "z", "w"}
  Share <- ShareDef
  QuizPositions = 3
INVARIANTS
  ReportedWasHeld
  EveryWordIsTypable
  PassIsEarned
PROPERTIES
  HeldIsReported
  NothingIsDiscarded
CHECK_DEADLOCK FALSE
