SPECIFICATION Spec
CONSTANTS
  Tabs = {t1, t2}
  Readers = {A, B}
  Quizzed = {A}
  NoReader = NoReader
  MaxAnswers = 1
  Deletable = {}
  MaxLate = 0
INVARIANTS
  OthersAnswersWait
CHECK_DEADLOCK FALSE
