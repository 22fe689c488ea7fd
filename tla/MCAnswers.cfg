SPECIFICATION Spec
CONSTANTS
  Tabs = {t1, t2}
  Readers = {A, B}
  Quizzed = {A}
  NoReader = NoReader
  MaxAnswers = 2
  MaxLate = 1
  Deletable = {1}
SYMMETRY AnyTab
INVARIANTS
  TypeOK
  
  
PROPERTIES
  QuietOnlyWhenDone
CHECK_DEADLOCK FALSE
