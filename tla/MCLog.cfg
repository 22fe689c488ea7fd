SPECIFICATION Spec
CONSTANTS
  Flushers = {f1}
  Closer = Closer
  Kinds = {"request", "job", "row"}
  MaxUnits = 2
  BatchUnits = 2
  PruneEvery = 1
  MaxLines = 3
  MaxDropped = 0
  MaxGen = 2
  MaxName = 2
INVARIANTS
  TypeOK
  NothingLostUntold
  WorkHasADrainer
  FlushKeepsItsWord
  
PROPERTIES
  LeastGoesFirst
