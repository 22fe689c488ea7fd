SPECIFICATION HungKindSpec
CONSTANTS
  Uids = {u1}
  NoUid = NoUid
  Admins = {}
  Works = {w1}
  NoWork = NoWork
  Requests = {r1}
  Run = Run
  Ops = {"enqueue", "stop", "stopAll", "lock", "close", "exclusive"}
  SwapKinds = {"update", "reindex"}
  PerOwner = 2
  MaxJob = 1
  MaxGen = 1
  MaxInc = 1
PROPERTIES
  CloseReturns
  StopAnswered
