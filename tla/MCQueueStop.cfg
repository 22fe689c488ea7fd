SPECIFICATION SafeSpec
CONSTANTS
  Uids = {u1}
  NoUid = NoUid
  Admins = {u1}
  Works = {w1}
  NoWork = NoWork
  Requests = {r1, r2}
  Run = Run
  Ops = {"enqueue", "stop", "stopAll"}
  SwapKinds = {}
  PerOwner = 2
  MaxJob = 2
  MaxGen = 1
  MaxInc = 1
SYMMETRY Interchangeable
INVARIANTS
  TypeOK
  StoppedNeverWorks
  NoDuplicateWork
  MarkOnRunningJobIsTakenBack
