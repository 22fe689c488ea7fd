SPECIFICATION SafeSpec
CONSTANTS
  Uids = {u1}
  NoUid = NoUid
  Admins = {}
  Works = {w1}
  NoWork = NoWork
  Requests = {r1, r2}
  Run = Run
  Ops = {"enqueue", "rerun", "continue", "delete", "create", "exclusive"}
  SwapKinds = {"reset", "uncarried"}
  PerOwner = 2
  MaxJob = 2
  MaxGen = 2
  MaxInc = 2
SYMMETRY Interchangeable
INVARIANTS
  NotForAnotherAccount
PROPERTIES
  LivesAsPromised
CHECK_DEADLOCK FALSE
