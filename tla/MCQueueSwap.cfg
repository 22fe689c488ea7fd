SPECIFICATION SafeSpec
CONSTANTS
  Uids = {u1}
  NoUid = NoUid
  Admins = {}
  Works = {w1}
  NoWork = NoWork
  Requests = {r1, r2}
  Run = Run
  Ops = {"enqueue", "stop", "exclusive"}
  SwapKinds = {"restore", "rollback"}
  PerOwner = 2
  MaxJob = 2
  MaxGen = 3
  MaxInc = 1
SYMMETRY Interchangeable
INVARIANTS
  HandInGeneration
  
PROPERTIES
  LivesAsPromised
