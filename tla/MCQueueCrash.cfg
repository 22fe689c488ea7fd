SPECIFICATION SafeSpec
CONSTANTS
  Uids = {u1}
  NoUid = NoUid
  Admins = {}
  Works = {w1}
  NoWork = NoWork
  Requests = {r1, r2}
  Run = Run
  Ops = {"enqueue", "stop", "lock", "close", "crash", "exclusive"}
  SwapKinds = {"recover"}
  PerOwner = 2
  MaxJob = 1
  MaxGen = 3
  MaxInc = 1
SYMMETRY Interchangeable
INVARIANTS
  RunningReadsRunning
  NoLostWakeup
  RunHasItsSecret
PROPERTIES
  LivesAsPromised
