SPECIFICATION FairSpec
CONSTANTS
  Uids = {u1}
  NoUid = NoUid
  Admins = {}
  Works = {w1, w2}
  NoWork = NoWork
  Requests = {r1}
  Run = Run
  Ops = {"enqueue", "stop"}
  SwapKinds = {}
  PerOwner = 2
  MaxJob = 2
  MaxGen = 1
  MaxInc = 1
PROPERTIES
  WaitingJobLeaves
  StoppedJobEnds
