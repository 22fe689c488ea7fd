SPECIFICATION Spec
CONSTANTS
  Requests = {r1}
  NoReq = NoReq
  Admins = {1}
  AutoCreate = TRUE
  MaxLib = 3
  MaxSwaps = 2
  MaxDownloads = 1
CHECK_DEADLOCK FALSE
INVARIANTS
  UsersEmptyAtTheSwap
