SPECIFICATION Spec
CONSTANTS
  Requests = {r1, r2}
  NoReq = NoReq
  Admins = {1}
  AutoCreate = TRUE
  MaxLib = 3
  MaxSwaps = 2
  MaxDownloads = 2
SYMMETRY Symmetry
CHECK_DEADLOCK FALSE
INVARIANTS
  TypeOK
  OldIsKept
  AnswersAreTrue
  NoForeignLog
  OneDownloadOneReplacement
  CopyCoversWhatGoes
  SignUpIsNotSwappedAway
