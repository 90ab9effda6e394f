SPECIFICATION FairSpec
CONSTANTS
  Apps = {a1, a2}
  Names = {p1, p2}
  Dependencies <- OnOne
  BuildsFail = TRUE
  AddWhileReady = FALSE
INVARIANTS
  Consistent
  ShutdownCorrect
PROPERTIES
  CallsReturn
  RunEndsShutdown
