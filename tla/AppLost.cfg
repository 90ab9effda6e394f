SPECIFICATION Spec
CONSTANTS
  Apps = {a1}
  Names = {p1, p2, p3}
  Dependencies <- AllLists
  BuildsFail = TRUE
  AddWhileReady = FALSE
INVARIANTS
  AcceptedKnown
