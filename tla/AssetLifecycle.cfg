SPECIFICATION Spec
CONSTANTS
  ta = ta
  tb = tb
  Types = {ta, tb}
  Paths = {pa}
  MaxSlots = 1
  GenerationModulus = 8
  NoHandle = NoHandle
  NoPath = NoPath
  MaxRequests = 2
  Statuses = {"DONE", "FAILED", "PENDING", "WAIT"}
  Requirements = {"required"}
  SameTypeNested = FALSE
  EarlyRetain = TRUE
  ForcedTypes = {ta, tb}
  MaxGeneration = 1
  MaxHeld = 2
  MaxDeps = 1
  MaxCalls = 3
  CallbackOps <- UsesEverything
  MayDepend <- AnyDepends
INVARIANTS
  TypeOK
  GraphSymmetric
  JobsMatch
  NothingLeaked
  NoReentrantDestroy
PROPERTIES
  CancelIsFinal
