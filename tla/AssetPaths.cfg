SPECIFICATION Spec
CONSTANTS
  ta = ta
  tb = tb
  Types = {ta}
  Paths = {pa, pb}
  MaxSlots = 2
  GenerationModulus = 8
  NoHandle = NoHandle
  NoPath = NoPath
  MaxRequests = 2
  Statuses = {"DONE", "FAILED", "PENDING", "WAIT"}
  Requirements = {"required"}
  SameTypeNested = FALSE
  EarlyRetain = FALSE
  ForcedTypes = {ta}
  MaxGeneration = 2
  MaxHeld = 1
  MaxDeps = 1
  MaxCalls = 3
  CallbackOps <- NoOps
  MayDepend <- AnyDepends
INVARIANTS
  StorageExact
