SPECIFICATION FairSpec
CONSTANTS
  ta = ta
  tb = tb
  Types = {ta, tb}
  Paths = {pa}
  MaxSlots = 1
  GenerationModulus = 8
  NoHandle = NoHandle
  NoPath = NoPath
  MaxRequests = 1
  Statuses = {"DONE", "FAILED", "PENDING", "WAIT"}
  Requirements = {"required"}
  SameTypeNested = FALSE
  EarlyRetain = FALSE
  ForcedTypes = {}
  MaxGeneration = 1
  MaxHeld = 1
  MaxDeps = 1
  MaxCalls = 3
  CallbackOps <- StartsLoads
  MayDepend <- OneWay
PROPERTIES
  LoadsSettle
  DrainCompletes
