SPECIFICATION FairSpec
CONSTANTS
  Windows = {w1}
  Sizes = {0, 1, 2}
  Slots = 2
  Images = {2, 3}
  Textures = {t1}
  MaxUploads = 1
  MaxChains = 2
  MaxGeneration = 2
INVARIANTS
  TypeOK
  NothingReusedInUse
  SwapchainsSafe
  FlagsAlive
  UploadedFirst
PROPERTIES
  UploadsSettle
CHECK_DEADLOCK TRUE
