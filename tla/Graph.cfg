SPECIFICATION Spec
CONSTANTS
    tex = tex
    buf = buf
    back = back
    Textures = {tex}
    Buffers = {buf}
    Backbuffer = back
    Mips = 2
    MaxObjects = 4
    MaxAge = 1
    MaxPasses = 4
    Setups <- MCSetups
    MaxUses = 2
    MaxEdges = 4
    MultiTarget = FALSE
    StorageRepeats = FALSE
INVARIANTS
  TypeOK
  ResourcesBound
  LayoutsRight
  Synchronised
PROPERTIES
  ImplementsStream
CHECK_DEADLOCK TRUE
