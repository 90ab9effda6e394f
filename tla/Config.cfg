SPECIFICATION Spec
CONSTANTS
  Nodes <- MCNodes
  Keys = {"b"}
  Elements = {"1", "2"}
  None = None
  leaf = leaf
  other = other
  inner = inner
  nest = nest
  last = last
  list = list
  deep = deep
  Documents <- MCDocuments
  Texts <- MCTexts
  DocKind <- MCDocKind
  DocKids <- MCDocKids
  MaxDepth = 2
  MaxLive = 2
  MaxMerge = 5
  MaxMerges = 1
  MaxHeld = 2
INVARIANTS
  TypeOK
  TreesExact
  NothingLeaked
  MergeCorrect
CHECK_DEADLOCK TRUE
