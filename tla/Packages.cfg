\* Three packages on disk, one of them linked into the host too, any
\* dependencies between them, two calls of load_packages.
SPECIFICATION FairSpec
CONSTANTS
  TheApp = app
  VfsPlugin = "pulse_vfs"
  None = "none"
  Packages <- MCPackageSet
  ManifestName <- MCManifestName
  Assets = {"p"}
  Scripts = {"s"}
  Runtimes = {"p"}
  Composites = {"p"}
  SubPlugin = "sub"
  OnDisk = {"p", "q", "s"}
  Statics = {"q"}
  DepLists <- MCDepLists
  Roots = {"root"}
  HostDirs = {"data"}
  BuildsFail = FALSE
  Reload = FALSE
  MaxLoads = 2
  MaxEntries = 3
INVARIANTS
  TypeOK
  LibrariesRight
  MountsExact
  RegisteredInOrder
PROPERTIES
  SortExact
  LoadReturns
CHECK_DEADLOCK TRUE
