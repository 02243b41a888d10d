SPECIFICATION Spec

CONSTANTS
  Parts = {"disk", "server", "desktop", "caches", "library", "keys"}
  Names = {"doc", "Doc", "new", "tmp"}
  Identity <- MCIdentity
  Private = "tmp"
  Theirs = Theirs
  MaxOps = 2
  MaxWrites = 2
  Users = {u1, u2}
  Limit = 1
  Gateway = Gateway
  MaxFaults = 2
  Docs = {d1, d2}
  Paths = {p1, p2}
  Export = Export
  Quitters = {"menu", "update"}
  MaxSaves = 1
  None = None
  Threads = {1, 2, 3}
  Process <- MCProcess
  MaxLookups = 4
  MaxBatches = 2
  Keys = {"k", "l"}
  MaxIds = 2
  MaxRequests = 4

SYMMETRY HostsSymmetry
CHECK_DEADLOCK FALSE

INVARIANTS DocumentsOwned KeysFollow
PROPERTIES FilesAreSafe WorkersBounded CacheIsKept LibraryIsSafe
