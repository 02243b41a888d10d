SPECIFICATION FairSpec

CONSTANTS
  Parts = {"server", "desktop", "caches"}
  Names = {"doc", "Doc", "new", "tmp"}
  Identity <- MCIdentity
  Private = "tmp"
  Theirs = Theirs
  MaxOps = 2
  MaxWrites = 2
  Users = {u1, u2}
  Limit = 1
  Gateway = Gateway
  MaxFaults = 1
  Docs = {d1, d2}
  Paths = {p1}
  Export = Export
  Quitters = {"menu"}
  MaxSaves = 0
  None = None
  Threads = {1, 2, 3}
  Process <- MCProcess
  MaxLookups = 3
  MaxBatches = 1
  Keys = {"k", "l"}
  MaxIds = 2
  MaxRequests = 4

CHECK_DEADLOCK FALSE

PROPERTIES HostsSettle
