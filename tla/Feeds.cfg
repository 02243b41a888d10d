SPECIFICATION FairSpec

CONSTANTS
  Parts = {"rows", "tasks", "sources", "window"}
  Capacity = 1
  MaxCommits = 2
  MaxDrops = 0
  Tasks = {t1, t2}
  MaxRevision = 5
  MaxRequests = 2
  MaxMounts = 2
  Listeners = {l1, l2}
  Subscribers = {p1, p2, p3}
  MaxSources = 7
  Projects = {q1, q2}
  First = {q1}
  None = None

CHECK_DEADLOCK FALSE

INVARIANTS StreamFollowsView ProjectsKeptApart
PROPERTIES CatchesUp TasksReported
