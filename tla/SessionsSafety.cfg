SPECIFICATION Spec

CONSTANTS
  Parts = {"cell", "draft", "topic", "changes", "labels"}
  t1 = t1
  Sessions = {s1, s2}
  Dialogs = {s1}
  Tables = {t1}
  TableOf <- MCTableOf
  Edits = {good, bad}
  Invalid = {bad}
  Kept = 1
  MaxCalls = 3
  NoCall = NoCall
  Rows = {r1, r2, r3}
  Columns = {c}
  PageSizes = {1, 2}
  MaxNew = 2
  NoRow = NoRow
  MaxPreviews = 2
  MaxAdjustments = 2
  MaxRuns = 1
  Queries = {"tabs", "output"}
  Kind <- MCKind
  Objects = {"tabs", "a"}
  Names <- MCNames
  Edges = {}
  Tabs = "tabs"
  Analysis = "a"
  Capacity = 1
  MaxCommits = 2
  MaxDrops = 1
  None = None
  MaxDocuments = 5
  MaxAnnotations = 2

CHECK_DEADLOCK FALSE

INVARIANTS PreviewIsOwn ViewsAreCurrent
PROPERTIES EditorIsTruthful DraftIsWellFormed LabelsAreSound
