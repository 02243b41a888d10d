SPECIFICATION Spec

CONSTANTS
  Parts = {"names", "output", "tabs", "settings"}
  t1 = t1
  a = a
  b = b
  x = x
  Tables = {t1, t2}
  Names = {a, b, c}
  Columns = {x, y}
  First <- MCFirst
  Local = TRUE
  MaxRenames = 2
  MaxPicks = 2
  MaxVisits = 1
  None = None
  MaxRuns = 2
  MaxClears = 1
  MaxElsewhere = 1
  MaxActs = 2
  MaxTabs = 2
  MaxCalls = 2
  Keys = {"colors", "order"}
  Manual = "manual"
  MaxChanges = 3
  MaxManual = 1
  MaxReads = 1

CHECK_DEADLOCK FALSE

INVARIANTS ReferencesFollow OutputIsTrue TabsSettle
