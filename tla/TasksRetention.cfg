SPECIFICATION Spec
CONSTANTS
    Task = {t1, t2}
    Tab = {tab}
    NoTab = NoTab
    HistoryLimit = 1
    MaxChildren = 0
PROPERTY LatestFinishedRetained
CHECK_DEADLOCK FALSE
