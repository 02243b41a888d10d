SPECIFICATION FairSpec

CONSTANTS
    Task = {t1, t2}
    Tab = {tab}
    NoTab = NoTab
    HistoryLimit = 1
    MaxChildren = 1

INVARIANTS TasksInv OneRunPerTab TruthfulEntries
PROPERTIES ForwardOnly CancelEnds CloseCompletes

CHECK_DEADLOCK FALSE
