SPECIFICATION FairSpec
CONSTANTS
    Client = {c1, c2}
    Target = {doc}
    Identity <- MCIdentity
    Arbitrary = Arbitrary
    Requests = {"Sql", "SaveEdit", "BeginEdit", "Initialize"}
    Callers = {"Host", "Rename"}
    MaxStages = 1
PROPERTIES AcceptedWorkEnds CloseCompletes
CHECK_DEADLOCK FALSE
