SPECIFICATION Spec
CONSTANTS
    Client = {c1, c2}
    Target = {doc}
    Identity <- MCIdentity
    Arbitrary = Arbitrary
    Requests = {"BeginEdit", "Initialize"}
    Callers = {"Host"}
    MaxStages = 0
INVARIANT CloseReturnsToEditor
CHECK_DEADLOCK FALSE
