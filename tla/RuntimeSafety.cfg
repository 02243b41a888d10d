SPECIFICATION Spec
CONSTANTS
    Client = {c1, c2}
    Target = {doc}
    Identity <- MCIdentity
    Arbitrary = Arbitrary
    Requests = {"Write", "Execute", "BeginEdit", "SaveEdit", "Snapshot", "Initialize"}
    Callers = {"User", "Rename", "Host", "Unload"}
    MaxStages = 1
INVARIANTS RuntimeInv ProjectOutlivesUse CopiesAtRest AdmissionRestored ClosedForGood RenameWhenIdle TablesExclusive
PROPERTY AcceptedSaveOwned
SYMMETRY ClientSymmetry
CHECK_DEADLOCK FALSE
