CONSTANTS
    p1 = p1
    p2 = p2
    f1 = f1
    Proc = {p1, p2}
    FileOp = {f1}
    MaxFaults = 1
    MaxQueued = 2
    Scenarios <- MCScenarios
SPECIFICATION Spec
INVARIANTS WorkspaceIsGuarded
PROPERTIES ImplementsLease SpawnIsAdmitted ExecutorAnswers
