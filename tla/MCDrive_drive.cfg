SPECIFICATION Spec
CONSTANTS
    u1 = u1
    u2 = u2
    f1 = f1
    d1 = d1
    Absent = Absent
    User = {u1, u2}
    File = {f1}
    Folder = {d1}
    Request <- MCRequest
    MaxDepth = 2
    MaxCommands = 5
    MaxStarts = 1
INVARIANTS
    TypeOK
    Openable
    ListedStored
PROPERTY
    KeepsTree
CHECK_DEADLOCK FALSE
