SPECIFICATION Spec
CONSTANTS
    Primary = p
    p = p
    b1 = b1
    b2 = b2
    w1 = w1
    w2 = w2
    k1 = k1
    v1 = v1
    v2 = v2
    Absent = Absent
    Backup = {b1, b2}
    Write = {w1, w2}
    Key = {k1}
    Val = {v1, v2}
    SizeOf <- MCSizeOf
    Entry = {p, b1, b2}
    Overlap = TRUE
SYMMETRY MCSymmetry
INVARIANT
    TypeOK
    AckedRecorded
PROPERTY
    KeepsContract
CHECK_DEADLOCK FALSE
