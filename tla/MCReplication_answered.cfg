SPECIFICATION FairSpec
CONSTANTS
    Primary = p
    p = p
    b1 = b1
    w1 = w1
    w2 = w2
    k1 = k1
    v1 = v1
    Absent = Absent
    Backup = {b1}
    Write = {w1, w2}
    Key = {k1}
    Val = {v1}
    SizeOf <- MCSizeOf
    Entry = {p, b1}
    Overlap = TRUE
PROPERTY
    AllAnswered
CHECK_DEADLOCK FALSE
