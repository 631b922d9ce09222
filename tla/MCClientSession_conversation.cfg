SPECIFICATION Spec
CONSTANTS
    c1 = c1
    p1 = p1
    k1 = k1
    k2 = k2
    v1 = v1
    v2 = v2
    h1 = h1
    NoKey = NoKey
    Absent = Absent
    NoBytes = NoBytes
    Client = {c1}
    Peer = {p1}
    Key = {k1, k2}
    Blob = {v1, v2}
    PeerHash = {h1}
    MaxCommands = 4
    MaxChanges = 1
SYMMETRY MCSymmetry
INVARIANT
    NewValOnVerified
    Answered
CHECK_DEADLOCK FALSE
