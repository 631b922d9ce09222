SPECIFICATION Spec
CONSTANTS
    k1 = k1
    b1 = b1
    b2 = b2
    h1 = h1
    h2 = h2
    w1 = w1
    w2 = w2
    Absent = Absent
    Idle = Idle
    Torn = Torn
    Key <- MCKeys1
    Blob <- MCBlobs2
    Hash <- MCHashes
    Writer <- MCWriters
    Garbage <- MCGarbage
    MaxWrites = 3
    MaxVersion = 3
    MaxCrashes = 2
INVARIANTS
    TypeOK
    
    CheckpointSurvives
    FewFiles
SYMMETRY MCSymmetry
