SPECIFICATION Spec
CONSTANTS
    k1 = k1
    b1 = b1
    b2 = b2
    h1 = h1
    h2 = h2
    w1 = w1
    w2 = w2
    Absent = Absent
    Idle = Idle
    Torn = Torn
    Key <- MCKeys1
    Blob <- MCBlobs1
    Hash <- MCHash1
    Writer <- MCWriter1
    Garbage <- MCZero
    MaxWrites = 1
    MaxVersion = 1
    MaxCrashes = 1
PROPERTY
    RestoresState
