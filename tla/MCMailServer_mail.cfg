SPECIFICATION FairSpec
CONSTANTS
    u1 = u1
    u2 = u2
    h1 = h1
    h2 = h2
    Near = Near
    Far = Far
    Absent = Absent
    NumThreads = 2
    User = {u1, u2}
    Header = {h1, h2}
    Address <- MCAddress
    Mail <- MCMail
    Dotted = {h2}
    RangeMap <- MCRanges
    MaxCommands = 2
    MaxLost = 1
INVARIANT
    
    
    BoxesPaired
PROPERTY
    
    Replies
CHECK_DEADLOCK FALSE
