SPECIFICATION Spec
CONSTANTS
    s1 = s1
    s2 = s2
    s3 = s3
    None = None
    Cluster <- MCCluster3
    Budget <- MCBudget
    MaxCrash = 2
    MaxSuspect = 0
    MaxSpawn = 0
    MaxExec = 1
    MaxDrop = 1
    OneAtATime = FALSE
INVARIANTS
    TypeOK
    AtMostOnePrimary
    QuietFullView
PROPERTY
    ImplementsElection
CHECK_DEADLOCK FALSE
