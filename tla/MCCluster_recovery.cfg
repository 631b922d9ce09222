SPECIFICATION FairSpec
CONSTANTS
    s1 = s1
    s2 = s2
    s3 = s3
    None = None
    Cluster <- MCCluster3
    Budget <- MCBudget
    MaxCrash = 2
    MaxSuspect = 1
    MaxSpawn = 1
    MaxExec = 0
    MaxDrop = 0
    OneAtATime = TRUE
INVARIANT
    QuietAgreement
    SelfInCluster

    
