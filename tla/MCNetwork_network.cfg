CONSTANTS
    t1 = t1
    t2 = t2
    c1 = c1
    c2 = c2
    c3 = c3
    f1 = f1
    f2 = f2
    console = console
    Tablet = {t1, t2}
    Clusters <- MCClusters
    Nobody = Nobody
    Client = {c1, c2, c3}
    row <- MCRow
    Console = {console}
    MaxTyped = 1
    Watched = {t1}
    Fetcher = {f1, f2}
    copy <- MCCopy
    task <- MCTask
    AdminPort = AdminPort
    None = None
    NUL = NUL
    Table <- MCTable
    BufSize = 2
    Parties <- MCParties
    MaxPing = 3
    MaxSlow = 1
    MaxHangup = 1
    MaxCrash = 1
SPECIFICATION FairSpec
INVARIANTS
    TypeOK
    NamedAccepts
    LossExplained
    TornExplained
CHECK_DEADLOCK FALSE
PROPERTIES
    
    Reaped
