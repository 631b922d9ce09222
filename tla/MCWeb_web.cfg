SPECIFICATION Spec
CONSTANTS
    u1 = u1
    u2 = u2
    w1 = w1
    t1 = t1
    t2 = t2
    t3 = t3
    Near = Near
    Far = Far
    Absent = Absent
    Blank = Blank
    NumPorts = 2
    CONNMAX = 2
    User = {u1, u2}
    Password = {w1, Blank}
    Region = {Near, Far}
    Tablet = {t1, t2, t3}
    rangeOf <- MCRangeOf
    rangeServed <- MCRangeServed
    Workload <- MCWorkload
    MaxRequests = 3
    MaxLost = 1
INVARIANT
    TypeOK
    OneOwner
    AccountComplete
    AnswersSuffice
    
    
    RedirectsOpen
CHECK_DEADLOCK FALSE
