SPECIFICATION Spec
CONSTANTS
    e1 = e1
    e2 = e2
    c1 = c1
    c2 = c2
    worker = worker
    i1 = i1
    i2 = i2
    fundA = fundA
    fundB = fundB
    h1 = h1
    h2 = h2
    Executions <- TwoExecutions
    Conns <- TwoConns
    Host <- OneHost
    Home <- OneHome
    NumPeriods = 1
    Ids <- TwoIds
    FundOf <- TwoFunds
    Hashes <- TwoHashes
    All = All
    NoConn = NoConn
    MaxPages = 2
    MaxPageRows = 1
    MaxFaults = 1
CHECK_DEADLOCK FALSE
INVARIANTS
    NoLockInPool
