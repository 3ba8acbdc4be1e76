CONSTANTS
    Net = {n1, n2}
    PoolSize = 3
    Batch = 2
    ActiveRound = 1
    Parallel = 2
    Ops = 2
    MaxData = 3
SPECIFICATION FairSpec
CHECK_DEADLOCK FALSE
INVARIANTS
    TypeOK
    NeverAborts
    OneWakeup
    PoolAccounted
    NoIdleWithWork
PROPERTY Served
