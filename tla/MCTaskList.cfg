CONSTANTS
    NoTask = NoTask
    N = 4
    EachNums = {1, 2}
    MaxThreads = 2
    Task = {1, 2, 3, 4}
    Worker = {1, 2}
SPECIFICATION FairSpec
CHECK_DEADLOCK FALSE
INVARIANTS
    TypeOK
    FinishedIsFinal
    OutageBounded
    CancelHolds
PROPERTY Ends
