CONSTANTS
    u1 = u1
    u2 = u2
    a1 = a1
    m1 = m1
    m2 = m2
    m3 = m3
    a2 = a2
    None = None
    Thread = {u1}
    Adapter = {a1, a2}
    Ptr = {m1, m2}
    Kinds <- MCKinds
    Caller <- MCOneCaller
    Home <- MCHomes
    Lists <- MCLists
    Deadline <- MCDeadline
    IdSpace = 2
    ReqTimeout = 2
    ConnTimeout = 1
    LoopCap = 2
    NoSendLimit = 0
    AsyncCap = 1
    SendMayThrow = FALSE
    MaxNow = 2
SPECIFICATION FairSpec
CHECK_DEADLOCK FALSE
INVARIANTS
    NoRequestStranded
PROPERTY Completion
