CONSTANTS
    u1 = u1
    u2 = u2
    a1 = a1
    m1 = m1
    m2 = m2
    m3 = m3
    a2 = a2
    None = None
    Thread = {u1, u2}
    Adapter = {a1, a2}
    Ptr = {m1, m2, m3}
    Kinds <- MCKinds
    Caller <- MCCaller
    Home <- MCHomes
    Lists <- MCOneList
    Deadline <- MCDeadline
    IdSpace = 4
    ReqTimeout = 2
    ConnTimeout = 1
    LoopCap = 1
    NoSendLimit = 0
    AsyncCap = 1
    SendMayThrow = FALSE
    MaxNow = 2
SPECIFICATION Spec
CHECK_DEADLOCK FALSE
PROPERTY FirstHashRight
