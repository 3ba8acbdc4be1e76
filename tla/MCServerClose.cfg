CONSTANTS
    c1 = c1
    c2 = c2
    c3 = c3
    h1 = h1
    None = None
    Conn = {c1, c2, c3}
    Handle = {h1}
    Asks <- MCAsks
    Slots = 2
    MaxConns = 2
    QueueCap = 2
    OverloadAt = 0
    TimeoutOn = TRUE
SPECIFICATION Spec
CHECK_DEADLOCK FALSE
INVARIANTS
    CloseTypeRight
