CONSTANTS
    Ptr = {p1, p2, p3}
    Deadline <- MCDeadline
    IdSpace = 4
    MaxNow = 2
SPECIFICATION Spec
INVARIANTS
    TypeOK
    IndexesAgree
    NothingLostOrDoubled
PROPERTY SendOrderKept
