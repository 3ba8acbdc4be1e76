CONSTANTS
    v1 = v1
    v2 = v2
    Val = {v1, v2}
    Junk = Junk
    Size = 3
    Batches <- MCBatches
SPECIFICATION Spec
INVARIANTS
    TypeOK
    RoomForTodo
    CopyIsOldest
    RefusalIsExact
PROPERTY ImplementsFifo
