CONSTANTS
    MinTimeoutInvoke = 2
    CheckTimeoutInterval = 3
    FrequenceFailInvoke = 2
    MinFrequenceFailTime = 1
    RadioPercent = 50
    TryTimeInterval = 2
    MaxConnectExc = 1
    MaxCount = 4
SPECIFICATION FairSpec
INVARIANTS
    TypeOK
    BlockedHasNoLink
    FailuresAmongCalls
    ExcOnlyWhileBlocked
PROPERTY BlockedComesBack
