CONSTANTS
    Sweepers = {s1}
    Callers = {c1}
    NoOne = NoOne
    Handlers <- MCHandlers
    Live <- MCLive
    MaxAttempts = 2
    Lease = 1
    BackoffBase = 1
    BackoffCap = 2
    MaxRun = 1
    MaxMessages = 1
    MaxCalls = 3
SPECIFICATION Spec
PROPERTIES TakenOverCannotFinish
