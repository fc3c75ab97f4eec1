CONSTANTS
    Sweepers = {s1}
    Callers = {c1, c2}
    NoOne = NoOne
    Handlers <- MCHandlers
    Live <- MCLive
    MaxAttempts = 2
    Lease = 1
    BackoffBase = 1
    BackoffCap = 2
    MaxRun = 1
    MaxMessages = 1
    MaxCalls = 2
SPECIFICATION FairRunSpec
INVARIANTS NothingSkipped
PROPERTIES FencedLeavesAlone KeptActsAsOutbox KeptRunsRecordedOnce KeptSettles
