CONSTANTS
    Uses = {u1, u2, u3}
    Kinds = {"message"}
    Limit = 2
    Window = 2
    MaxWait = 1
    MaxSecond = 3
SPECIFICATION LimitsSpec
INVARIANT WithinLimit
CHECK_DEADLOCK FALSE
