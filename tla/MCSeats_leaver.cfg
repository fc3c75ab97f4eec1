CONSTANTS
    Players <- MCPlayers2
    Clients = {c1}
    Invitations = {i1}
    Kinds <- MCLine
    Capacities = {1}
    StartsAt = 2
    HoldFor = 1
    MaxTime = 2
    MaxWait = 0
SPECIFICATION Spec
PROPERTY LeaverIsOut
CHECK_DEADLOCK FALSE
