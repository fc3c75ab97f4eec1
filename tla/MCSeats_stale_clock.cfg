CONSTANTS
    Players <- MCPlayers2
    Clients = {c1}
    Invitations = {i1}
    Kinds <- MCLine
    Capacities = {1}
    StartsAt = 3
    HoldFor = 2
    MaxTime = 2
    MaxWait = 1
SPECIFICATION Spec
INVARIANT NoOverbooking
CHECK_DEADLOCK FALSE
