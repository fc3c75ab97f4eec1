CONSTANTS
    Players <- MCPlayers2
    Clients = {c1, c2}
    Invitations <- MCNobody
    Kinds <- MCApproval
    Capacities = {1, 2}
    StartsAt = 3
    HoldFor = 1
    MaxTime = 0
    MaxWait = 0
SPECIFICATION Spec
INVARIANT LedgerTellsSeats
CHECK_DEADLOCK FALSE
