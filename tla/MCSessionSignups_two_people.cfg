CONSTANTS
    Players <- MCPlayers3
    Clients = {c1, c2}
    Size = 1
    Alone = {}
    MaxTime = 0
SYMMETRY MCClients
SPECIFICATION Spec
INVARIANT NotOversold
