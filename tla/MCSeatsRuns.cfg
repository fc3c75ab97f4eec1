CONSTANTS
    Players <- MCPlayers2
    Clients = {c1}
    Invitations = {i1}
    Kinds <- MCInvitations
    Capacities = {1, 2}
    StartsAt = 2
    HoldFor = 1
    MaxTime = 1
    MaxWait = 0
    Racers = {d1, d2}
SYMMETRY MCRacers
SPECIFICATION RunSpec
INVARIANTS TypeOK NoOverbooking LedgerTellsSeats RacesNeverOverbook RacesPromoteByTheLoop
PROPERTIES SeatsAreAccounted AnswersAreFinal SuspendedGetNothing RacesExhaustTheLine
CHECK_DEADLOCK FALSE
