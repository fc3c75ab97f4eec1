CONSTANTS
    TableKinds = {"one_shot", "campaign", "adventure"}
    Drafts = TRUE
    StartDates = {1}
    Tabs = {g1}
    Week = 2
    Upcoming = 3
    Duration = 1
    FirstAfter = 0
    LastAfter = 1
    CloseAfter = 2
    Notice = 1
    Attempts = 2
    Busy = {4}
    Until = 7
    LastDate = 7
    MaxClock = 5
    MaxEdits = 2
    Players <- MCPlayers4
    Clients = {c1, c2}
    Size = 2
    Alone = {"depart"}
    MaxTime = 1
    People = {s, p1, p2, p3}
    Sender = s
    MaxOwners = 2
    InvitationDays = 1
    MaxDay = 2
    MaxCalls = 7
SPECIFICATION FairRunSpec
INVARIANTS TablesTypeOK RowsMatchTable NoClash NoIdlePlace NotOversold JoinedWithinLimit
PROPERTIES HistoryKept StaysInLine WarnedBeforeClose OneAnswer Settles PlacesAsPromised
CHECK_DEADLOCK FALSE
