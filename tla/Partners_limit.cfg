CONSTANTS
    People = {s, p1, p2, p3}
    Sender = s
    MaxOwners = 2
    InvitationDays = 1
    MaxDay = 2
    MaxCalls = 6
SPECIFICATION PartnersSpec
INVARIANT OwnersWithinLimit
CHECK_DEADLOCK FALSE
