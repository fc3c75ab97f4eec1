CONSTANTS
    Members = {m1, m2, m3}
    Admins = {a1, a2}
    Submitter = m3
    Nobody = Nobody
    ReportsToHide = 2
    MaxRequests = 5
    Ratings = {r1, r2}
    Pages = {w1, w2}
    MayClose = TRUE
    MaxMonth = 1
    Visits = {v1, v2}
    MaxHour = 3
    MaxBans = 2
    Runs = {x1, x2, x3}
    ProviderWindow = 2
    Retention = 3
    MaxTimer = 6
    Uses = {u1, u2, u3}
    Kinds = {"audit", "attempt", "message"}
    Limit = 2
    Window = 2
    MaxWait = 0
    MaxSecond = 3
    Workers = {k1, k2}
    NoWorker = NoWorker
    Length = 2
    Urls = {"u1"}
    UrlOf <- MCUrlOf
    LastDay = 1
    Clients = {c1, c2}
SPECIFICATION FairSpec
INVARIANTS ServicesTypeOK OwnerEndsClaims ServedScoreIsCurrent WithinLimit NothingPassedOver
PROPERTIES MailedAgainLate HiddenUntilRestored DecisionsEnd BanIsServed ClosedStaysBarred TemporaryBansEnd TakenDownStaysDown PlaceIsKept TransactionsEnd
CHECK_DEADLOCK FALSE
