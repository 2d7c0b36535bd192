SPECIFICATION Spec
CONSTANTS
    None = None
    TicksPerDay = 1
    UtcOffset = 0
    Requests = {"r1", "r2", "r3", "r4", "r5"}
    Call <- MCCall
    Player <- MCPlayer
    Product <- MCProduct
    Grant <- MCGrant
    Locations = {"Smithfield", "Durban"}
    Devices = {"tablet"}
    LastEntry <- MCLastEntry
    Visits <- MCVisits
    Horizon = 1
    FirstDay = 9
    LastDay = 10
    MaxFailures = 1
INVARIANTS
    SessionIsWhole
    LoggedIsVisible
    SubscriptionNeverSilent
PROPERTIES
    AlertsStay
CHECK_DEADLOCK FALSE
