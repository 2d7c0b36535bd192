SPECIFICATION FairSpec
CONSTANTS
    None = None
    player = player
    sale = sale
    session = session
    attendance = attendance
    refused = refused
    t1 = t1
    t2 = t2
    Tabs <- OneTab
    Acts <- MixedActs
    Captures <- MixedCaptures
    Kind <- MCKind
    PlayerOf <- MCPlayerOf
    SessionOf <- MCSessionOf
    CreatedAt <- MCCreatedAt
    Invalid <- MCInvalid
    StaleScreens = FALSE
    MaxFaults = 1
INVARIANT NoOrphanWithoutFaults
PROPERTY EveryActionSettles
