SPECIFICATION Spec
CONSTANTS
    None = None
    player = player
    sale = sale
    session = session
    attendance = attendance
    refused = refused
    t1 = t1
    t2 = t2
    Tabs <- TwoTabs
    Acts <- RefusalActs
    Captures <- RefusalCaptures
    Kind <- MCKind
    PlayerOf <- MCPlayerOf
    SessionOf <- MCSessionOf
    CreatedAt <- MCCreatedAt
    Invalid <- MCInvalid
    StaleScreens = TRUE
    MaxFaults = 1
SYMMETRY TabSymmetry
INVARIANT BelievesServer
PROPERTY TerminalIsFinal
