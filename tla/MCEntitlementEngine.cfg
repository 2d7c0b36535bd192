SPECIFICATION Spec
CONSTANTS
    None = None
    TicksPerDay = 2
    UtcOffset = 1
    member = member
    open = open
    fresh1 = fresh1
    fresh2 = fresh2
    k1 = k1
    k2 = k2
    k3 = k3
    k4 = k4
    k5 = k5
    r1 = r1
    r2 = r2
    r3 = r3
    EntIds <- MCEntIds
    ClientIds <- MCClientIds
    Requests <- MCRequests
    Products <- MCProducts
    RulesOf <- MCRulesOf
    Calls <- MCCalls
    InitialRows <- MCInitialRows
    LegacyReceipts <- MCLegacyReceipts
SYMMETRY MCSymmetry
INVARIANT TypeOK
INVARIANT BalanceWithinAllowance
INVARIANT BalanceIsSigned
INVARIANT DrawAppliedOnce
INVARIANT CreatedOnce
PROPERTY PeriodNeverMovesBack
PROPERTY ReplayIsNoOp
