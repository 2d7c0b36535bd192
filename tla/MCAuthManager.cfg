SPECIFICATION Spec
CONSTANTS
    None = None
    t1 = t1
    t2 = t2
    m = m
    n = n
    o = o
    Tabs <- MCTabs
    Ids <- MCIds
    First = m
    MaxRevokes = 1
    MaxExpired = 1
    MaxFaults = 1
SYMMETRY MCSymmetry
INVARIANT LoggedInIsRestorable
INVARIANT LoggedOutIsErased
PROPERTY RevocationWins
PROPERTY SessionLostForAReason
PROPERTY OnlyTheEndedAreErased
