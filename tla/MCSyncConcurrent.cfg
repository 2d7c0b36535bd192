SPECIFICATION Spec
CONSTANTS
    None = None
    Omitted = Omitted
    A = A
    B = B
    academy = academy
    other = other
    bob = bob
    bob2 = bob2
    kim = kim
    ann = ann
    local = local
    s1 = s1
    s2 = s2
    att = att
    pay = pay
    d1 = d1
    d2 = d2
    d3 = d3
    Deliveries <- MCDeliveries
    MaxActive = 2
    Batches <- MCBatches
    DedupKeys <- MCDedupKeys
    NameOf <- MCNameOf
    NaturalKeys <- MCNaturalKeys
    Locations = {A, B}
    Schools = {academy, other}
    Grades = {"7"}
    InitialPlayers <- MCInitialPlayers
SYMMETRY MCSymmetry
INVARIANT NoTornRow
INVARIANT InsertAuditedOnce
INVARIANT WrittenInScope
