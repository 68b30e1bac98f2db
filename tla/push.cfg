SPECIFICATION FairPush
CONSTANTS
    m1 = m1
    m2 = m2
    h1 = h1
    h2 = h2
    d1 = d1
    None = None
    Members = {m1, m2}
    Households = {h1, h2}
    HouseOf <- HouseOfEach
    Devices = {d1}
    MaxPasses = 2
    MaxNotes = 2
    MaxEndpoints = 2
    BatchLimit = 2
    PushMishaps = 1
INVARIANTS
    PushesReachTheirOwnerOnce
PROPERTIES
    OutboxDrains
