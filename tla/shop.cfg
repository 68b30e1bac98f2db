SPECIFICATION Spec
SYMMETRY Symmetry
CONSTANTS
    m1 = m1
    Members = {m1}
    Award = 1
    RateHalves = 2
    Costs = {1, 2}
    Factor = 2
    Charges = 1
    Lasts = 2
    Floor = 0
    OpeningBalance = 2
    MaxDay = 3
    MaxWorks = 3
    MaxPurchases = 1
    MaxChanges = 1
INVARIANTS
    PointsAndChargesMatch
    StreakIsEarned
PROPERTIES
    SweepSparesTheActive
CHECK_DEADLOCK FALSE
