SPECIFICATION Spec
SYMMETRY Symmetry
CONSTANTS
    i1 = i1
    i2 = i2
    m1 = m1
    m2 = m2
    r1 = r1
    None = None
    Members = {m1, m2}
    Admins = {}
    Instances = {i1, i2}
    AdminRequests = {r1}
    MaxAssignments = 2
    Mode = "EXACTLY"
    WorkerCount = 1
    MinAdminSlots = 0
    BaseValue = 1
    ValueCap = 2
    GrowthStep = 2
    MaxOpen = 2
    MaxRandom = 1
    KeepValue = TRUE
    AllowRelease = TRUE
    ExpiryEnabled = TRUE
    PenaltyIncrement = 1
    OpeningBalance = 2
    Floor = 0
    RewardRules <- AllRules
    EffectCost = 1
    EffectCharges = 1
    EffectMultiplier = 15
    RewardsFloor = 0
    Buyers = {}
    MaxSpent = 1
INVARIANTS
    ReturnedWorkEarnsNothing
    DeadlineChargedOnce
PROPERTIES
    ImplementsSoloTask
CHECK_DEADLOCK FALSE
