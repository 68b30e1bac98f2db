SPECIFICATION Spec
SYMMETRY Symmetry
CONSTANTS
    i1 = i1
    m1 = m1
    m2 = m2
    None = None
    Members = {m1, m2}
    Admins = {}
    Instances = {i1}
    AdminRequests = {}
    MaxAssignments = 2
    Mode = "EXACTLY"
    WorkerCount = 2
    MinAdminSlots = 0
    BaseValue = 1
    ValueCap = 2
    GrowthStep = 0
    MaxOpen = 1
    MaxRandom = 1
    KeepValue = FALSE
    AllowRelease = TRUE
    ExpiryEnabled = TRUE
    PenaltyIncrement = 1
    OpeningBalance = 1
    Floor = 0
    RewardRules <- OnlyInFull
    EffectCost = 1
    EffectCharges = 1
    EffectMultiplier = 15
    RewardsFloor = 0
    Buyers = {}
    MaxSpent = 1
INVARIANTS
    ExpiryClosesEverySlot
CHECK_DEADLOCK FALSE
