SPECIFICATION FairSpec
CONSTANTS
    i1 = i1
    m1 = m1
    m2 = m2
    m3 = m3
    None = None
    Members = {m1, m2, m3}
    Admins = {m1}
    Instances = {i1}
    AdminRequests = {}
    MaxAssignments = 3
    Mode = "EXACTLY"
    WorkerCount = 2
    MinAdminSlots = 1
    BaseValue = 1
    ValueCap = 2
    GrowthStep = 0
    MaxOpen = 1
    MaxRandom = 1
    KeepValue = FALSE
    AllowRelease = FALSE
    ExpiryEnabled = TRUE
    PenaltyIncrement = 1
    OpeningBalance = 1
    Floor = 0
    RewardRules <- AllRules
    EffectCost = 1
    EffectCharges = 1
    EffectMultiplier = 15
    RewardsFloor = 0
    Buyers = {m2}
    MaxSpent = 1
INVARIANTS
    TeamsAddUp
    PointsAddUp
    OffersAreHonoured
    FreeSlotsAreOffered
PROPERTIES
    DeadlineIsActedOn
    PromisedIsPaid
CHECK_DEADLOCK FALSE
