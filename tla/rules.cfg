SPECIFICATION RulesSpec
CONSTANTS
    Topics = {"draws", "simulation", "formulas", "prices", "audit", "series", "pages", "reminders"}
    Roster <- MCRoster
    Chores = {"dishes"}
    CapTables <- MCCapTables
    DrawConfigs <- MCDrawConfigs
    DaysPerWeek = 2
    FairnessDays = 2
    RecentRows = 1
    LastDay = 2
    MaxRows = 3
    MaxOut = 1
    SimMembers <- MCRoster
    SimTasks <- MCSimTasks
    SimConfigs <- MCSimConfigs
    GrowthIntervalsPerOffer = 1
    Cycles <- MCCycles
    FormulaResult <- MCFormulaResult
    MaxSafeInteger = 50000
    Variables = {"v", "b", "n"}
    Arity <- MCArity
    Keyboards <- MCKeyboards
    MaxTyped = 6
    MaxSource = 200
    MaxTokens = 100
    MaxNodes = 100
    MaxDepth = 2
    ProbeCurrentValues = {0, 1, 2, 4, 7, 50, 999}
    ProbeBaseValues = {1, 4, 7}
    ProbeBuyoutCounts = {0, 1, 5}
    SampleBaseValue = 4
    ChainSteps = 3
    Drafts <- MCDrafts
    BaseValue = 4
    TickMinutes = 3
    LastMinute = 18
    MaxVersions = 2
    MaxBuyoutsSeen = 3
    MaxValueSeen = 12
    Payees = {"ada", "ben"}
    PostedAmounts <- MCAmounts
    MaxPostings = 4
    RecurrenceRules <- MCRecurrenceRules
    Zones <- MCZones
    MonthLengths <- MCMonthLengths
    FirstWeekday = 4
    LeadHours = 6
    MaxSteps = 3
    TickHours = 2
    LastHour = 336
    Listings <- MCListings
    AskedLimits <- MCAskedLimits
    DefaultLimit <- MCDefaultLimit
    MostPerPage = 4
    MaxRowsSeen = 4
    MaxInstant = 1
    SweepPasses = {"worker", "manual"}
    DueAt = 2
    Estimates = {0, 1}
    Multipliers = {1, 2}
    TeamSizes = {1, 2}
    MaxHoldings = 3
INVARIANTS
    ImposesTheLeast
    SimulationIsSound
    ParserIsTheGrammar
    QuoteIsHonoured
    GrowthPaysAndTellsOnce
    PreviewComesTrue
    OneChangeIsReported
    SweptSeriesKeepsStep
    ScrollMissesNothing
    HoldersAreRemindedOnce
PROPERTIES
    CompletionDropsTheMissed
CHECK_DEADLOCK FALSE
