SPECIFICATION FairClient
CONSTANTS
    Pages = {"login", "dashboard", "detail", "account", "categories", "members"}
    MaxChanges = 1
    MaxPresses = 1
    MaxVisits = 1
    Trouble = 1
INVARIANTS
    CachesAreHonest
PROPERTIES
    GetsThrough
    EndsOnServersBuild
CHECK_DEADLOCK FALSE
