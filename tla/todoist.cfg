SPECIFICATION FairSpec
CONSTANTS
    c1 = c1
    Chores = {c1}
    MaxAttempts = 2
    DeadCap = 2
    Trouble = 3
INVARIANTS
    OneTaskPerChore
PROPERTIES
    WantedIsShown
    UnwantedIsCleared
