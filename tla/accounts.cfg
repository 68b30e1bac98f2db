SPECIFICATION Spec
CONSTANTS
    h1 = h1
    h2 = h2
    u1 = u1
    u2 = u2
    Users = {u1, u2}
    Households = {h1, h2}
    Founders <- MCFounders
    Changes <- MCChanges
    Calls = {c1, c2}
    MaxSessions = 2
    MaxMembers = 3
    MaxPasswords = 3
    MaxPatches = 2
SYMMETRY Symmetry
INVARIANTS OldPasswordsOpenNothing
PROPERTIES LastAdminIsLostToARace
