SPECIFICATION Spec
SYMMETRY Symmetry
CONSTANTS
    t1 = t1
    t2 = t2
    m1 = m1
    m2 = m2
    k1 = k1
    None = None
    Txns = {t1, t2}
    Members = {m1, m2}
    Keys = {k1}
    MemberOf <- FirstMembersKeys
    Amounts = {1, 2}
    Floor = 0
    MaxEntries = 4
INVARIANTS
    ChainLinked
    KeyOnce
    DebitsKeepFloor
