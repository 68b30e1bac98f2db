SPECIFICATION Spec
SYMMETRY Symmetry
CONSTANTS
    t1 = t1
    t2 = t2
    i1 = i1
    i2 = i2
    Txns = {t1, t2}
    Members = {1, 2}
    Admins = {1}
    Instances = {i1, i2}
    UseCases = {"volunteer", "accept", "complete", "buyout", "give back", "reject", "cancel", "adjust", "purchase", "sweep"}
INVARIANTS
    KnotsSpareOccurrences
