CONSTANTS
    t1 = t1
    t2 = t2
    t3 = t3
    None = None
    Tickets = {t1, t2, t3}
    MaxRelations = 3
SPECIFICATION Spec
CONSTRAINT Apart
INVARIANTS TypeOK LineageIsAcyclic NoSleepingRing
SYMMETRY Symmetry
