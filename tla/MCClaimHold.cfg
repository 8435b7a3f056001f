CONSTANTS
    a1 = a1
    a2 = a2
    h = h
    t1 = t1
    t2 = t2
    NoOne = NoOne
    Agents = {a1, a2}
    Humans = {h}
    Tickets = {t1, t2}
    MayAutoClaim = {a1, a2}
    Reporter <- MCReporter
    Sees <- MCSees
    AssignWindow = 1
    Protect = 1
    MaxTime = 2
SPECIFICATION Spec
INVARIANTS TypeOK AssignmentSupersedesClaim ProtectedHolderMaySteps OneBareFocus
PROPERTIES NeverStolen
SYMMETRY Symmetry
