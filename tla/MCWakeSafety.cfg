CONSTANTS
    s1 = s1
    s2 = s2
    None = None
    Slots = {s1, s2}
    MaxHooks = 2
    MaxQueue = 1
    Budgets <- SafetyCases
SPECIFICATION Safety
INVARIANTS TypeOK EveryWaitEnds
PROPERTIES DeliverySafety
